-------------------------- MODULE MessagePipeline --------------------------
(***************************************************************************)
(* The way of an inbound WhatsApp message of one sender: the webhook       *)
(* publishes message.received; the conversation listener stores the        *)
(* message, once in a thread (a row of conversations), commits, and then   *)
(* publishes conversation.message_saved; the onboarding listener and the   *)
(* order listener both receive it, each in its own task and its own time,  *)
(* and agree through the onboarding state in Redis and the traders table   *)
(* on who answers.  The sender's thread is the newest active one, and it   *)
(* changes: the dashboard opens threads too, and the first login of a      *)
(* trader moves threads to another tenant.  The usual names carry the      *)
(* prefix Pipeline, so that a module can extend Outreach beside it.        *)
(***************************************************************************)
EXTENDS Naturals, Sequences, Functions

CONSTANTS
    Messages,       \* ids that Meta assigns
    Kind,           \* what a message says: "trigger", "referral" or "other"
    MaxPosts,       \* bound: deliveries by Meta, per message
    MaxThreads      \* bound: threads opened for the sender

VARIABLES
    posts,          \* per message: deliveries by Meta so far
    received,       \* message.received events the conversation listener holds
    threads,        \* the sender's active threads in the tenant of the number
    opened,         \* all threads opened for the sender so far
    request,        \* is a dashboard request that found no thread about to open one?
    saved,          \* copies of messages in the database
    storing,        \* copies stored, committed, and still to be published (at most one)
    toOnboarding,   \* conversation.message_saved events the onboarding listener holds
    toOrders,       \* the same of the order listener
    onboards,       \* the copy whose sender the onboarding listener found no trader row for
    routes,         \* the copy whose sender the order listener found not in onboarding
    listener,       \* per listener task: starting, subscribed, or dead
    onboarding,     \* is there an onboarding state of the sender in Redis?
    trader,         \* is the sender in the traders table?
    handled,        \* per copy: times the order listener took it up, 2 for more
    answered,       \* <<copy, listener>>: who answered what
    lost            \* messages of which a failure, a restart or a dead listener swallowed an event

threadVars == <<threads, opened, request>>

pipelineVars == <<posts, received, threads, opened, request, saved, storing,
          toOnboarding, toOrders, onboards, routes, listener, onboarding, trader, handled,
          answered, lost>>

Listeners == {"conversation", "onboarding", "orders"}

ASSUME KindAssumption == Kind \in [Messages -> {"trigger", "referral", "other"}]
ASSUME MaxPostsAssumption == MaxPosts \in [Messages -> Nat]
ASSUME MaxThreadsAssumption == MaxThreads \in Nat \ {0}

\* Threads are numbered by created_at, the time at which the transaction that opened them
\* began.
Threads == 1..MaxThreads

\* A message as it is stored: the thread it is in, and its id.
Copies == Threads \X Messages

Ids(copies) == {c[2] : c \in copies}

-----------------------------------------------------------------------------
PipelineInit ==
    /\ posts = [m \in Messages |-> 0]
    /\ received = <<>>
    /\ threads = {}
    /\ opened = {}
    /\ request = FALSE
    /\ saved = {}
    /\ storing = {}
    /\ toOnboarding = <<>>
    /\ toOrders = <<>>
    /\ onboards = {}
    /\ routes = {}
    /\ listener = [l \in Listeners |-> "subscribed"]
    /\ onboarding = FALSE
    /\ trader = FALSE
    /\ handled = [c \in Copies |-> 0]
    /\ answered = {}
    /\ lost = {}

Listens(l) == listener[l] = "subscribed"

\* POST /webhook/whatsapp: IngestionService.process publishes and Meta gets its
\* 200.  Meta delivers a message again whenever it pleases; Redis drops an event
\* that nobody is subscribed to.
ReceiveWebhook(m) ==
    /\ posts[m] < MaxPosts[m]
    /\ posts' = [posts EXCEPT ![m] = posts[m] + 1]
    /\ IF Listens("conversation") THEN received' = Append(received, m) /\ UNCHANGED lost
       ELSE lost' = lost \cup {m} /\ UNCHANGED received
    /\ UNCHANGED <<threadVars, storing, saved, toOnboarding, toOrders, onboards, routes, listener,
                   onboarding, trader, handled, answered>>

\* get_or_create_conversation: t is the sender's newest active thread, or a new one.
InThread(t) ==
    /\ IF threads = {}
       THEN /\ t \notin opened
            /\ opened' = opened \cup {t}
            /\ threads' = {t}
       ELSE /\ t \in threads
            /\ \A u \in threads : u <= t
            /\ UNCHANGED <<threads, opened>>
    /\ UNCHANGED request

\* The listener takes the next event and looks up the thread t.
TakeReceived(t) ==
    /\ storing = {}
    /\ received # <<>>
    /\ received' = Tail(received)
    /\ InThread(t)

\* Mutant: the external id is not looked up.
SaveMessageAgain ==
    \E t \in Threads :
        /\ TakeReceived(t)
        /\ saved' = saved \cup {<<t, Head(received)>>}
        /\ storing' = {<<t, Head(received)>>}
        /\ UNCHANGED <<posts, toOnboarding, toOrders, onboards, routes, listener,
                       onboarding, trader, handled, answered, lost>>

\* Mutant: the event is published before the commit.
SaveMessageLate ==
    \E t \in Threads :
        /\ TakeReceived(t)
        /\ storing' = {<<t, Head(received)>>} \ saved
        /\ UNCHANGED <<posts, saved, toOnboarding, toOrders, onboards, routes,
                       listener, onboarding, trader, handled, answered, lost>>

\* Mutant: a redelivered message takes the place of the first one, so that
\* neither is published when the second arrives before the first was.
SaveMessageSilent ==
    \E t \in Threads :
        /\ TakeReceived(t)
        /\ saved' = saved \cup {<<t, Head(received)>>}
        /\ storing' = IF posts[Head(received)] > 1 THEN {}
                      ELSE {<<t, Head(received)>>} \ saved
        /\ UNCHANGED <<posts, toOnboarding, toOrders, onboards, routes, listener,
                       onboarding, trader, handled, answered, lost>>

\* handle_message_received: the thread is found or opened, a message whose external id
\* is known in this thread is dropped, any other is stored and committed.
SaveMessage ==
    \E t \in Threads :
        /\ TakeReceived(t)
        /\ saved' = saved \cup {<<t, Head(received)>>}
        /\ storing' = {<<t, Head(received)>>} \ saved
        /\ UNCHANGED <<posts, toOnboarding, toOrders, onboards, routes, listener,
                       onboarding, trader, handled, answered, lost>>

\* handle_message_received goes on to publish conversation.message_saved.
PublishSaved ==
    \E c \in storing :
        /\ toOnboarding' = IF Listens("onboarding") THEN Append(toOnboarding, c)
                           ELSE toOnboarding
        /\ IF Listens("orders") THEN toOrders' = Append(toOrders, c) /\ UNCHANGED lost
           ELSE lost' = lost \cup {c[2]} /\ UNCHANGED toOrders
        /\ storing' = {}
        /\ UNCHANGED <<threadVars, posts, received, saved, onboards, routes, listener,
                       onboarding, trader, handled, answered>>

\* OnboardingService.handle reads the trader row: a trader is left to the order
\* listener.
ReadTrader ==
    /\ onboards = {}
    /\ toOnboarding # <<>>
    /\ toOnboarding' = Tail(toOnboarding)
    /\ onboards' = IF trader THEN {} ELSE {Head(toOnboarding)}
    /\ UNCHANGED <<threadVars, posts, received, storing, saved, toOrders, routes, listener,
                   onboarding, trader, handled, answered, lost>>

\* It goes on with the state in Redis: a sender in onboarding is taken a step
\* further, a message that asks for it starts onboarding, any other is ignored.
\* The last step clears the state, if the sender signed up since ReadTrader.
HandleOnboarding ==
    \E c \in onboards :
        /\ IF onboarding \/ Kind[c[2]] \in {"trigger", "referral"}
           THEN /\ answered' = answered \cup {<<c, "onboarding">>}
                /\ onboarding' \in {TRUE} \cup (IF onboarding /\ trader THEN {FALSE} ELSE {})
           ELSE UNCHANGED <<onboarding, answered>>
        /\ onboards' = {}
        /\ UNCHANGED <<threadVars, posts, received, storing, saved, toOnboarding, toOrders,
                       routes, listener, trader, handled, lost>>

\* handle_order_intent takes the message up and leaves a sender in onboarding alone.
ReadOnboardingState ==
    /\ routes = {}
    /\ toOrders # <<>>
    /\ toOrders' = Tail(toOrders)
    /\ routes' = IF onboarding THEN {} ELSE {Head(toOrders)}
    /\ handled' = [handled EXCEPT ![Head(toOrders)] =
                      IF handled[Head(toOrders)] < 2 THEN handled[Head(toOrders)] + 1 ELSE 2]
    /\ UNCHANGED <<threadVars, posts, received, storing, saved, toOnboarding, onboards,
                   listener, onboarding, trader, answered, lost>>

\* Mutant: trigger words of unknown senders are not left to onboarding.
YieldsNever(m) == FALSE

\* A trigger word of an unknown sender is left to onboarding.
YieldsToOnboarding(m) == Kind[m] = "trigger" /\ ~ trader

\* It goes on: the message is left to onboarding or goes to a trader command, a
\* cart, a customer's chat or the prompt to use a store link.
HandleOrderIntent ==
    \E c \in routes :
        /\ answered' = IF YieldsToOnboarding(c[2]) THEN answered
                       ELSE answered \cup {<<c, "orders">>}
        /\ routes' = {}
        /\ UNCHANGED <<threadVars, posts, received, storing, saved, toOnboarding, toOrders,
                       onboards, listener, onboarding, trader, handled, lost>>

\* The TTL of the onboarding state runs out after a week in which nothing comes in.
ExpireState ==
    /\ onboarding
    /\ received = <<>> /\ storing = {}
    /\ toOnboarding = <<>> /\ toOrders = <<>>
    /\ onboards = {} /\ routes = {}
    /\ onboarding' = FALSE
    /\ UNCHANGED <<threadVars, posts, received, storing, saved, toOnboarding, toOrders, onboards,
                   routes, listener, trader, handled, answered, lost>>

\* The sender signs up on the web, which writes the trader row.
SignUp ==
    /\ ~ trader
    /\ trader' = TRUE
    /\ UNCHANGED <<threadVars, posts, received, storing, saved, toOnboarding, toOrders, onboards,
                   routes, listener, onboarding, handled, answered, lost>>

\* POST /conversations: the request finds no thread of the sender.
FindNoThread ==
    /\ ~ request
    /\ threads = {}
    /\ request' = TRUE
    /\ UNCHANGED <<posts, received, threads, opened, saved, storing, toOnboarding,
                   toOrders, onboards, routes, listener, onboarding, trader, handled,
                   answered, lost>>

\* It opens one, though the listener may have opened another meanwhile: no index keeps them
\* apart, and either transaction may have begun before the other.
OpenThread ==
    /\ request
    /\ request' = FALSE
    /\ \E t \in Threads \ opened :
            /\ opened' = opened \cup {t}
            /\ threads' = threads \cup {t}
    /\ UNCHANGED <<posts, received, saved, storing, toOnboarding, toOrders, onboards,
                   routes, listener, onboarding, trader, handled, answered, lost>>

\* The first login of a trader moves the threads with orders of hers to her tenant.
MoveThreads ==
    /\ \E moved \in (SUBSET threads) \ {{}} : threads' = threads \ moved
    /\ threads' = {} => opened # Threads
    /\ UNCHANGED <<posts, received, opened, request, saved, storing, toOnboarding,
                   toOrders, onboards, routes, listener, onboarding, trader, handled,
                   answered, lost>>

-----------------------------------------------------------------------------
(* Failures.                                                               *)

\* The handler at hand raises: the listener logs it and goes on.
FailHandler ==
    /\ \/ /\ storing # {} /\ storing' = {}
          /\ lost' = lost \cup Ids(storing)
          /\ UNCHANGED <<received, onboards, routes>>
       \/ /\ storing = {} /\ received # <<>> /\ received' = Tail(received)
          /\ lost' = lost \cup {Head(received)}
          /\ UNCHANGED <<storing, onboards, routes>>
       \/ /\ onboards # {} /\ onboards' = {}
          /\ UNCHANGED <<received, storing, routes, lost>>
       \/ /\ routes # {} /\ routes' = {}
          /\ UNCHANGED <<received, storing, onboards, lost>>
    /\ UNCHANGED <<threadVars, posts, saved, toOnboarding, toOrders, listener, onboarding, trader,
                   handled, answered>>

\* The process restarts: events that wait and the subscriptions are gone.
RestartListeners ==
    /\ lost' = lost \cup Range(received) \cup Ids(storing \cup Range(toOrders))
    /\ received' = <<>>
    /\ storing' = {}
    /\ toOnboarding' = <<>>
    /\ toOrders' = <<>>
    /\ onboards' = {}
    /\ routes' = {}
    /\ listener' = [l \in Listeners |-> "starting"]
    /\ UNCHANGED <<threadVars, posts, saved, onboarding, trader, handled, answered>>

\* The PSUBSCRIBE of a listener task goes through.
Subscribe(l) ==
    /\ listener[l] = "starting"
    /\ listener' = [listener EXCEPT ![l] = "subscribed"]
    /\ UNCHANGED <<threadVars, posts, received, storing, saved, toOnboarding, toOrders, onboards,
                   routes, onboarding, trader, handled, answered, lost>>

\* The connection of a listener breaks while it waits for the next event: the exception
\* leaves the loop around the handler, and the task is over until the process restarts.
LoseConnection(l) ==
    /\ listener[l] # "dead"
    /\ listener' = [listener EXCEPT ![l] = "dead"]
    /\ \/ /\ l = "conversation" /\ storing = {}
          /\ received' = <<>> /\ lost' = lost \cup Range(received)
          /\ UNCHANGED <<toOnboarding, toOrders>>
       \/ /\ l = "onboarding" /\ onboards = {}
          /\ toOnboarding' = <<>>
          /\ UNCHANGED <<received, toOrders, lost>>
       \/ /\ l = "orders" /\ routes = {}
          /\ toOrders' = <<>> /\ lost' = lost \cup Ids(Range(toOrders))
          /\ UNCHANGED <<received, toOnboarding>>
    /\ UNCHANGED <<threadVars, posts, storing, saved, onboards, routes, onboarding, trader, handled,
                   answered>>

-----------------------------------------------------------------------------
PipelineNext ==
    \/ \E m \in Messages : ReceiveWebhook(m)
    \/ SaveMessage
    \/ PublishSaved
    \/ ReadTrader
    \/ HandleOnboarding
    \/ ReadOnboardingState
    \/ HandleOrderIntent
    \/ ExpireState
    \/ SignUp
    \/ FindNoThread
    \/ OpenThread
    \/ MoveThreads
    \/ FailHandler
    \/ RestartListeners
    \/ \E l \in Listeners : Subscribe(l) \/ LoseConnection(l)

PipelineSpec == PipelineInit /\ [][PipelineNext]_pipelineVars

\* Every listener task goes on with the events it holds.
PipelineFairness ==
    /\ WF_pipelineVars(SaveMessage)
    /\ WF_pipelineVars(PublishSaved)
    /\ WF_pipelineVars(ReadTrader)
    /\ WF_pipelineVars(HandleOnboarding)
    /\ WF_pipelineVars(ReadOnboardingState)
    /\ WF_pipelineVars(HandleOrderIntent)

FairPipelineSpec == PipelineSpec /\ PipelineFairness

-----------------------------------------------------------------------------
(* Properties.                                                             *)

\* Every variable of the pipeline has its type.
PipelineTypeOK ==
    /\ posts \in [Messages -> Nat]
    /\ received \in Seq(Messages)
    /\ opened \subseteq Threads
    /\ threads \subseteq opened
    /\ request \in BOOLEAN
    /\ saved \subseteq Copies
    /\ storing \subseteq Copies
    /\ toOnboarding \in Seq(Copies)
    /\ toOrders \in Seq(Copies)
    /\ onboards \subseteq Copies
    /\ routes \subseteq Copies
    /\ listener \in [Listeners -> {"starting", "subscribed", "dead"}]
    /\ onboarding \in BOOLEAN
    /\ trader \in BOOLEAN
    /\ handled \in [Copies -> 0..2]
    /\ answered \subseteq Copies \X {"onboarding", "orders"}
    /\ lost \subseteq Messages

\* However often Meta delivers a message and whatever restarts in between, the order
\* listener takes it up at most once in a thread: save_message drops what the thread has.
\* A message is taken up again only if the sender's thread changed before Meta repeated it.
HandledOnce == \A c \in Copies : handled[c] <= 1

\* message_saved follows the commit: what a listener handles is in the database.
HandledIsSaved ==
    \A c \in Copies :
        handled[c] > 0 \/ <<c, "onboarding">> \in answered => c \in saved

\* However messages are repeated, whatever stops and whichever thread is the newest, all
\* variables keep their types, and a message is saved in a thread first and then handled
\* once from it (handle_message_received).
SavedThenHandledOnce == PipelineTypeOK /\ HandledIsSaved /\ HandledOnce

\* Listener l answered the message, in whatever thread.
Answered(m, l) == \E c \in Copies : c[2] = m /\ <<c, l>> \in answered

\* A trigger word of a sender who has not signed up on the web is answered by one
\* listener only, in whatever order the two read the traders table and Redis and in
\* however many threads the word was stored.
TriggerAnsweredOnce ==
    \A m \in Messages : Kind[m] = "trigger" /\ ~ trader =>
        ~ (Answered(m, "onboarding") /\ Answered(m, "orders"))

\* Every message that Meta delivers reaches the order listener, unless a failure, a
\* restart or a listener that is gone swallowed one of its own events.
DeliveredIsHandled ==
    \A m \in Messages :
        posts[m] > 0 ~> (\E c \in Copies : c[2] = m /\ handled[c] > 0) \/ m \in lost
=============================================================================
