-------------------------- MODULE Messaging_Proofs --------------------------
(***************************************************************************)
(* What comes in and what goes out: proofs about MessagePipeline, the way  *)
(* of an inbound message through the listeners, and about Outreach, the    *)
(* reminders, broadcasts and reports.  The two share no state.             *)
(***************************************************************************)
EXTENDS MessagePipeline, Outreach, FiniteSetTheorems, TLAPS

-----------------------------------------------------------------------------
(* Inbound messages.                                                       *)

Waits(c) == \E i \in 1..Len(toOrders) : toOrders[i] = c

\* What a listener holds or has handled is in the database.
Stored ==
    /\ storing \subseteq saved
    /\ \A i \in 1..Len(toOrders) : toOrders[i] \in saved
    /\ \A i \in 1..Len(toOnboarding) : toOnboarding[i] \in saved
    /\ onboards \subseteq saved
    /\ HandledIsSaved

\* A copy of a message is in one place on its way to the order listener: about to be published, in
\* its queue, or taken up.
Once ==
    /\ \A c \in storing : handled[c] = 0 /\ ~ Waits(c)
    /\ \A i \in 1..Len(toOrders) : handled[toOrders[i]] = 0
    /\ \A i, k \in 1..Len(toOrders) : toOrders[i] = toOrders[k] => i = k
    /\ HandledOnce

FlowInv == PipelineTypeOK /\ Stored /\ Once

\* The elements of a queue after its first one is taken, and after one is appended.
LEMMA QueueTail ==
    ASSUME NEW S, NEW q \in Seq(S), q # <<>>
    PROVE  /\ Tail(q) \in Seq(S) /\ Head(q) \in S /\ Len(q) \in Nat \ {0} /\ Head(q) = q[1]
           /\ Len(Tail(q)) = Len(q) - 1
           /\ \A i \in 1..Len(Tail(q)) : Tail(q)[i] = q[i + 1] /\ i + 1 \in 1..Len(q)
  OBVIOUS

\* A queue to which a message is added.
LEMMA QueueAppend ==
    ASSUME NEW S, NEW q \in Seq(S), NEW m \in S
    PROVE  /\ Append(q, m) \in Seq(S) /\ Len(Append(q, m)) = Len(q) + 1 /\ Len(q) \in Nat
           /\ \A i \in 1..Len(q) : Append(q, m)[i] = q[i]
           /\ Append(q, m)[Len(q) + 1] = m
  OBVIOUS

\* A queue that is empty.
LEMMA QueueEmpty == ASSUME NEW S PROVE <<>> \in Seq(S) /\ Len(<<>>) = 0
  OBVIOUS

\* The elements of a queue are those of its range.
LEMMA QueueRange ==
    ASSUME NEW S, NEW q \in Seq(S)
    PROVE  Range(q) \subseteq S
  BY DEF Range

\* The ids of copies are those of messages.
LEMMA CopyIds ==
    ASSUME NEW copies, copies \subseteq Copies
    PROVE  Ids(copies) \subseteq Messages
  BY DEF Ids, Copies

\* Every step keeps the types.
LEMMA InboundTypes ==
    ASSUME PipelineTypeOK, [PipelineNext]_pipelineVars
    PROVE  PipelineTypeOK'
<1> USE DEF PipelineTypeOK
<1>0. CASE UNCHANGED pipelineVars
  BY <1>0 DEF pipelineVars
<1>1. ASSUME NEW m \in Messages, ReceiveWebhook(m) PROVE PipelineTypeOK'
  <2>1. posts' \in [Messages -> Nat]
    BY <1>1 DEF ReceiveWebhook
  <2>2. received' \in Seq(Messages) /\ lost' \subseteq Messages
    <3>1. Append(received, m) \in Seq(Messages)
      BY QueueAppend
    <3> QED BY <1>1, <3>1, Zenon DEF ReceiveWebhook
  <2> QED BY <1>1, <2>1, <2>2 DEF ReceiveWebhook, threadVars
<1>2. CASE SaveMessage
  <2> PICK t \in Threads :
           /\ TakeReceived(t)
           /\ saved' = saved \cup {<<t, Head(received)>>}
           /\ storing' = {<<t, Head(received)>>} \ saved
           /\ UNCHANGED <<posts, toOnboarding, toOrders, onboards, routes, listener,
                          onboarding, trader, handled, answered, lost>>
    BY <1>2, Zenon DEF SaveMessage
  <2>1. received' \in Seq(Messages) /\ Head(received) \in Messages
    BY QueueTail DEF TakeReceived
  <2>2. saved' \subseteq Copies /\ storing' \subseteq Copies
    BY <2>1 DEF Copies
  <2>3. opened' \subseteq Threads /\ threads' \subseteq opened' /\ request' \in BOOLEAN
    BY DEF TakeReceived, InThread
  <2> QED BY <2>1, <2>2, <2>3
<1>3. CASE PublishSaved
  <2>1. ASSUME NEW m \in storing
        PROVE  /\ Append(toOrders, m) \in Seq(Copies)
               /\ Append(toOnboarding, m) \in Seq(Copies)
               /\ m[2] \in Messages
    <3>1. m \in Copies
      OBVIOUS
    <3>2. m[2] \in Messages
      BY <3>1 DEF Copies
    <3> QED BY <3>1, <3>2, QueueAppend
  <2>2. toOrders' \in Seq(Copies) /\ toOnboarding' \in Seq(Copies) /\ storing' = {}
    BY <1>3, <2>1, Zenon DEF PublishSaved
  <2>3. lost' \subseteq Messages
    BY <1>3, <2>1 DEF PublishSaved
  <2> QED BY <1>3, <2>2, <2>3 DEF PublishSaved, threadVars
<1>4. CASE ReadTrader
  BY <1>4, QueueTail DEF ReadTrader, threadVars
<1>5. CASE HandleOnboarding
  <2>1. onboarding' \in BOOLEAN
    BY <1>5, Zenon DEF HandleOnboarding
  <2>2. answered' \subseteq Copies \X {"onboarding", "orders"}
    <3>1. \A m \in onboards : <<m, "onboarding">> \in Copies \X {"onboarding", "orders"}
      OBVIOUS
    <3>2. answered' = answered \/ \E m \in onboards : answered' = answered \cup {<<m, "onboarding">>}
      BY <1>5, Zenon DEF HandleOnboarding
    <3> QED BY <3>1, <3>2
  <2> QED BY <1>5, <2>1, <2>2 DEF HandleOnboarding, threadVars
<1>6. CASE ReadOnboardingState
  <2>1. toOrders' \in Seq(Copies) /\ routes' \subseteq Copies
    BY <1>6, QueueTail DEF ReadOnboardingState
  <2>2. ASSUME NEW n \in 0..2 PROVE (IF n < 2 THEN n + 1 ELSE 2) \in 0..2
    OBVIOUS
  <2>3. handled' \in [Copies -> 0..2]
    BY <1>6, <2>2, QueueTail, Zenon DEF ReadOnboardingState
  <2> QED BY <1>6, <2>1, <2>3 DEF ReadOnboardingState, threadVars
<1>7. CASE HandleOrderIntent
  BY <1>7 DEF HandleOrderIntent, threadVars
<1>8. CASE ExpireState \/ SignUp
  BY <1>8 DEF ExpireState, SignUp, threadVars
<1>12. CASE FindNoThread \/ OpenThread \/ MoveThreads
  BY <1>12 DEF FindNoThread, OpenThread, MoveThreads
<1>9. CASE FailHandler
  <2>0. received # <<>> => Tail(received) \in Seq(Messages) /\ Head(received) \in Messages
    BY QueueTail
  <2>1. received' \in Seq(Messages)
    BY <1>9, <2>0, Zenon DEF FailHandler
  <2>2. /\ storing' \subseteq Copies /\ onboards' \subseteq Copies
        /\ routes' \subseteq Copies
    BY <1>9 DEF FailHandler
  <2>3. lost' \subseteq Messages
    <3>1. Ids(storing) \subseteq Messages
      BY CopyIds
    <3> QED BY <1>9, <2>0, <3>1 DEF FailHandler
  <2> QED BY <1>9, <2>1, <2>2, <2>3 DEF FailHandler, threadVars
<1>10. CASE RestartListeners
  <2>1. lost' \subseteq Messages
    <3>1. Ids(storing \cup Range(toOrders)) \subseteq Messages
      BY CopyIds, QueueRange
    <3> QED BY <1>10, <3>1, QueueRange DEF RestartListeners
  <2>2. <<>> \in Seq(Messages) /\ <<>> \in Seq(Copies)
    BY QueueEmpty
  <2> QED BY <1>10, <2>1, <2>2 DEF RestartListeners, threadVars
<1>11. ASSUME NEW l \in Listeners, Subscribe(l) \/ LoseConnection(l)
       PROVE  PipelineTypeOK'
  <2>1. listener' \in [Listeners -> {"starting", "subscribed", "dead"}]
    BY <1>11 DEF Subscribe, LoseConnection
  <2>2. lost' \subseteq Messages
    <3>1. Ids(Range(toOrders)) \subseteq Messages
      BY CopyIds, QueueRange
    <3> QED BY <1>11, <3>1, QueueRange DEF Subscribe, LoseConnection
  <2>3. /\ received' \in Seq(Messages) /\ toOnboarding' \in Seq(Copies)
        /\ toOrders' \in Seq(Copies)
    <3>1. <<>> \in Seq(Messages) /\ <<>> \in Seq(Copies)
      BY QueueEmpty
    <3> QED BY <1>11, <3>1 DEF Subscribe, LoseConnection
  <2> QED BY <1>11, <2>1, <2>2, <2>3 DEF Subscribe, LoseConnection, threadVars
<1> QED BY <1>0, <1>1, <1>2, <1>3, <1>4, <1>5, <1>6, <1>7, <1>8, <1>9, <1>10, <1>11,
           <1>12
        DEF PipelineNext

\* Steps that neither store a message nor touch the queues of the listeners, nor take a
\* message up.
LEMMA FlowKeeps ==
    ASSUME FlowInv, PipelineTypeOK', saved \subseteq saved', storing' \subseteq storing,
           UNCHANGED handled,
           toOrders' = toOrders \/ toOrders' = <<>>,
           toOnboarding' = toOnboarding \/ toOnboarding' = <<>>,
           onboards' \subseteq onboards,
           \A m \in Copies : <<m, "onboarding">> \in answered' =>
               <<m, "onboarding">> \in answered \/ m \in onboards
    PROVE  FlowInv'
<1>1. /\ \A i \in 1..Len(toOrders)' : i \in 1..Len(toOrders) /\ toOrders'[i] = toOrders[i]
      /\ \A i \in 1..Len(toOnboarding)' :
            i \in 1..Len(toOnboarding) /\ toOnboarding'[i] = toOnboarding[i]
  <2>1. Len(<<>>) = 0 /\ 1..0 = {}
    OBVIOUS
  <2> QED BY <2>1
<1>2. Stored'
  <2>1. HandledIsSaved'
    BY DEF FlowInv, Stored, HandledIsSaved
  <2> QED BY <1>1, <2>1 DEF FlowInv, Stored
<1>3. Once'
  BY <1>1 DEF FlowInv, Once, Waits, HandledOnce
<1> QED BY <1>2, <1>3 DEF FlowInv

\* Every step keeps a message in one place, and the ones on their way stored.
LEMMA FlowStep ==
    ASSUME FlowInv, [PipelineNext]_pipelineVars
    PROVE  FlowInv'
<1>0. PipelineTypeOK /\ PipelineTypeOK' /\ Stored /\ Once
  BY InboundTypes DEF FlowInv
<1>1. CASE SaveMessage
  <2> PICK t \in Threads :
           /\ TakeReceived(t)
           /\ saved' = saved \cup {<<t, Head(received)>>}
           /\ storing' = {<<t, Head(received)>>} \ saved
           /\ UNCHANGED <<posts, toOnboarding, toOrders, onboards, routes, listener,
                          onboarding, trader, handled, answered, lost>>
    BY <1>1, Zenon DEF SaveMessage
  <2> PICK h : h = <<t, Head(received)>>
    OBVIOUS
  <2>1. /\ saved' = saved \cup {h} /\ storing' = IF h \in saved THEN {} ELSE {h}
        /\ UNCHANGED <<toOrders, toOnboarding, onboards, handled, answered>>
        /\ h \in Copies
    <3>1. Head(received) \in Messages
      BY <1>0, QueueTail DEF TakeReceived, PipelineTypeOK
    <3> QED BY <3>1 DEF Copies
  <2>2. h \notin saved => handled[h] = 0 /\ ~ Waits(h)
    <3>1. handled[h] \in 0..2
      BY <1>0, <2>1 DEF PipelineTypeOK
    <3>2. h \notin saved => ~ (handled[h] > 0)
      BY <1>0, <2>1 DEF Stored, HandledIsSaved
    <3>3. h \notin saved => ~ Waits(h)
      BY <1>0 DEF Stored, Waits
    <3> QED BY <3>1, <3>2, <3>3
  <2>3. Stored'
    BY <1>0, <2>1 DEF Stored, HandledIsSaved
  <2>4. Once'
    BY <1>0, <2>1, <2>2 DEF Once, Waits, HandledOnce
  <2> QED BY <1>0, <2>3, <2>4 DEF FlowInv
<1>2. CASE PublishSaved
  <2> PICK m \in storing :
           /\ toOnboarding' = toOnboarding \/ toOnboarding' = Append(toOnboarding, m)
           /\ toOrders' = toOrders \/ toOrders' = Append(toOrders, m)
           /\ storing' = {}
           /\ UNCHANGED <<saved, onboards, handled, answered>>
    BY <1>2, Zenon DEF PublishSaved
  <2>1. m \in Copies /\ m \in saved /\ handled[m] = 0 /\ ~ Waits(m)
    BY <1>0 DEF PipelineTypeOK, Stored, Once
  <2>2. \A i \in 1..Len(toOnboarding)' :
            toOnboarding'[i] = m \/ (i \in 1..Len(toOnboarding) /\ toOnboarding'[i] = toOnboarding[i])
    <3>1. /\ Len(Append(toOnboarding, m)) = Len(toOnboarding) + 1 /\ Len(toOnboarding) \in Nat
          /\ \A i \in 1..Len(toOnboarding) : Append(toOnboarding, m)[i] = toOnboarding[i]
          /\ Append(toOnboarding, m)[Len(toOnboarding) + 1] = m
      BY <1>0, <2>1, QueueAppend DEF PipelineTypeOK
    <3> QED BY <3>1
  <2>3. /\ Len(toOrders) \in Nat
        /\ \A i \in 1..Len(toOrders)' :
              \/ i \in 1..Len(toOrders) /\ toOrders'[i] = toOrders[i]
              \/ i = Len(toOrders) + 1 /\ toOrders'[i] = m
    <3>1. /\ Len(Append(toOrders, m)) = Len(toOrders) + 1 /\ Len(toOrders) \in Nat
          /\ \A i \in 1..Len(toOrders) : Append(toOrders, m)[i] = toOrders[i]
          /\ Append(toOrders, m)[Len(toOrders) + 1] = m
      BY <1>0, <2>1, QueueAppend DEF PipelineTypeOK
    <3> QED BY <3>1
  <2>4. Stored'
    BY <1>0, <2>1, <2>2, <2>3 DEF Stored, HandledIsSaved
  <2>5. \A i \in 1..Len(toOrders) : toOrders[i] # m
    BY <2>1 DEF Waits
  <2>6. Once'
    <3>1. \A i \in 1..Len(toOrders)' : handled'[toOrders'[i]] = 0
      BY <1>0, <2>1, <2>3 DEF Once
    <3>2. \A i, k \in 1..Len(toOrders)' : toOrders'[i] = toOrders'[k] => i = k
      BY <1>0, <2>3, <2>5 DEF Once
    <3> QED BY <1>0, <3>1, <3>2 DEF Once, HandledOnce
  <2> QED BY <1>0, <2>4, <2>6 DEF FlowInv
<1>3. CASE ReadTrader
  <2>1. /\ UNCHANGED <<saved, storing, toOrders, handled, answered>>
        /\ onboards' \subseteq {toOnboarding[1]} /\ 1 \in 1..Len(toOnboarding)
        /\ \A i \in 1..Len(toOnboarding)' :
              toOnboarding'[i] = toOnboarding[i + 1] /\ i + 1 \in 1..Len(toOnboarding)
    BY <1>0, <1>3, QueueTail DEF ReadTrader, PipelineTypeOK
  <2>2. Stored'
    BY <1>0, <2>1 DEF Stored, HandledIsSaved
  <2>3. Once'
    BY <1>0, <2>1 DEF Once, Waits, HandledOnce
  <2> QED BY <1>0, <2>2, <2>3 DEF FlowInv
<1>4. CASE ReadOnboardingState
  <2> PICK h : h = Head(toOrders)
    OBVIOUS
  <2>1. /\ UNCHANGED <<saved, storing, toOnboarding, onboards, answered>>
        /\ h = toOrders[1] /\ h \in Copies /\ 1 \in 1..Len(toOrders) /\ Len(toOrders) \in Nat
        /\ \A i \in 1..Len(toOrders)' :
              toOrders'[i] = toOrders[i + 1] /\ i + 1 \in 1..Len(toOrders)
    BY <1>0, <1>4, QueueTail DEF ReadOnboardingState, PipelineTypeOK
  <2>2. handled[h] = 0 /\ h \in saved
    BY <1>0, <2>1 DEF Once, Stored
  <2>3. handled' = [handled EXCEPT ![h] = 1]
    BY <1>4, <2>2 DEF ReadOnboardingState
  <2>4. \A n \in Copies : IF n = h THEN handled'[n] = 1 ELSE handled'[n] = handled[n]
    BY <1>0, <2>3 DEF PipelineTypeOK
  <2>5. Stored'
    BY <1>0, <2>1, <2>2, <2>4 DEF Stored, HandledIsSaved
  <2>6. Once'
    <3>1. \A i \in 1..Len(toOrders)' : toOrders'[i] \in Copies /\ toOrders'[i] # h
      <4> SUFFICES ASSUME NEW i \in 1..Len(toOrders)'
                   PROVE  toOrders'[i] \in Copies /\ toOrders'[i] # h
        OBVIOUS
      <4>1. i + 1 \in 1..Len(toOrders) /\ toOrders'[i] = toOrders[i + 1] /\ i + 1 # 1
        BY <1>0, <2>1 DEF PipelineTypeOK
      <4>2. toOrders[i + 1] \in Copies
        BY <1>0, <4>1 DEF PipelineTypeOK
      <4> QED BY <1>0, <2>1, <4>1, <4>2 DEF Once
    <3>2. \A m \in storing' : handled'[m] = 0 /\ ~ Waits(m)'
      <4>1. \A m \in storing : m # h /\ m \in Copies
        BY <1>0, <2>1 DEF Once, Waits, PipelineTypeOK
      <4> QED BY <1>0, <2>1, <2>4, <4>1 DEF Once, Waits
    <3>3. \A i \in 1..Len(toOrders)' : handled'[toOrders'[i]] = 0
      BY <1>0, <2>1, <2>4, <3>1 DEF Once
    <3>4. \A i, k \in 1..Len(toOrders)' : toOrders'[i] = toOrders'[k] => i = k
      <4> SUFFICES ASSUME NEW i \in 1..Len(toOrders)', NEW k \in 1..Len(toOrders)',
                          toOrders'[i] = toOrders'[k]
                   PROVE  i = k
        OBVIOUS
      <4>1. i + 1 = k + 1
        BY <1>0, <2>1 DEF Once
      <4>2. i \in Int /\ k \in Int
        BY <1>0 DEF PipelineTypeOK
      <4> QED BY <4>1, <4>2
    <3>5. HandledOnce'
      BY <1>0, <2>4 DEF Once, HandledOnce
    <3> QED BY <3>2, <3>3, <3>4, <3>5 DEF Once
  <2> QED BY <1>0, <2>5, <2>6 DEF FlowInv
<1>5. CASE ~ (SaveMessage \/ PublishSaved \/ ReadTrader \/ ReadOnboardingState)
  <2>1. /\ UNCHANGED <<handled, saved>> /\ storing' \subseteq storing
        /\ onboards' \subseteq onboards
    BY <1>5 DEF PipelineNext, pipelineVars, ReceiveWebhook, HandleOnboarding, HandleOrderIntent,
           ExpireState, SignUp, FindNoThread, OpenThread, MoveThreads, FailHandler,
           RestartListeners, Subscribe, LoseConnection
  <2>2. /\ toOrders' = toOrders \/ toOrders' = <<>>
        /\ toOnboarding' = toOnboarding \/ toOnboarding' = <<>>
    BY <1>5 DEF PipelineNext, pipelineVars, ReceiveWebhook, HandleOnboarding, HandleOrderIntent,
           ExpireState, SignUp, FindNoThread, OpenThread, MoveThreads, FailHandler,
           RestartListeners, Subscribe, LoseConnection
  <2>3. \/ answered' = answered
        \/ \E m \in onboards : answered' = answered \cup {<<m, "onboarding">>}
        \/ \E m \in routes : answered' = answered \cup {<<m, "orders">>}
    BY <1>5, Zenon DEF PipelineNext, pipelineVars, ReceiveWebhook, HandleOnboarding,
           HandleOrderIntent, ExpireState, SignUp, FindNoThread, OpenThread, MoveThreads,
           FailHandler, RestartListeners, Subscribe, LoseConnection
  <2>4. \A m \in Copies : <<m, "onboarding">> \in answered' =>
            <<m, "onboarding">> \in answered \/ m \in onboards
    BY <2>3
  <2> QED BY <1>0, <2>1, <2>2, <2>4, FlowKeeps
<1> QED BY <1>1, <1>2, <1>3, <1>4, <1>5

\* A message that Meta delivers is stored in a thread before any listener handles it from
\* there, and the order listener takes it up at most once per thread it was stored in,
\* however often it is delivered, whichever threads are opened or moved away and whatever
\* stops, restarts or loses its connection in between (handle_message_received and its
\* idempotency check).  For any number of messages, deliveries and threads.
THEOREM StoredThenHandledOnce == PipelineSpec => []SavedThenHandledOnce
<1>1. PipelineInit => FlowInv
  <2>1. PipelineInit => PipelineTypeOK
    <3>1. <<>> \in Seq(Messages) /\ <<>> \in Seq(Copies) /\ 0 \in 0..2 /\ 0 \in Nat
      OBVIOUS
    <3> QED BY <3>1, Zenon DEF PipelineInit, PipelineTypeOK
  <2>2. PipelineInit => Stored /\ Once
    BY QueueEmpty DEF PipelineInit, Stored, Once, Waits, HandledIsSaved, HandledOnce
  <2> QED BY <2>1, <2>2 DEF FlowInv
<1>2. FlowInv /\ [PipelineNext]_pipelineVars => FlowInv'
  BY FlowStep
<1>3. FlowInv => SavedThenHandledOnce
  BY DEF FlowInv, Stored, Once, SavedThenHandledOnce
<1> QED BY <1>1, <1>2, <1>3, PTL DEF PipelineSpec

-----------------------------------------------------------------------------
\* The order listener answers a trigger word only for a sender with a trader row, and the
\* row stays.
Yielded == \A c \in Copies : <<c, "orders">> \in answered => Kind[c[2]] # "trigger" \/ trader

\* A trigger word of a sender who has not signed up is answered by one listener only: the
\* order listener re-reads the traders table when it answers (handle_order_intent), and
\* what the onboarding listener has read does not matter.
THEOREM OneListenerAnswers == PipelineSpec => []TriggerAnsweredOnce
<1>1. PipelineInit => Yielded
  BY DEF PipelineInit, Yielded
<1>2. Yielded /\ [PipelineNext]_pipelineVars => Yielded'
  <2> SUFFICES ASSUME Yielded, [PipelineNext]_pipelineVars PROVE Yielded'
    OBVIOUS
  <2>1. trader => trader'
    BY Zenon DEF PipelineNext, pipelineVars, ReceiveWebhook, SaveMessage, PublishSaved,
           ReadTrader, HandleOnboarding, ReadOnboardingState,
           HandleOrderIntent, ExpireState, SignUp, FindNoThread, OpenThread, MoveThreads,
           FailHandler, RestartListeners, Subscribe, LoseConnection
  <2>2. \/ answered' = answered
        \/ \E m \in onboards : answered' = answered \cup {<<m, "onboarding">>}
        \/ \E m \in routes : /\ answered' = answered \cup {<<m, "orders">>}
                             /\ Kind[m[2]] # "trigger" \/ trader
    BY Zenon DEF PipelineNext, pipelineVars, ReceiveWebhook, SaveMessage, PublishSaved,
           ReadTrader, HandleOnboarding, ReadOnboardingState, YieldsToOnboarding,
           HandleOrderIntent, ExpireState, SignUp, FindNoThread, OpenThread, MoveThreads,
           FailHandler, RestartListeners, Subscribe, LoseConnection
  <2>3. ASSUME NEW c \in Copies, <<c, "orders">> \in answered'
        PROVE  <<c, "orders">> \in answered \/ Kind[c[2]] # "trigger" \/ trader
    BY <2>2, <2>3
  <2> QED BY <2>1, <2>3 DEF Yielded
<1>3. Yielded => TriggerAnsweredOnce
  BY DEF Yielded, TriggerAnsweredOnce, Answered
<1> QED BY <1>1, <1>2, <1>3, PTL DEF PipelineSpec

-----------------------------------------------------------------------------
(* Reminders, broadcasts and reports.                                      *)

\* What has reminder_sent_at, and what is about to get it, has its notification row.
OrdersInv ==
    /\ task["orders"].step \in {"send", "mark"} => Item("orders") \in Orders
    /\ reminded \subseteq orderRows
    /\ At("orders", "mark") => Item("orders") \in orderRows

\* The count that the job has read of a sale without a conversation is still the count:
\* only the job itself counts for such a sale, once it is out of the snapshot.
Fresh(s) == task["debts"].seen[s] = count[s] /\ count[s] < MaxReminders

DebtInv ==
    /\ \A s \in Sales : count[s] <= MaxReminders
    /\ \A t \in {"debts", "by hand"} :
          /\ At(t, "load") => Item(t) \in Sales
          /\ At(t, "save") => Item(t) \in Linked /\ task[t].seen[Item(t)] < MaxReminders
    /\ \A s \in task["debts"].todo : s \in Sales \ Linked => Fresh(s)
    /\ task["debts"].step \in {"send", "mark"} =>
          /\ Item("debts") \in Sales \ Linked
          /\ Fresh(Item("debts"))
          /\ Item("debts") \notin task["debts"].todo
    /\ At("debts", "mark") => <<Item("debts"), count[Item("debts")]>> \in debtRows
    /\ \A s \in Sales \ Linked : \A n \in Nat :
          /\ n < count[s] => <<s, n>> \in debtRows
          /\ <<s, n>> \in debtRows => n <= count[s]

\* A recipient that is marked, or about to be, has its notification row.
CastInv ==
    /\ \A b \in Broadcasts : task[b].step \in {"check", "send", "mark"} => Item(b) \in Customers
    /\ \A b \in Broadcasts, c \in Customers : recipient[b][c] = "sent" => <<b, c>> \in castRows
    /\ \A b \in Broadcasts : At(b, "mark") => <<b, Item(b)>> \in castRows

\* The messages that reached a customer after STOP and those still in flight are among the
\* ones that were in flight at STOP.
StopInv ==
    \A c \in Customers :
        IF c \in optedOut THEN after[c] + Cardinality(InFlight(c)) <= spared[c] ELSE after[c] = 0

\* The last_broadcast_at of a customer can be trusted: there is one sender, no message to
\* her is a second one, and if she got one this week she has last_broadcast_at, or the
\* sender is about to write it.
Trusted(c) ==
    /\ \A a, b \in Sending : a = b
    /\ \A b \in Broadcasts : At(b, "send") /\ Item(b) = c => week[c] = 0
    /\ \/ week[c] = 0
       \/ week[c] = 1 /\ (c \in recent \/ \E b \in Broadcasts : At(b, "mark") /\ Item(b) = c)

WeekInv == \A c \in Customers \ slipped : Trusted(c)

Reported(t) == task[t].step \in {"sent", "failed"}

\* What a message that is not filed is due to.
Losses == stops + unfiled

\* One run of the report holds the week's notification row.  It has sent the report, or
\* every message so far was lost in a stop of the process or a failed commit.
ReportInv ==
    /\ \A t, u \in Reporters : Holds(t) /\ Holds(u) => t = u
    /\ report \in {"sent", "failed"} => \A t \in Reporters : ~ Holds(t)
    /\ report = "skipped" => \A t, u \in Reporters :
          (Holds(t) \/ At(t, "claim")) /\ (Holds(u) \/ At(u, "claim")) => t = u
    /\ delivered <= 1 + Losses
    /\ report = None /\ (\A t \in Reporters : ~ Reported(t)) => delivered <= Losses
    /\ \A t \in Reporters :
          /\ At(t, "dispatch") => delivered <= Losses
          /\ At(t, "claim") /\ report = "skipped" => delivered <= Losses
          /\ At(t, "sent") => delivered > 0
    /\ report = "sent" => delivered > 0

NeverFired == \A x \in Scheduled : scheduled[x] # "sent"

OutInv ==
    /\ TypeOK
    /\ OrdersInv
    /\ DebtInv
    /\ CastInv
    /\ StopInv
    /\ WeekInv
    /\ ReportInv
    /\ NeverFired

\* The names of the tasks, and that they are distinct.
LEMMA TaskNames ==
    /\ Jobs \cup Requests \subseteq Tasks /\ Broadcasts \subseteq Tasks
    /\ \A b \in Broadcasts : b \notin Jobs \cup Requests
  BY TasksAssumption DEF Tasks

-----------------------------------------------------------------------------
(* How a task goes on.                                                     *)

Elsewhere(t) == \A u \in Tasks \ {t} : task'[u] = task[u]

\* The constants of the tasks have their types.
LEMMA Idles ==
    /\ Zero \in [Sales -> Nat]
    /\ IdleTask \in Task /\ IdleTask.step = "idle" /\ IdleTask.todo = {}
    /\ Off \in Task /\ Off.step = "off" /\ Off.todo = {}
<1>1. Zero \in [Sales -> Nat]
  BY DEF Zero
<1>2. "off" \in TaskSteps /\ "idle" \in TaskSteps
  BY DEF TaskSteps
<1> QED BY <1>1, <1>2 DEF IdleTask, Off, Task

\* A task that goes on to another step,
LEMMA GoMoves ==
    ASSUME task \in [Tasks -> Task], NEW t \in Tasks, NEW step \in TaskSteps, Go(t, step)
    PROVE  /\ task' \in [Tasks -> Task] /\ Elsewhere(t)
           /\ task'[t].step = step /\ task'[t].item = task[t].item
           /\ task'[t].todo = task[t].todo /\ task'[t].seen = task[t].seen
  BY DEF Go, Task, Elsewhere

\* to its next item,
LEMMA NextMoves ==
    ASSUME task \in [Tasks -> Task], NEW t \in Tasks, NextItem(t)
    PROVE  /\ task' \in [Tasks -> Task] /\ Elsewhere(t)
           /\ task'[t].step = "next" /\ task'[t].item = None
           /\ task'[t].todo = task[t].todo /\ task'[t].seen = task[t].seen
  BY DEF NextItem, Task, TaskSteps, Elsewhere

\* that takes an item,
LEMMA TakeMoves ==
    ASSUME task \in [Tasks -> Task], NEW t \in Tasks, NEW i, NEW step \in TaskSteps,
           Take(t, i, step)
    PROVE  /\ task' \in [Tasks -> Task] /\ Elsewhere(t)
           /\ task[t].step = "next" /\ i \in task[t].todo
           /\ task'[t].step = step /\ task'[t].item = i
           /\ task'[t].todo = task[t].todo \ {i} /\ task'[t].seen = task[t].seen
<1>1. task[t] \in Task /\ task[t].todo \in SUBSET Items /\ i \in Items
  BY DEF Take, Task
<1> QED BY <1>1 DEF Take, At, Task, Elsewhere

\* that begins,
LEMMA BeginMoves ==
    ASSUME task \in [Tasks -> Task], NEW t \in Tasks, NEW items \in SUBSET Items,
           NEW seen \in [Sales -> Nat], Begin(t, items, seen)
    PROVE  /\ task' \in [Tasks -> Task] /\ Elsewhere(t)
           /\ task'[t].step = "next" /\ task'[t].todo = items /\ task'[t].seen = seen
  BY DEF Begin, Task, TaskSteps, Elsewhere

\* and that ends.
LEMMA IdleMoves ==
    ASSUME task \in [Tasks -> Task], NEW t \in Tasks, task' = [task EXCEPT ![t] = IdleTask]
    PROVE  /\ task' \in [Tasks -> Task] /\ Elsewhere(t)
           /\ task'[t].step = "idle" /\ task'[t].todo = {}
  BY Idles DEF Elsewhere

-----------------------------------------------------------------------------
(* What a step leaves alone.                                               *)

\* What holds of order reminders survives the steps of other tasks.
LEMMA OrdersFrame ==
    ASSUME OrdersInv, task'["orders"] = task["orders"], UNCHANGED <<reminded, orderRows>>
    PROVE  OrdersInv'
  BY DEF OrdersInv, At, Item

\* What holds of debt reminders survives the steps of other tasks.
LEMMA DebtFrame ==
    ASSUME DebtInv, task'["debts"] = task["debts"], task'["by hand"] = task["by hand"],
           UNCHANGED <<count, debtRows>>
    PROVE  DebtInv'
  BY DEF DebtInv, Fresh, At, Item

\* What holds of broadcasts survives the steps of other tasks.
LEMMA CastFrame ==
    ASSUME CastInv, StopInv, WeekInv, \A b \in Broadcasts : task'[b] = task[b],
           UNCHANGED <<recipient, castRows, optedOut, recent, past>>
    PROVE  CastInv' /\ StopInv' /\ WeekInv'
<1>1. CastInv'
  BY DEF CastInv, At, Item
<1>2. \A c \in Customers : InFlight(c)' = InFlight(c)
  BY DEF InFlight, At, Item
<1>3. StopInv'
  BY <1>2 DEF StopInv, past
<1>4. Sending' = Sending
  BY DEF Sending
<1>5. WeekInv'
  BY <1>4 DEF WeekInv, Trusted, At, Item, past
<1> QED BY <1>1, <1>3, <1>5

\* What holds of the report survives the steps of other tasks.
LEMMA ReportFrame ==
    ASSUME ReportInv, task'["weekly"] = task["weekly"], task'["trigger"] = task["trigger"],
           UNCHANGED <<report, delivered, unfiled, stops>>
    PROVE  ReportInv'
<1>1. \A t \in Reporters : task'[t] = task[t]
  BY DEF Reporters
<1> QED BY <1>1 DEF ReportInv, Holds, At, Reported, Losses

\* A step of one task that is no sender and no run of the report.
LEMMA JobFrame ==
    ASSUME OutInv, NEW t \in {"orders", "debts", "by hand", "followups", "messages", "settings"},
           Elsewhere(t), UNCHANGED <<list, castRows, report, delivered, unfiled, stops, past>>
    PROVE  CastInv' /\ StopInv' /\ WeekInv' /\ ReportInv'
<1>1. \A b \in Broadcasts : task'[b] = task[b]
  BY TaskNames DEF Elsewhere, Jobs, Requests
<1>2. task'["weekly"] = task["weekly"] /\ task'["trigger"] = task["trigger"]
  BY TaskNames DEF Elsewhere, Jobs, Requests
<1> QED BY <1>1, <1>2, CastFrame, ReportFrame DEF OutInv, list

-----------------------------------------------------------------------------
(* The jobs.                                                               *)

\* The job that reminds of orders.
LEMMA OrderJobKeeps ==
    ASSUME OutInv, OrderJob
    PROVE  OutInv'
<1> USE DEF OutInv
<1>0. task \in [Tasks -> Task] /\ "orders" \in Tasks
  BY TaskNames DEF TypeOK, Jobs
<1>1. /\ task' \in [Tasks -> Task] /\ Elsewhere("orders")
      /\ reminded' \in SUBSET Orders /\ orderRows' \in SUBSET Orders
      /\ OrdersInv'
  <2> USE DEF OrdersInv, At, Item
  <2>1. CASE BeginOrderReminders
    <3>1. /\ {o \in Orders : orderState[o] = "inquiry" /\ o \notin reminded} \in SUBSET Items
          /\ UNCHANGED <<reminded, orderRows>>
      BY <2>1 DEF Items, BeginOrderReminders, marks, rows
    <3>2. PICK items \in SUBSET Items : Begin("orders", items, Zero)
      BY <2>1, <3>1 DEF BeginOrderReminders
    <3>3. task' \in [Tasks -> Task] /\ Elsewhere("orders") /\ task'["orders"].step = "next"
      BY <1>0, <3>2, BeginMoves, Idles
    <3> QED BY <3>1, <3>3 DEF TypeOK
  <2>2. ASSUME NEW o \in Orders, TakeOrder(o)
        PROVE  <1>1!:
    <3>1. "send" \in TaskSteps /\ UNCHANGED <<reminded, orderRows>>
      BY <2>2 DEF TaskSteps, TakeOrder, marks, rows
    <3>2. /\ task' \in [Tasks -> Task] /\ Elsewhere("orders")
          /\ task'["orders"].step = "send" /\ task'["orders"].item = o
      BY <1>0, <2>2, <3>1, TakeMoves DEF TakeOrder
    <3> QED BY <3>1, <3>2 DEF TypeOK
  <2>3. CASE OrderReminderGoes
    <3>1. "mark" \in TaskSteps /\ UNCHANGED reminded
      BY <2>3 DEF TaskSteps, OrderReminderGoes, marks
    <3>2. /\ task' \in [Tasks -> Task] /\ Elsewhere("orders")
          /\ task'["orders"].step = "mark" /\ task'["orders"].item = Item("orders")
      BY <1>0, <2>3, <3>1, GoMoves DEF OrderReminderGoes
    <3>3. task["orders"].step = "send" /\ orderRows' = orderRows \cup {Item("orders")}
      BY <2>3 DEF OrderReminderGoes
    <3> QED BY <3>1, <3>2, <3>3 DEF TypeOK
  <2>4. CASE OrderReminderFails \/ OrderMarkFails
    <3>1. task' \in [Tasks -> Task] /\ Elsewhere("orders") /\ task'["orders"].step = "next"
      BY <1>0, <2>4, NextMoves DEF OrderReminderFails, OrderMarkFails
    <3> QED BY <2>4, <3>1 DEF OrderReminderFails, OrderMarkFails, TypeOK, marks, rows
  <2>5. CASE MarkOrderReminded
    <3>1. task' \in [Tasks -> Task] /\ Elsewhere("orders") /\ task'["orders"].step = "next"
      BY <1>0, <2>5, NextMoves DEF MarkOrderReminded
    <3> QED BY <2>5, <3>1 DEF MarkOrderReminded, TypeOK, rows
  <2>6. CASE EndOrderReminders
    <3>1. task' \in [Tasks -> Task] /\ Elsewhere("orders") /\ task'["orders"].step = "idle"
      BY <1>0, <2>6, IdleMoves DEF EndOrderReminders, End
    <3> QED BY <2>6, <3>1 DEF EndOrderReminders, TypeOK, marks, rows
  <2> QED BY <2>1, <2>2, <2>3, <2>4, <2>5, <2>6 DEF OrderJob
<1>2. /\ UNCHANGED <<orderState, saleState, count, due, interest, ordered, list>>
      /\ UNCHANGED <<debtRows, castRows, reports, scheduled, officeHours, stops, past>>
  BY DEF OrderJob, BeginOrderReminders, TakeOrder, OrderReminderGoes, OrderReminderFails,
         MarkOrderReminded, OrderMarkFails, EndOrderReminders, marks, rows
<1>3. TypeOK'
  BY <1>1, <1>2 DEF TypeOK, list, reports, past
<1>4. DebtInv'
  BY <1>0, <1>1, <1>2, DebtFrame, TaskNames DEF Elsewhere, Jobs, Requests
<1>5. CastInv' /\ StopInv' /\ WeekInv' /\ ReportInv'
  BY <1>1, <1>2, JobFrame DEF reports
<1>6. NeverFired'
  BY <1>2 DEF NeverFired
<1> QED BY <1>1, <1>3, <1>4, <1>5, <1>6

\* A step of the debt reminders that only moves their tasks: the counts and the rows stay.
LEMMA DebtMoves ==
    ASSUME OutInv, UNCHANGED <<count, debtRows>>,
           \A t \in {"debts", "by hand"} :
               \/ task'[t] = task[t]
               \/ task'[t].step = "load" /\ task'[t].item \in Sales
               \/ /\ task'[t].step = "save" /\ task'[t].item \in Linked
                  /\ task'[t].seen[task'[t].item] < MaxReminders
               \/ task'[t].step \in {"next", "idle"}
               \/ t = "debts" /\ task'[t].step \in {"notify", "send", "mark"},
           \A s \in task'["debts"].todo : s \in Sales \ Linked => Fresh(s)',
           task'["debts"].step \in {"send", "mark"} =>
               /\ task'["debts"].item \in Sales \ Linked
               /\ task'["debts"].seen[task'["debts"].item] = count[task'["debts"].item]
               /\ count[task'["debts"].item] < MaxReminders
               /\ task'["debts"].item \notin task'["debts"].todo,
           task'["debts"].step = "mark" =>
               <<task'["debts"].item, count[task'["debts"].item]>> \in debtRows
    PROVE  DebtInv'
<1>1. \A t \in {"debts", "by hand"} :
          /\ At(t, "load")' => Item(t)' \in Sales
          /\ At(t, "save")' => Item(t)' \in Linked /\ task'[t].seen[Item(t)'] < MaxReminders
  BY DEF OutInv, DebtInv, At, Item
<1>2. /\ \A s \in Sales : count'[s] <= MaxReminders
      /\ \A s \in Sales \ Linked : \A n \in Nat :
            /\ n < count'[s] => <<s, n>> \in debtRows'
            /\ <<s, n>> \in debtRows' => n <= count'[s]
  BY DEF OutInv, DebtInv
<1> QED BY <1>1, <1>2 DEF DebtInv, Fresh, At, Item

\* A number below another one can be counted up.
LEMMA Below == \A k, n \in Nat : k < n => k + 1 \in Nat /\ k + 1 <= n
  OBVIOUS

\* The job and the request that remind of debts.
LEMMA DebtJobKeeps ==
    ASSUME OutInv, DebtJob
    PROVE  OutInv'
<1> USE DEF OutInv
<1> DEFINE Owned(t) == task' \in [Tasks -> Task] /\ Elsewhere(t)
           Counted == /\ count' \in [Sales -> Nat] /\ due' \in SUBSET Sales
                      /\ debtRows' \in SUBSET (Sales \X Nat)
<1>0. /\ task \in [Tasks -> Task] /\ "debts" \in Tasks /\ "by hand" \in Tasks
      /\ Linked \subseteq Sales /\ count \in [Sales -> Nat] /\ due \in SUBSET Sales
      /\ debtRows \in SUBSET (Sales \X Nat)
      /\ \A t \in Tasks : task[t].seen \in [Sales -> Nat]
  BY TaskNames, LinkedAssumption DEF TypeOK, Jobs, Requests, Task
<1>1. /\ \A t \in {"debts", "by hand"} :
            /\ At(t, "load") => Item(t) \in Sales
            /\ At(t, "save") => Item(t) \in Linked /\ task[t].seen[Item(t)] < MaxReminders
      /\ \A s \in task["debts"].todo : s \in Sales \ Linked => Fresh(s)
      /\ task["debts"].step \in {"send", "mark"} =>
            /\ Item("debts") \in Sales \ Linked
            /\ Fresh(Item("debts"))
            /\ Item("debts") \notin task["debts"].todo
      /\ At("debts", "mark") => <<Item("debts"), count[Item("debts")]>> \in debtRows
  BY DEF DebtInv
<1>2. {"load", "save", "send", "mark", "notify"} \subseteq TaskSteps
  BY DEF TaskSteps
<1>3. ASSUME UNCHANGED <<count, debtRows>>, Owned("debts"),
             task'["debts"].step \in {"next", "idle", "notify"},
             task'["debts"].todo \subseteq task["debts"].todo,
             task'["debts"].seen = task["debts"].seen \/ task'["debts"].todo = {}
      PROVE  DebtInv'
  <2>1. task'["by hand"] = task["by hand"]
    BY <1>0, <1>3 DEF Elsewhere
  <2>2. \A s \in task'["debts"].todo : s \in Sales \ Linked => Fresh(s)'
    BY <1>1, <1>3 DEF Fresh
  <2> QED BY <1>3, <2>1, <2>2, DebtMoves
<1>4. ASSUME UNCHANGED <<count, debtRows>>, Owned("by hand"),
             \/ task'["by hand"].step = "idle"
             \/ task'["by hand"].step = "load" /\ task'["by hand"].item \in Sales
             \/ /\ task'["by hand"].step = "save" /\ task'["by hand"].item \in Linked
                /\ task'["by hand"].seen[task'["by hand"].item] < MaxReminders
      PROVE  DebtInv'
  <2>1. task'["debts"] = task["debts"]
    BY <1>0, <1>4 DEF Elsewhere
  <2>2. \A s \in task'["debts"].todo : s \in Sales \ Linked => Fresh(s)'
    BY <1>1, <1>4, <2>1 DEF Fresh
  <2>3. task'["debts"].step \in {"send", "mark"} =>
            /\ task'["debts"].item \in Sales \ Linked
            /\ task'["debts"].seen[task'["debts"].item] = count[task'["debts"].item]
            /\ count[task'["debts"].item] < MaxReminders
            /\ task'["debts"].item \notin task'["debts"].todo
    BY <1>1, <2>1 DEF Fresh, Item
  <2>4. task'["debts"].step = "mark" =>
            <<task'["debts"].item, count[task'["debts"].item]>> \in debtRows
    BY <1>1, <2>1 DEF At, Item
  <2> QED BY <1>4, <2>1, <2>2, <2>3, <2>4, DebtMoves
<1>13. ASSUME NEW t \in {"debts", "by hand"}, AfterFailure(t), UNCHANGED <<count, debtRows, due>>
       PROVE  Counted /\ DebtInv' /\ Owned(t)
  <2>1. CASE t = "debts"
    <3>1. /\ Owned("debts") /\ task'["debts"].step = "next"
          /\ task'["debts"].todo = task["debts"].todo
          /\ task'["debts"].seen = task["debts"].seen
      BY <1>0, <1>13, <2>1, NextMoves DEF AfterFailure
    <3> QED BY <1>0, <1>3, <1>13, <2>1, <3>1
  <2>2. CASE t = "by hand"
    <3>1. Owned("by hand") /\ task'["by hand"].step = "idle"
      BY <1>0, <1>13, <2>2, IdleMoves DEF AfterFailure
    <3> QED BY <1>0, <1>4, <1>13, <2>2, <3>1
  <2> QED BY <2>1, <2>2
<1>5. Counted /\ DebtInv' /\ \E t \in {"debts", "by hand"} : Owned(t)
  <2>1. CASE BeginDebtReminders
    <3>1. PICK items \in SUBSET Items : /\ Begin("debts", items, count)
                                        /\ \A s \in items : count[s] < MaxReminders
      <4>1. {s \in due : saleState[s] = "active" /\ count[s] < MaxReminders} \in SUBSET Items
        BY <1>0 DEF Items
      <4> QED BY <2>1, <4>1 DEF BeginDebtReminders
    <3>2. /\ Owned("debts") /\ task'["debts"].step = "next" /\ task'["debts"].todo = items
          /\ task'["debts"].seen = count
      BY <1>0, <3>1, BeginMoves
    <3>3. UNCHANGED <<count, debtRows, due>>
      BY <2>1 DEF BeginDebtReminders, marks, rows
    <3>4. task'["by hand"] = task["by hand"]
      BY <1>0, <3>2 DEF Elsewhere
    <3>5. \A s \in task'["debts"].todo : s \in Sales \ Linked => Fresh(s)'
      BY <3>1, <3>2, <3>3 DEF Fresh
    <3>6. DebtInv'
      BY <3>2, <3>3, <3>4, <3>5, DebtMoves
    <3> QED BY <1>0, <3>2, <3>3, <3>6
  <2>2. ASSUME NEW s \in Sales, TakeSale(s)
        PROVE  Counted /\ DebtInv' /\ Owned("debts")
    <3>0. PICK step \in {"load", "send"} :
              Take("debts", s, step) /\ (step = "send" => s \notin Linked)
      BY <2>2 DEF TakeSale
    <3> step \in TaskSteps
      BY <1>2
    <3>1. /\ Owned("debts") /\ task'["debts"].step = step /\ task'["debts"].item = s
          /\ task'["debts"].todo = task["debts"].todo \ {s}
          /\ task'["debts"].seen = task["debts"].seen /\ s \in task["debts"].todo
      BY <1>0, <3>0, TakeMoves
    <3>2. UNCHANGED <<count, debtRows, due>>
      BY <2>2 DEF TakeSale, marks, rows
    <3>3. task'["by hand"] = task["by hand"]
      BY <1>0, <3>1 DEF Elsewhere
    <3>4. \A x \in task'["debts"].todo : x \in Sales \ Linked => Fresh(x)'
      BY <1>1, <3>1, <3>2 DEF Fresh
    <3>5. step = "send" => s \notin Linked /\ Fresh(s)
      BY <1>1, <3>0, <3>1
    <3>6. DebtInv'
      BY <3>1, <3>2, <3>3, <3>4, <3>5, DebtMoves DEF Fresh
    <3> QED BY <1>0, <3>1, <3>2, <3>6
  <2>3. ASSUME NEW s \in Sales, RemindByHand(s)
        PROVE  Counted /\ DebtInv' /\ Owned("by hand")
    <3>1. /\ Owned("by hand") /\ task'["by hand"].step = "load" /\ task'["by hand"].item = s
      BY <1>0, <1>2, <2>3 DEF RemindByHand, Task, Items, Elsewhere
    <3>2. UNCHANGED <<count, debtRows, due>>
      BY <2>3 DEF RemindByHand, marks, rows
    <3> QED BY <1>0, <1>4, <3>1, <3>2
  <2>4. ASSUME NEW t \in {"debts", "by hand"}, LoadSale(t)
        PROVE  Counted /\ DebtInv' /\ Owned(t)
    <3>1. UNCHANGED <<count, debtRows, due>> /\ t \in Tasks
      BY <1>0, <2>4 DEF LoadSale, marks, rows
    <3>2. CASE AfterFailure(t)
      BY <1>13, <3>1, <3>2
    <3>3. CASE ~ AfterFailure(t)
      <4>1. PICK s : /\ s = Item(t) /\ s \in Linked /\ count[s] < MaxReminders
                     /\ task' = [task EXCEPT ![t].step = "save", ![t].seen[s] = count[s]]
        BY <2>4, <3>3 DEF LoadSale
      <4>2. task[t] \in Task /\ s \in Sales /\ count[s] \in Nat /\ task[t].seen \in [Sales -> Nat]
        BY <1>0, <3>1, <4>1
      <4>3. /\ Owned(t) /\ task'[t].step = "save" /\ task'[t].item = s
            /\ task'[t].todo = task[t].todo
            /\ task'[t].seen = [task[t].seen EXCEPT ![s] = count[s]]
        BY <1>0, <1>2, <3>1, <4>1, <4>2 DEF Task, Elsewhere, Item
      <4>4. task'[t].seen[s] < MaxReminders
        <5>1. [task[t].seen EXCEPT ![s] = count[s]][s] = count[s]
          BY <4>2
        <5> QED BY <4>1, <4>3, <5>1
      <4>5. CASE t = "debts"
        <5>1. task'["by hand"] = task["by hand"]
          BY <1>0, <4>3, <4>5 DEF Elsewhere
        <5>2. \A x \in task'["debts"].todo : x \in Sales \ Linked => Fresh(x)'
          <6>1. \A x \in Sales \ Linked :
                    [task[t].seen EXCEPT ![s] = count[s]][x] = task[t].seen[x]
            BY <4>1, <4>2
          <6> QED BY <1>1, <3>1, <4>3, <4>5, <6>1 DEF Fresh
        <5>3. DebtInv'
          BY <3>1, <4>1, <4>3, <4>4, <4>5, <5>1, <5>2, DebtMoves
        <5> QED BY <1>0, <3>1, <4>3, <5>3
      <4>6. CASE t = "by hand"
        BY <1>0, <1>4, <3>1, <4>1, <4>3, <4>4, <4>6
      <4> QED BY <4>5, <4>6
    <3> QED BY <3>2, <3>3
  <2>5. ASSUME NEW t \in {"debts", "by hand"}, SaveReminder(t)
        PROVE  Counted /\ DebtInv' /\ Owned(t)
    <3>1. PICK s : /\ s = Item(t) /\ At(t, "save")
                   /\ count' = [count EXCEPT ![s] = task[t].seen[s] + 1] /\ due' = due \ {s}
                   /\ UNCHANGED debtRows
      BY <2>5 DEF SaveReminder, rows
    <3>2. /\ s \in Linked /\ s \in Sales /\ t \in Tasks
          /\ task[t].seen[s] \in Nat /\ task[t].seen[s] < MaxReminders
      BY <1>0, <1>1, <3>1
    <3>3. /\ count' \in [Sales -> Nat] /\ count'[s] <= MaxReminders
          /\ \A x \in Sales : x # s => count'[x] = count[x]
      <4>1. task[t].seen[s] + 1 \in Nat /\ task[t].seen[s] + 1 <= MaxReminders
        BY <3>2, Below, BoundsAssumption, Zenon
      <4> QED BY <1>0, <3>1, <3>2, <4>1
    <3>4. Owned(t) /\ IF t = "debts"
                      THEN /\ task'[t].step = "notify" /\ task'[t].todo = task[t].todo
                           /\ task'[t].seen = task[t].seen
                      ELSE task'[t].step = "idle"
      BY <1>0, <1>2, <2>5, <3>2, GoMoves, IdleMoves DEF SaveReminder, AfterReminder
    <3>5. \A u \in {"debts", "by hand"} : u # t => task'[u] = task[u]
      BY <1>0, <3>4 DEF Elsewhere
    <3>6. \A u \in {"debts", "by hand"} :
              /\ At(u, "load")' => Item(u)' \in Sales
              /\ At(u, "save")' => Item(u)' \in Linked /\ task'[u].seen[Item(u)'] < MaxReminders
      BY <1>1, <3>4, <3>5 DEF At, Item
    <3>7. /\ task'["debts"].todo = task["debts"].todo /\ task'["debts"].seen = task["debts"].seen
          /\ task'["debts"].step \in {"send", "mark"} => task'["debts"] = task["debts"]
      BY <3>4, <3>5
    <3>8. \A x \in Sales \ Linked : count'[x] = count[x]
      BY <3>2, <3>3
    <3>9. \A x \in task'["debts"].todo : x \in Sales \ Linked => Fresh(x)'
      BY <1>1, <3>7, <3>8 DEF Fresh
    <3>10. task'["debts"].step \in {"send", "mark"} =>
               /\ Item("debts")' \in Sales \ Linked
               /\ Fresh(Item("debts"))'
               /\ Item("debts")' \notin task'["debts"].todo
      BY <1>1, <3>7, <3>8 DEF Fresh, Item
    <3>11. At("debts", "mark")' => <<Item("debts"), count[Item("debts")]>>' \in debtRows'
      <4> SUFFICES ASSUME task'["debts"].step = "mark"
                   PROVE  <<task'["debts"].item, count'[task'["debts"].item]>> \in debtRows
        BY <3>1 DEF At, Item
      <4>1. task'["debts"] = task["debts"]
        BY <3>7
      <4>2. /\ task["debts"].item \in Sales \ Linked
            /\ <<task["debts"].item, count[task["debts"].item]>> \in debtRows
        BY <1>1, <4>1 DEF At, Item
      <4> QED BY <3>8, <4>1, <4>2
    <3>12. /\ \A x \in Sales : count'[x] <= MaxReminders
           /\ \A x \in Sales \ Linked : \A n \in Nat :
                 /\ n < count'[x] => <<x, n>> \in debtRows'
                 /\ <<x, n>> \in debtRows' => n <= count'[x]
      BY <3>1, <3>3, <3>8 DEF DebtInv
    <3>13. DebtInv'
      BY <3>6, <3>9, <3>10, <3>11, <3>12 DEF DebtInv
    <3> QED BY <1>0, <3>1, <3>3, <3>4, <3>13
  <2>10. ASSUME NEW t \in {"debts", "by hand"}, ReminderFails(t)
         PROVE  Counted /\ DebtInv' /\ Owned(t)
    BY <1>13, <2>10 DEF ReminderFails, marks, rows
  <2>6. CASE NotifyTrader \/ DebtReminderFails \/ DebtMarkFails
    <3>1. /\ Owned("debts") /\ task'["debts"].step = "next"
          /\ task'["debts"].todo = task["debts"].todo /\ task'["debts"].seen = task["debts"].seen
      BY <1>0, <2>6, NextMoves DEF NotifyTrader, DebtReminderFails, DebtMarkFails
    <3>2. UNCHANGED <<count, debtRows, due>>
      BY <2>6 DEF NotifyTrader, DebtReminderFails, DebtMarkFails, marks, rows
    <3> QED BY <1>0, <1>3, <3>1, <3>2
  <2>7. CASE EndDebtReminders
    <3>1. Owned("debts") /\ task'["debts"].step = "idle" /\ task'["debts"].todo = {}
      BY <1>0, <2>7, IdleMoves DEF EndDebtReminders, End
    <3>2. UNCHANGED <<count, debtRows, due>>
      BY <2>7 DEF EndDebtReminders, marks, rows
    <3> QED BY <1>0, <1>3, <3>1, <3>2
  <2>8. CASE DebtReminderGoes
    <3>1. PICK s : /\ s = Item("debts") /\ At("debts", "send")
                   /\ debtRows' = debtRows \cup {<<s, task["debts"].seen[s]>>}
                   /\ UNCHANGED <<count, due>>
      BY <2>8 DEF DebtReminderGoes, marks
    <3>2. /\ s \in Sales \ Linked /\ task["debts"].seen[s] = count[s] /\ count[s] < MaxReminders
          /\ s \notin task["debts"].todo /\ count[s] \in Nat
      BY <1>0, <1>1, <3>1 DEF At, Fresh
    <3>3. /\ Owned("debts") /\ task'["debts"].step = "mark" /\ task'["debts"].item = s
          /\ task'["debts"].todo = task["debts"].todo /\ task'["debts"].seen = task["debts"].seen
      BY <1>0, <1>2, <2>8, <3>1, GoMoves DEF DebtReminderGoes, Item
    <3>4. task'["by hand"] = task["by hand"]
      BY <1>0, <3>3 DEF Elsewhere
    <3>5. \A u \in {"debts", "by hand"} :
              /\ At(u, "load")' => Item(u)' \in Sales
              /\ At(u, "save")' => Item(u)' \in Linked /\ task'[u].seen[Item(u)'] < MaxReminders
      BY <1>1, <3>3, <3>4 DEF At, Item
    <3>6. \A x \in task'["debts"].todo : x \in Sales \ Linked => Fresh(x)'
      BY <1>1, <3>1, <3>3 DEF Fresh
    <3>7. /\ \A x \in Sales : count'[x] <= MaxReminders
          /\ \A x \in Sales \ Linked : \A n \in Nat :
                /\ n < count'[x] => <<x, n>> \in debtRows'
                /\ <<x, n>> \in debtRows' => n <= count'[x]
      <4>1. debtRows' = debtRows \cup {<<s, count[s]>>} /\ count' = count /\ count[s] <= count[s]
        BY <3>1, <3>2
      <4>2. /\ \A x \in Sales : count[x] <= MaxReminders
            /\ \A x \in Sales \ Linked : \A n \in Nat :
                  /\ n < count[x] => <<x, n>> \in debtRows
                  /\ <<x, n>> \in debtRows => n <= count[x]
        BY DEF DebtInv
      <4>3. \A x, n : <<x, n>> = <<s, count[s]>> => x = s /\ n = count[s]
        OBVIOUS
      <4> QED BY <4>1, <4>2, <4>3, Zenon
    <3>8. Fresh(Item("debts"))' /\ Item("debts")' = s
          /\ <<Item("debts"), count[Item("debts")]>>' \in debtRows'
      BY <3>1, <3>2, <3>3 DEF Fresh, Item
    <3>9. DebtInv'
      BY <3>2, <3>3, <3>5, <3>6, <3>7, <3>8 DEF DebtInv
    <3>10. debtRows' \in SUBSET (Sales \X Nat)
      <4>1. <<s, count[s]>> \in Sales \X Nat /\ debtRows' = debtRows \cup {<<s, count[s]>>}
        BY <3>1, <3>2
      <4> QED BY <1>0, <4>1
    <3> QED BY <1>0, <3>1, <3>3, <3>9, <3>10
  <2>9. CASE MarkDebtReminded
    <3>1. PICK s : /\ s = Item("debts") /\ At("debts", "mark")
                   /\ count' = [count EXCEPT ![s] = task["debts"].seen[s] + 1]
                   /\ due' = due \ {s} /\ UNCHANGED debtRows
      BY <2>9 DEF MarkDebtReminded, rows
    <3>2. /\ s \in Sales \ Linked /\ task["debts"].seen[s] = count[s] /\ count[s] < MaxReminders
          /\ s \notin task["debts"].todo /\ count[s] \in Nat /\ <<s, count[s]>> \in debtRows
      BY <1>0, <1>1, <3>1 DEF At, Fresh
    <3>3. /\ count' \in [Sales -> Nat] /\ count'[s] = count[s] + 1
          /\ \A x \in Sales : x # s => count'[x] = count[x]
      <4>1. count' = [count EXCEPT ![s] = count[s] + 1] /\ count[s] + 1 \in Nat
        BY <3>1, <3>2
      <4> QED BY <1>0, <3>2, <4>1
    <3>4. /\ Owned("debts") /\ task'["debts"].step = "next"
          /\ task'["debts"].todo = task["debts"].todo /\ task'["debts"].seen = task["debts"].seen
      BY <1>0, <2>9, NextMoves DEF MarkDebtReminded
    <3>5. task'["by hand"] = task["by hand"]
      BY <1>0, <3>4 DEF Elsewhere
    <3>6. \A u \in {"debts", "by hand"} :
              /\ At(u, "load")' => Item(u)' \in Sales
              /\ At(u, "save")' => Item(u)' \in Linked /\ task'[u].seen[Item(u)'] < MaxReminders
      BY <1>1, <3>4, <3>5 DEF At, Item
    <3>7. \A x \in task'["debts"].todo : x \in Sales \ Linked => Fresh(x)'
      BY <1>1, <3>2, <3>3, <3>4 DEF Fresh
    <3>8. \A x \in Sales : count'[x] <= MaxReminders
      <4>1. count[s] + 1 <= MaxReminders
        BY <3>2, Below, BoundsAssumption, Zenon
      <4> QED BY <3>3, <4>1 DEF DebtInv
    <3>9. \A x \in Sales \ Linked : \A n \in Nat :
              /\ n < count'[x] => <<x, n>> \in debtRows'
              /\ <<x, n>> \in debtRows' => n <= count'[x]
      <4> SUFFICES ASSUME NEW x \in Sales \ Linked, NEW n \in Nat
                   PROVE  /\ n < count'[x] => <<x, n>> \in debtRows
                          /\ <<x, n>> \in debtRows => n <= count'[x]
        BY <3>1
      <4>1. (n < count[x] => <<x, n>> \in debtRows) /\ (<<x, n>> \in debtRows => n <= count[x])
        BY DEF DebtInv
      <4>2. CASE x = s
        <5>1. n < count[s] + 1 => n < count[s] \/ n = count[s]
          BY <3>2
        <5>2. n <= count[s] => n <= count[s] + 1
          BY <3>2
        <5> QED BY <3>2, <3>3, <4>1, <4>2, <5>1, <5>2
      <4>3. CASE x # s
        BY <3>3, <4>1, <4>3
      <4> QED BY <4>2, <4>3
    <3>10. DebtInv'
      BY <3>4, <3>6, <3>7, <3>8, <3>9 DEF DebtInv, At
    <3> QED BY <1>0, <3>1, <3>3, <3>4, <3>10
  <2> QED BY <2>1, <2>2, <2>3, <2>4, <2>5, <2>6, <2>7, <2>8, <2>9, <2>10 DEF DebtJob
<1>6. /\ UNCHANGED <<orderState, reminded, saleState, interest, ordered, list>>
      /\ UNCHANGED <<orderRows, castRows, reports, scheduled, officeHours, stops, past>>
  BY DEF DebtJob, BeginDebtReminders, NotifyTrader, DebtReminderGoes, DebtReminderFails,
         MarkDebtReminded, DebtMarkFails, EndDebtReminders, TakeSale, RemindByHand, LoadSale,
         SaveReminder, ReminderFails, marks, rows
<1>7. TypeOK'
  BY <1>5, <1>6 DEF TypeOK, list, reports, past
<1>8. PICK t \in {"debts", "by hand"} : Elsewhere(t)
  BY <1>5
<1>9. OrdersInv'
  BY <1>6, <1>8, OrdersFrame, TaskNames DEF Elsewhere, Jobs
<1>10. CastInv' /\ StopInv' /\ WeekInv' /\ ReportInv'
  BY <1>6, <1>8, JobFrame DEF reports
<1>11. NeverFired'
  BY <1>6 DEF NeverFired
<1> QED BY <1>5, <1>7, <1>9, <1>10, <1>11

\* A step of a task that has no part in the invariants of the others.
LEMMA SideFrame ==
    ASSUME OutInv, TypeOK', NEW t \in {"followups", "messages", "settings"}, Elsewhere(t),
           UNCHANGED <<reminded, orderRows, count, debtRows, list, castRows, report, delivered>>,
           UNCHANGED <<unfiled, stops, past, scheduled>>
    PROVE  OutInv'
<1>1. /\ task'["orders"] = task["orders"] /\ task'["debts"] = task["debts"]
      /\ task'["by hand"] = task["by hand"]
  BY TaskNames DEF Elsewhere, Jobs, Requests
<1>2. OrdersInv' /\ DebtInv'
  BY <1>1, OrdersFrame, DebtFrame DEF OutInv
<1>3. CastInv' /\ StopInv' /\ WeekInv' /\ ReportInv'
  BY JobFrame
<1>4. NeverFired'
  BY DEF OutInv, NeverFired
<1> QED BY <1>2, <1>3, <1>4 DEF OutInv

\* The jobs that follow up on onboarding and on messages.
LEMMA SideJobsKeep ==
    ASSUME OutInv, FollowupJob \/ MessageJob
    PROVE  OutInv'
<1>0. /\ task \in [Tasks -> Task] /\ "followups" \in Tasks /\ "messages" \in Tasks
      /\ "next" \in TaskSteps
  BY TaskNames DEF OutInv, TypeOK, Jobs, TaskSteps
<1>1. PICK t \in {"followups", "messages"} : task' \in [Tasks -> Task] /\ Elsewhere(t)
  <2>1. CASE BeginFollowups
    <3>1. PICK items \in SUBSET Items : Begin("followups", items, Zero)
      <4>1. Oldest({e \in Events : interest[e] = "pending"}) \in SUBSET Items
        BY DEF Oldest, Items
      <4> QED BY <2>1, <4>1 DEF BeginFollowups
    <3> QED BY <1>0, <3>1, BeginMoves, Idles
  <2>2. CASE BeginMessages
    <3>1. PICK items \in SUBSET Items : Begin("messages", items, Zero)
      BY <2>2 DEF BeginMessages, Items
    <3> QED BY <1>0, <3>1, BeginMoves, Idles
  <2>3. ASSUME NEW e, FollowUp(e) PROVE task' \in [Tasks -> Task] /\ Elsewhere("followups")
    BY <1>0, <2>3, TakeMoves DEF FollowUp
  <2>4. ASSUME NEW x, FireMessage(x) PROVE task' \in [Tasks -> Task] /\ Elsewhere("messages")
    BY <1>0, <2>4, TakeMoves DEF FireMessage
  <2>5. CASE EndFollowups
    BY <1>0, <2>5, IdleMoves DEF EndFollowups, End
  <2>6. CASE EndMessages
    BY <1>0, <2>6, IdleMoves DEF EndMessages, End
  <2> QED BY <2>1, <2>2, <2>3, <2>4, <2>5, <2>6 DEF FollowupJob, MessageJob
<1>2. /\ UNCHANGED <<orderState, reminded, saleState, count, due, ordered, list, rows>>
      /\ UNCHANGED <<reports, scheduled, officeHours, stops, past>>
  BY DEF FollowupJob, MessageJob, BeginFollowups, FollowUp, EndFollowups, BeginMessages,
         FireMessage, EndMessages, marks
<1>3. interest' \in [Events -> {None, "pending", "followed up", "converted"}]
  <2>1. interest \in [Events -> {None, "pending", "followed up", "converted"}]
    BY DEF OutInv, TypeOK
  <2>2. UNCHANGED interest \/ \E e \in Events : FollowUp(e)
    BY DEF FollowupJob, MessageJob, BeginFollowups, EndFollowups, BeginMessages, FireMessage,
           EndMessages, marks
  <2>3. ASSUME NEW e \in Events, FollowUp(e)
        PROVE  interest' \in [Events -> {None, "pending", "followed up", "converted"}]
    BY <2>1, <2>3 DEF FollowUp
  <2> QED BY <2>1, <2>2, <2>3
<1>4. TypeOK'
  BY <1>1, <1>2, <1>3 DEF OutInv, TypeOK, list, rows, reports, past
<1> QED BY <1>1, <1>2, <1>4, SideFrame DEF rows, reports

-----------------------------------------------------------------------------
(* The weekly report.                                                      *)

\* A run of the report moves, and nothing is sent or filed with it.
LEMMA ReportMoves ==
    ASSUME OutInv, NEW t \in Reporters, Elsewhere(t),
           UNCHANGED <<report, delivered, unfiled, stops>>, ~ Reported(t),
           \/ task'[t].step \notin {"claim", "dispatch", "sent", "failed"}
           \/ task'[t].step = "claim" /\ report = None
           \/ /\ task'[t].step = "dispatch" /\ task[t].step = "claim"
              /\ report \notin {"sent", "failed"} /\ \A u \in Reporters : ~ Holds(u)
    PROVE  ReportInv'
<1>1. PICK u \in Reporters : u # t /\ Reporters = {t, u} /\ task'[u] = task[u]
  BY TaskNames DEF Reporters, Elsewhere, Jobs, Requests
<1>2. report \in {None, "sent", "failed", "skipped"} /\ None \notin {"sent", "failed", "skipped"}
  BY NoneAssumption DEF OutInv, TypeOK
<1>3. ReportInv
  BY DEF OutInv
<1>4. task'[t].step = "dispatch" => delivered <= Losses
  BY <1>1, <1>2, <1>3 DEF ReportInv, Reported, Holds, At
<1>5. Losses' = Losses
  BY DEF Losses
<1> QED BY <1>1, <1>2, <1>3, <1>4, <1>5 DEF ReportInv, Holds, At, Reported

\* The message goes out, is refused, or times out.
LEMMA ReportSends ==
    ASSUME OutInv, NEW t \in Reporters, Elsewhere(t), UNCHANGED <<report, unfiled, stops>>,
           task[t].step = "dispatch", delivered' \in {delivered, delivered + 1},
           task'[t].step \in {"sent", "failed"},
           task'[t].step = "sent" => delivered' = delivered + 1
    PROVE  ReportInv'
<1>1. PICK u \in Reporters : u # t /\ Reporters = {t, u} /\ task'[u] = task[u]
  BY TaskNames DEF Reporters, Elsewhere, Jobs, Requests
<1>2. delivered \in Nat /\ Losses \in Nat /\ Losses' = Losses
  <2>1. delivered \in Nat /\ stops \in Nat /\ unfiled \in Nat
    BY DEF OutInv, TypeOK
  <2> QED BY <2>1 DEF Losses
<1>3. ReportInv
  BY DEF OutInv
<1>4. ~ Holds(u) /\ delivered <= Losses /\ report \notin {"sent", "failed"}
  BY <1>1, <1>3 DEF ReportInv, Holds, At
<1>5. report = "skipped" => ~ At(u, "claim")
  BY <1>1, <1>3 DEF ReportInv, Holds, At
<1>6. delivered' <= 1 + Losses /\ (task'[t].step = "sent" => delivered' > 0)
  BY <1>2, <1>4
<1> QED BY <1>1, <1>2, <1>3, <1>4, <1>5, <1>6 DEF ReportInv, Holds, At, Reported

\* The run is filed, or its transaction is rolled back.
LEMMA ReportFiled ==
    ASSUME OutInv, NEW t \in Reporters, Elsewhere(t), UNCHANGED <<delivered, unfiled, stops>>,
           task[t].step \in {"sent", "failed", "skipped"}, task'[t].step = "idle",
           report' = IF report = None THEN task[t].step ELSE report
    PROVE  ReportInv'
<1>1. PICK u \in Reporters : u # t /\ Reporters = {t, u} /\ task'[u] = task[u]
  BY TaskNames DEF Reporters, Elsewhere, Jobs, Requests
<1>2. report \in {None, "sent", "failed", "skipped"} /\ None \notin {"sent", "failed", "skipped"}
  BY NoneAssumption DEF OutInv, TypeOK
<1>3. ReportInv
  BY DEF OutInv
<1>7. Losses' = Losses
  BY DEF Losses
<1>4. CASE report # None
  BY <1>1, <1>2, <1>3, <1>4, <1>7 DEF ReportInv, Holds, At, Reported
<1>5. CASE report = None /\ task[t].step \in {"sent", "failed"}
  BY <1>1, <1>2, <1>3, <1>5, <1>7 DEF ReportInv, Holds, At, Reported
<1>6. CASE report = None /\ task[t].step = "skipped"
  <2>1. At(u, "claim") => delivered <= Losses
    BY <1>1, <1>2, <1>3, <1>6 DEF ReportInv, At, Reported
  <2> QED BY <1>1, <1>2, <1>3, <1>6, <1>7, <2>1 DEF ReportInv, Holds, At, Reported
<1> QED BY <1>4, <1>5, <1>6

\* The run fails: a message that is out stays unfiled, and counts as lost.
LEMMA ReportBreaks ==
    ASSUME OutInv, NEW t \in Reporters, Elsewhere(t), UNCHANGED <<report, delivered, stops>>,
           unfiled' = IF Reported(t) THEN unfiled + 1 ELSE unfiled, task'[t].step = "idle"
    PROVE  ReportInv'
<1>1. PICK u \in Reporters : u # t /\ Reporters = {t, u} /\ task'[u] = task[u]
  BY TaskNames DEF Reporters, Elsewhere, Jobs, Requests
<1>2. CASE ~ Reported(t)
  <2>1. UNCHANGED unfiled
    BY <1>2
  <2> QED BY <1>2, <2>1, ReportMoves
<1>3. CASE Reported(t)
  <2>1. delivered \in Nat /\ Losses \in Nat /\ Losses' = Losses + 1
    <3>1. delivered \in Nat /\ stops \in Nat /\ unfiled \in Nat
      BY DEF OutInv, TypeOK
    <3> QED BY <1>3, <3>1 DEF Losses
  <2>2. ReportInv
    BY DEF OutInv
  <2>3. delivered <= Losses' /\ delivered <= 1 + Losses'
    BY <2>1, <2>2 DEF ReportInv
  <2> QED BY <1>1, <2>2, <2>3 DEF ReportInv, Holds, At, Reported
<1> QED BY <1>2, <1>3

\* The weekly report, by the job and by hand.
LEMMA ReportRunKeeps ==
    ASSUME OutInv, ReportRun
    PROVE  OutInv'
<1> DEFINE Owned(t) == task' \in [Tasks -> Task] /\ Elsewhere(t)
<1>0. /\ task \in [Tasks -> Task] /\ Reporters \cup {"settings"} \subseteq Tasks
      /\ report \in {None, "sent", "failed", "skipped"}
  BY TaskNames DEF OutInv, TypeOK, Jobs, Requests, Reporters
<1>1. {"read", "create", "write", "enabled", "disabled", "idle", "claim", "skipped", "dispatch",
       "sent", "failed"} \subseteq TaskSteps
  BY DEF TaskSteps
<1>2. /\ UNCHANGED <<marks, list, rows, scheduled, officeHours, stops, past>>
  BY DEF ReportRun, BeginWeekly, TriggerWeekly, UpdateConfig, WriteConfig, GetConfig,
         CreateConfig, CheckReport, ClaimReport, ReportGoes, ReportFails, FileReport,
         ReportRunFails, reports
<1>3. config' \in {None, "off", "on"}
  <2>1. config \in {None, "off", "on"}
    BY DEF OutInv, TypeOK
  <2> QED BY <2>1 DEF ReportRun, BeginWeekly, TriggerWeekly, UpdateConfig, WriteConfig, GetConfig,
         CreateConfig, CheckReport, ClaimReport, ReportGoes, ReportFails, FileReport,
         ReportRunFails, reports
<1>4. CASE UpdateConfig \/ WriteConfig \/ GetConfig("settings") \/ CreateConfig("settings")
  <2>1. PICK step \in TaskSteps : Go("settings", step)
    BY <1>1, <1>4 DEF UpdateConfig, WriteConfig, GetConfig, CreateConfig, AfterConfig
  <2>2. Owned("settings")
    BY <1>0, <2>1, GoMoves
  <2>3. UNCHANGED <<report, delivered, unfiled>>
    BY <1>4 DEF UpdateConfig, WriteConfig, GetConfig, CreateConfig, reports
  <2>4. TypeOK'
    BY <1>2, <1>3, <2>2, <2>3 DEF OutInv, TypeOK, marks, list, rows, past
  <2> QED BY <1>2, <2>2, <2>3, <2>4, SideFrame DEF marks, rows
<1>5. ASSUME NEW t \in Reporters, Owned(t), ReportInv', delivered' \in Nat, unfiled' \in Nat,
             report' \in {None, "sent", "failed", "skipped"}
      PROVE  OutInv'
  <2>1. TypeOK'
    BY <1>2, <1>3, <1>5 DEF OutInv, TypeOK, marks, list, rows, past
  <2>2. /\ task'["orders"] = task["orders"] /\ task'["debts"] = task["debts"]
        /\ task'["by hand"] = task["by hand"] /\ \A b \in Broadcasts : task'[b] = task[b]
    BY <1>5, TaskNames DEF Elsewhere, Jobs, Requests, Reporters
  <2>3. OrdersInv' /\ DebtInv' /\ CastInv' /\ StopInv' /\ WeekInv'
    BY <1>2, <2>2, OrdersFrame, DebtFrame, CastFrame DEF OutInv, marks, list, rows
  <2> QED BY <1>2, <1>5, <2>1, <2>3 DEF OutInv, NeverFired
<1>6. ASSUME NEW t \in Reporters, NEW step \in TaskSteps, Go(t, step),
             UNCHANGED <<report, delivered, unfiled>>, ~ Reported(t),
             \/ step \notin {"claim", "dispatch", "sent", "failed"}
             \/ step = "claim" /\ report = None
             \/ /\ step = "dispatch" /\ task[t].step = "claim"
                /\ report \notin {"sent", "failed"} /\ \A u \in Reporters : ~ Holds(u)
      PROVE  OutInv'
  <2>1. Owned(t) /\ task'[t].step = step
    BY <1>0, <1>6, GoMoves
  <2>2. ReportInv'
    BY <1>2, <1>6, <2>1, ReportMoves
  <2>3. delivered' \in Nat /\ unfiled' \in Nat
    BY <1>6 DEF OutInv, TypeOK
  <2> QED BY <1>0, <1>5, <1>6, <2>1, <2>2, <2>3
<1>7. CASE BeginWeekly \/ TriggerWeekly
  <2>1. PICK t \in Reporters : Go(t, "read") /\ ~ Reported(t) /\ UNCHANGED <<report, delivered, unfiled>>
    BY <1>7 DEF BeginWeekly, TriggerWeekly, Reporters, Reported, At, reports
  <2> QED BY <1>1, <1>6, <2>1
<1>8. ASSUME NEW t \in Reporters, GetConfig(t) \/ CreateConfig(t) PROVE OutInv'
  <2>1. PICK step \in {"create", "enabled", "disabled", "idle"} : Go(t, step)
    BY <1>8 DEF GetConfig, CreateConfig, AfterConfig, Reporters
  <2>2. ~ Reported(t) /\ UNCHANGED <<report, delivered, unfiled>>
    BY <1>8 DEF GetConfig, CreateConfig, Reported, At, reports
  <2> QED BY <1>1, <1>6, <2>1, <2>2
<1>9. ASSUME NEW t \in Reporters, CheckReport(t) PROVE OutInv'
  <2>1. PICK step \in {"idle", "claim", "skipped"} :
            Go(t, step) /\ (step = "claim" => report = None)
    BY <1>9 DEF CheckReport
  <2>2. ~ Reported(t) /\ UNCHANGED <<report, delivered, unfiled>>
    BY <1>9 DEF CheckReport, Reported, reports
  <2> QED BY <1>1, <1>6, <2>1, <2>2
<1>10. ASSUME NEW t \in Reporters, ClaimReport(t) PROVE OutInv'
  <2>1. PICK step \in {"idle", "dispatch"} :
            Go(t, step) /\ (step = "dispatch" => report \notin {"sent", "failed"})
    BY <1>10 DEF ClaimReport
  <2>2. /\ ~ Reported(t) /\ UNCHANGED <<report, delivered, unfiled>> /\ task[t].step = "claim"
        /\ \A u \in Reporters : ~ Holds(u)
    BY <1>10 DEF ClaimReport, Reported, At, reports
  <2> QED BY <1>1, <1>6, <2>1, <2>2
<1>11. ASSUME NEW t \in Reporters, ReportGoes(t) \/ ReportFails(t) PROVE OutInv'
  <2>1. PICK step \in {"sent", "failed"} :
            /\ Go(t, step) /\ delivered' \in {delivered, delivered + 1}
            /\ step = "sent" => delivered' = delivered + 1
    BY <1>11 DEF ReportGoes, ReportFails
  <2>2. Owned(t) /\ task'[t].step = step
    BY <1>0, <1>1, <2>1, GoMoves
  <2>3. task[t].step = "dispatch" /\ UNCHANGED <<report, unfiled>>
    BY <1>11 DEF ReportGoes, ReportFails, At
  <2>4. ReportInv'
    BY <1>2, <2>1, <2>2, <2>3, ReportSends
  <2>5. delivered' \in Nat /\ unfiled' \in Nat
    <3>1. delivered \in Nat /\ unfiled \in Nat
      BY DEF OutInv, TypeOK
    <3> QED BY <2>1, <2>3, <3>1
  <2> QED BY <1>0, <1>5, <2>2, <2>3, <2>4, <2>5
<1>12. ASSUME NEW t \in Reporters, FileReport(t) PROVE OutInv'
  <2>1. /\ task[t].step \in {"sent", "failed", "skipped"} /\ Go(t, "idle")
        /\ UNCHANGED <<delivered, unfiled>>
        /\ report' = IF report = None THEN task[t].step ELSE report
    BY <1>12 DEF FileReport
  <2>2. Owned(t) /\ task'[t].step = "idle"
    BY <1>0, <1>1, <2>1, GoMoves
  <2>3. ReportInv'
    BY <1>2, <2>1, <2>2, ReportFiled
  <2>4. delivered' \in Nat /\ unfiled' \in Nat /\ report' \in {None, "sent", "failed", "skipped"}
    BY <1>0, <2>1 DEF OutInv, TypeOK
  <2> QED BY <1>5, <2>2, <2>3, <2>4
<1>13. ASSUME NEW t \in Reporters, ReportRunFails(t) PROVE OutInv'
  <2>1. /\ Go(t, "idle") /\ UNCHANGED <<report, delivered>>
        /\ unfiled' = IF Reported(t) THEN unfiled + 1 ELSE unfiled
    BY <1>13 DEF ReportRunFails, Reported
  <2>2. Owned(t) /\ task'[t].step = "idle"
    BY <1>0, <1>1, <2>1, GoMoves
  <2>3. ReportInv'
    BY <1>2, <2>1, <2>2, ReportBreaks
  <2>4. delivered' \in Nat /\ unfiled' \in Nat /\ report' \in {None, "sent", "failed", "skipped"}
    <3>1. delivered \in Nat /\ unfiled \in Nat /\ report \in {None, "sent", "failed", "skipped"}
      BY DEF OutInv, TypeOK
    <3> QED BY <2>1, <3>1
  <2> QED BY <1>5, <2>2, <2>3, <2>4
<1>14. CASE \E t \in Reporters \cup {"settings"} : GetConfig(t) \/ CreateConfig(t)
  <2> PICK t \in Reporters \cup {"settings"} : GetConfig(t) \/ CreateConfig(t)
    BY <1>14
  <2>1. CASE t = "settings"
    BY <1>4, <2>1
  <2>2. CASE t \in Reporters
    BY <1>8, <2>2
  <2> QED BY <2>1, <2>2
<1>15. CASE \E t \in Reporters : \/ CheckReport(t) \/ ClaimReport(t) \/ ReportGoes(t)
                                \/ ReportFails(t) \/ FileReport(t) \/ ReportRunFails(t)
  <2> PICK t \in Reporters : \/ CheckReport(t) \/ ClaimReport(t) \/ ReportGoes(t)
                             \/ ReportFails(t) \/ FileReport(t) \/ ReportRunFails(t)
    BY <1>15
  <2> QED BY <1>9, <1>10, <1>11, <1>12, <1>13, Zenon
<1> QED BY <1>4, <1>7, <1>14, <1>15, Zenon DEF ReportRun

-----------------------------------------------------------------------------
(* Broadcasts.                                                             *)

\* A step of a sender leaves the jobs and requests as they are.
LEMMA SenderFrame ==
    ASSUME OutInv, NEW b \in Broadcasts, Elsewhere(b),
           UNCHANGED <<marks, orderRows, debtRows, reports, scheduled, stops>>
    PROVE  OrdersInv' /\ DebtInv' /\ ReportInv' /\ NeverFired'
<1>1. \A t \in Jobs \cup Requests : task'[t] = task[t]
  BY TaskNames DEF Elsewhere
<1>2. OrdersInv' /\ DebtInv' /\ ReportInv'
  BY <1>1, OrdersFrame, DebtFrame, ReportFrame DEF OutInv, Jobs, Requests, marks, reports
<1>3. NeverFired'
  BY DEF OutInv, NeverFired
<1> QED BY <1>2, <1>3

\* The messages in flight to a customer are finitely many, and fewer when a sender is done
\* with one.
LEMMA FlightsCount ==
    ASSUME NEW S \in SUBSET Broadcasts
    PROVE  /\ Cardinality(S) \in Nat
           /\ \A T \in SUBSET S : Cardinality(T) \in Nat /\ Cardinality(T) <= Cardinality(S)
           /\ \A b \in S : Cardinality(S \ {b}) = Cardinality(S) - 1
<1>1. IsFiniteSet(S)
  BY BroadcastsAssumption, FS_Subset
<1>2. Cardinality(S) \in Nat
  BY <1>1, FS_CardinalityType
<1>3. \A T \in SUBSET S : Cardinality(T) \in Nat /\ Cardinality(T) <= Cardinality(S)
  BY <1>1, FS_Subset, FS_CardinalityType
<1>4. \A b \in S : Cardinality(S \ {b}) = Cardinality(S) - 1
  BY <1>1, FS_RemoveElement
<1> QED BY <1>2, <1>3, <1>4

\* A sender goes on, and no message reaches anyone.
LEMMA SenderMoves ==
    ASSUME OutInv, NEW b \in Broadcasts, Elsewhere(b), b \in Sending \/ task'[b].step = "idle",
           task'[b].step \in {"next", "check", "idle"}, task[b].step # "mark",
           UNCHANGED <<optedOut, recent, past>>
    PROVE  StopInv' /\ WeekInv'
<1>1. \A a \in Broadcasts : a # b => task'[a] = task[a]
  BY TaskNames DEF Elsewhere
<1>2. StopInv'
  <2>1. \A c \in Customers : InFlight(c)' \subseteq InFlight(c) /\ InFlight(c) \in SUBSET Broadcasts
    BY <1>1 DEF InFlight, At, Item
  <2>2. ASSUME NEW c \in Customers
        PROVE  IF c \in optedOut THEN after[c] + Cardinality(InFlight(c)') <= spared[c]
                                 ELSE after[c] = 0
    <3>1. /\ Cardinality(InFlight(c)') \in Nat /\ Cardinality(InFlight(c)) \in Nat
          /\ Cardinality(InFlight(c)') <= Cardinality(InFlight(c))
      BY <2>1, FlightsCount
    <3>2. after[c] \in Nat /\ spared[c] \in Nat
      BY DEF OutInv, TypeOK
    <3>3. IF c \in optedOut THEN after[c] + Cardinality(InFlight(c)) <= spared[c]
                            ELSE after[c] = 0
      BY DEF OutInv, StopInv
    <3> QED BY <3>1, <3>2, <3>3
  <2> QED BY <2>2 DEF StopInv, past
<1>3. WeekInv'
  <2>1. Sending' \subseteq Sending
    BY <1>1 DEF Sending
  <2>2. \A a \in Broadcasts : At(a, "send")' => At(a, "send") /\ Item(a)' = Item(a)
    BY <1>1 DEF At, Item
  <2>3. \A a \in Broadcasts : At(a, "mark") => At(a, "mark")' /\ Item(a)' = Item(a)
    BY <1>1 DEF At, Item
  <2>4. ASSUME NEW c \in Customers \ slipped PROVE Trusted(c)'
    <3>1. Trusted(c)
      BY DEF OutInv, WeekInv
    <3> QED BY <2>1, <2>2, <2>3, <3>1 DEF Trusted, past
  <2> QED BY <2>4 DEF WeekInv, past
<1> QED BY <1>2, <1>3

\* A message reaches the customer at hand, or is given up.
LEMMA SenderReaches ==
    ASSUME OutInv, NEW b \in Broadcasts, Elsewhere(b), At(b, "send"), task'[b].step # "send",
           NEW c \in Customers, c = Item(b),
           Reaches(c), UNCHANGED <<optedOut, spared>>
    PROVE  StopInv'
<1>1. \A a \in Broadcasts : a # b => task'[a] = task[a]
  BY TaskNames DEF Elsewhere
<1>2. \A d \in Customers : InFlight(d) \in SUBSET Broadcasts
  BY DEF InFlight
<1>3. InFlight(c)' = InFlight(c) \ {b} /\ b \in InFlight(c)
  BY <1>1 DEF InFlight, At, Item
<1>4. \A d \in Customers : d # c => InFlight(d)' = InFlight(d)
  BY <1>1 DEF InFlight, At, Item
<1>5. after \in [Customers -> Nat] /\ spared \in [Customers -> Nat]
  BY DEF OutInv, TypeOK
<1>6. \A d \in Customers : d # c => after'[d] = after[d]
  BY <1>5 DEF Reaches
<1>7. after'[c] = IF c \in optedOut THEN after[c] + 1 ELSE after[c]
  BY <1>5 DEF Reaches
<1>8. ASSUME NEW d \in Customers
      PROVE  IF d \in optedOut THEN after'[d] + Cardinality(InFlight(d)') <= spared[d]
                               ELSE after'[d] = 0
  <2>1. IF d \in optedOut THEN after[d] + Cardinality(InFlight(d)) <= spared[d]
                          ELSE after[d] = 0
    BY DEF OutInv, StopInv
  <2>2. CASE d # c
    BY <1>4, <1>6, <2>1, <2>2
  <2>3. CASE d = c
    <3>1. Cardinality(InFlight(c)) \in Nat /\ Cardinality(InFlight(c)') = Cardinality(InFlight(c)) - 1
      BY <1>2, <1>3, FlightsCount
    <3>2. after[c] \in Nat /\ spared[c] \in Nat
      BY <1>5
    <3> QED BY <1>7, <2>1, <2>3, <3>1, <3>2
  <2> QED BY <2>2, <2>3
<1> QED BY <1>8 DEF StopInv

RecipientStatus == {None, "pending", "sent", "skipped", "opted out"}

\* The steps of a sender that take up, skip or give up a recipient, and its end.
LEMMA SenderGoesOn ==
    ASSUME OutInv, NEW b \in Broadcasts,
           \/ \E c \in Customers : TakeRecipient(b, c)
           \/ CheckRecipient(b) \/ EndSending(b) \/ SenderFails(b),
           task'[b].step # "send"
    PROVE  /\ task' \in [Tasks -> Task] /\ Elsewhere(b)
           /\ recipient' \in [Broadcasts -> [Customers -> RecipientStatus]]
           /\ CastInv' /\ StopInv' /\ WeekInv'
<1>0. /\ task \in [Tasks -> Task] /\ b \in Tasks /\ CastInv
      /\ recipient \in [Broadcasts -> [Customers -> RecipientStatus]]
      /\ {"check", "send"} \subseteq TaskSteps
  BY TaskNames DEF OutInv, TypeOK, RecipientStatus, TaskSteps
<1>1. UNCHANGED <<optedOut, recent, castRows, past>>
  BY DEF TakeRecipient, CheckRecipient, EndSending, SenderFails, list, rows
<1>2. /\ task' \in [Tasks -> Task] /\ Elsewhere(b)
      /\ task[b].step \in {"next", "check"} \/ (task[b].step = "idle" /\ task'[b].step = "idle")
      /\ task'[b].step \in {"next", "idle"} \/ (task'[b].step = "check" /\ task'[b].item \in Customers)
  <2>1. ASSUME NEW c \in Customers, TakeRecipient(b, c) PROVE <1>2!:
    BY <1>0, <2>1, TakeMoves DEF TakeRecipient
  <2>2. CASE CheckRecipient(b)
    <3>1. NextItem(b) \/ Go(b, "send")
      BY <2>2 DEF CheckRecipient
    <3>2. ~ Go(b, "send")
      BY <1>0, GoMoves
    <3> QED BY <1>0, <2>2, <3>1, <3>2, NextMoves DEF CheckRecipient, At
  <2>3. CASE EndSending(b)
    BY <1>0, <2>3, IdleMoves DEF EndSending, End, At
  <2>4. CASE SenderFails(b)
    <3>1. task[b].step \in {"idle", "check", "next"} /\ task' = [task EXCEPT ![b] = IdleTask]
      BY <2>4 DEF SenderFails, Begins, At
    <3> QED BY <1>0, <3>1, IdleMoves
  <2> QED BY <2>1, <2>2, <2>3, <2>4
<1>3. /\ recipient' \in [Broadcasts -> [Customers -> RecipientStatus]]
      /\ \A a \in Broadcasts, c \in Customers :
            recipient'[a][c] = "sent" => recipient[a][c] = "sent"
  <2>1. CASE recipient' = recipient
    BY <1>0, <2>1
  <2>2. CASE recipient' # recipient
    <3>1. PICK st \in {"skipped", "opted out"} :
              At(b, "check") /\ recipient' = [recipient EXCEPT ![b][Item(b)] = st]
      BY <2>2 DEF TakeRecipient, CheckRecipient, EndSending, SenderFails, list
    <3>2. Item(b) \in Customers /\ st \in RecipientStatus
      BY <1>0, <3>1 DEF CastInv, At, RecipientStatus
    <3> QED BY <1>0, <3>1, <3>2
  <2> QED BY <2>1, <2>2
<1>4. CastInv'
  <2>1. \A a \in Broadcasts : a # b => task'[a] = task[a]
    BY <1>2, TaskNames DEF Elsewhere
  <2> QED BY <1>0, <1>1, <1>2, <1>3, <2>1 DEF CastInv, At, Item
<1>5. /\ b \in Sending \/ task'[b].step = "idle"
      /\ task[b].step # "mark" /\ task'[b].step \in {"next", "check", "idle"}
  BY <1>2 DEF Sending
<1>6. StopInv' /\ WeekInv'
  BY <1>1, <1>2, <1>5, SenderMoves
<1> QED BY <1>2, <1>3, <1>4, <1>6

\* A message to a recipient who got none this week and has not written STOP is in flight.
LEMMA SenderChecks ==
    ASSUME OutInv, NEW b \in Broadcasts, CheckRecipient(b), task'[b].step = "send"
    PROVE  /\ task' \in [Tasks -> Task] /\ Elsewhere(b)
           /\ CastInv' /\ StopInv' /\ WeekInv' /\ UNCHANGED recipient
<1>0. /\ task \in [Tasks -> Task] /\ b \in Tasks /\ CastInv /\ StopInv /\ WeekInv
      /\ "send" \in TaskSteps
  BY TaskNames DEF OutInv, TypeOK, TaskSteps
<1>1. /\ UNCHANGED <<optedOut, recent, castRows, past>> /\ task[b].step = "check"
  BY DEF CheckRecipient, rows, At
<1>2. ~ NextItem(b)
  BY <1>0, NextMoves
<1>3. Go(b, "send") /\ UNCHANGED recipient /\ Item(b) \notin recent \cup optedOut
  BY <1>2 DEF CheckRecipient
<1>4. task' \in [Tasks -> Task] /\ Elsewhere(b) /\ task'[b].item = Item(b)
  BY <1>0, <1>3, GoMoves DEF Item
<1>5. \A a \in Broadcasts : a # b => task'[a] = task[a]
  BY <1>4, TaskNames DEF Elsewhere
<1>6. Item(b) \in Customers
  BY <1>0, <1>1 DEF CastInv
<1>7. CastInv'
  BY <1>0, <1>1, <1>3, <1>4, <1>5, <1>6 DEF CastInv, At, Item
<1>8. \A c \in optedOut \cap Customers : InFlight(c)' = InFlight(c)
  BY <1>1, <1>3, <1>4, <1>5 DEF InFlight, At, Item
<1>9. StopInv'
  BY <1>0, <1>1, <1>8 DEF StopInv, past
<1>10. WeekInv'
  <2>1. Sending' = Sending /\ b \in Sending
    BY <1>1, <1>5, <1>4, <1>3, <1>0, GoMoves DEF Sending
  <2>2. \A a \in Broadcasts : a # b => At(a, "send")' = At(a, "send") /\ At(a, "mark")' = At(a, "mark")
                                     /\ Item(a)' = Item(a)
    BY <1>5 DEF At, Item
  <2>3. Item(b)' = Item(b) /\ ~ At(b, "mark") /\ ~ At(b, "mark")'
    BY <1>0, <1>1, <1>3, <1>4, GoMoves DEF At, Item
  <2>4. ASSUME NEW c \in Customers \ slipped PROVE Trusted(c)'
    <3>1. Trusted(c)
      BY <1>0 DEF WeekInv
    <3>2. \A a \in Broadcasts : At(a, "mark") => a \in Sending /\ a # b
      BY <1>1 DEF Sending, At
    <3>3. \A a \in Broadcasts : ~ At(a, "mark")
      BY <2>1, <3>1, <3>2 DEF Trusted
    <3>4. c = Item(b) => week[c] = 0
      BY <1>3, <3>1, <3>3 DEF Trusted
    <3>5. \A a, d \in Sending' : a = d
      BY <2>1, <3>1 DEF Trusted
    <3>6. \A a \in Broadcasts : (At(a, "send") /\ Item(a) = c)' => week[c] = 0
      BY <2>2, <2>3, <3>1, <3>4 DEF Trusted
    <3>7. week[c] = 0 \/ (week[c] = 1 /\ c \in recent)
      BY <3>1, <3>3 DEF Trusted
    <3> QED BY <1>1, <3>5, <3>6, <3>7 DEF Trusted, past
  <2> QED BY <1>1, <2>4 DEF WeekInv, past
<1> QED BY <1>3, <1>4, <1>7, <1>9, <1>10

\* While a customer's last_broadcast_at can be trusted no two senders overlap, so that only
\* the one at hand is at a message.
LEMMA SenderAlone ==
    ASSUME NEW c, Trusted(c), NEW b \in Broadcasts, b \in Sending
    PROVE  \A a \in Broadcasts : a # b => a \notin Sending /\ ~ At(a, "send") /\ ~ At(a, "mark")
  BY DEF Trusted, Sending, At

\* The message goes out, or its fate is unknown.
LEMMA SenderSends ==
    ASSUME OutInv, NEW b \in Broadcasts, BroadcastGoes(b) \/ BroadcastFails(b)
    PROVE  /\ task' \in [Tasks -> Task] /\ Elsewhere(b)
           /\ castRows' \in SUBSET (Broadcasts \X Customers)
           /\ week' \in [Customers -> Nat] /\ after' \in [Customers -> Nat]
           /\ CastInv' /\ StopInv' /\ WeekInv' /\ UNCHANGED recipient
<1> PICK c : c = Item(b)
  OBVIOUS
<1>0. /\ task \in [Tasks -> Task] /\ b \in Tasks /\ CastInv /\ StopInv /\ WeekInv
      /\ {"mark"} \subseteq TaskSteps /\ week \in [Customers -> Nat] /\ after \in [Customers -> Nat]
      /\ castRows \in SUBSET (Broadcasts \X Customers)
  BY TaskNames DEF OutInv, TypeOK, TaskSteps
<1>1. At(b, "send") /\ UNCHANGED <<optedOut, recent, recipient, spared>>
  BY DEF BroadcastGoes, BroadcastFails, list
<1>2. c \in Customers /\ b \in Sending
  BY <1>0, <1>1 DEF CastInv, At, Sending
<1>3. /\ task' \in [Tasks -> Task] /\ Elsewhere(b)
      /\ \/ BroadcastGoes(b) /\ task'[b].step = "mark" /\ task'[b].item = c
         \/ BroadcastFails(b) /\ task'[b].step = "next"
  BY <1>0, GoMoves, NextMoves DEF BroadcastGoes, BroadcastFails, Item
<1>4. \A a \in Broadcasts : a # b => task'[a] = task[a]
  BY <1>3, TaskNames DEF Elsewhere
<1>5. /\ castRows' = castRows \cup {<<b, c>>} \/ castRows' = castRows
      /\ task'[b].step = "mark" => castRows' = castRows \cup {<<b, c>>}
  BY <1>3 DEF BroadcastGoes, BroadcastFails, rows
<1>6. CastInv'
  BY <1>0, <1>1, <1>2, <1>3, <1>4, <1>5 DEF CastInv, At, Item
<1>7. castRows' \in SUBSET (Broadcasts \X Customers)
  BY <1>0, <1>2, <1>5
<1>8. CASE Reaches(c)
  <2>1. StopInv'
    BY <1>1, <1>2, <1>3, <1>8, SenderReaches
  <2>2. week' \in [Customers -> Nat] /\ after' \in [Customers -> Nat]
    <3>1. \A n \in Nat : n + 1 \in Nat
      OBVIOUS
    <3> QED BY <1>0, <1>2, <1>8, <3>1 DEF Reaches
  <2>3. ASSUME NEW d \in Customers \ slipped' PROVE Trusted(d)'
    <3>1. /\ d \notin slipped /\ task'[b].step \in {"mark", "next"}
          /\ d # c => week'[d] = week[d]
          /\ BroadcastFails(b) => week'[d] = week[d]
      <4>1. d # c => week'[d] = week[d]
        BY <1>0, <1>8 DEF Reaches
      <4>2. d \notin slipped
        BY DEF BroadcastGoes, BroadcastFails
      <4>3. BroadcastFails(b) => week' = week \/ d # c
        BY DEF BroadcastFails
      <4> QED BY <1>3, <4>1, <4>2, <4>3
    <3>2. Trusted(d)
      BY <1>0, <3>1 DEF WeekInv
    <3>3. \A a \in Broadcasts : a # b => a \notin Sending /\ ~ At(a, "send") /\ ~ At(a, "mark")
      BY <1>2, <3>2, SenderAlone
    <3>4. \A a, e \in Sending' : a = e
      BY <1>4, <3>3 DEF Sending
    <3>5. \A a \in Broadcasts : ~ At(a, "send")'
      BY <1>4, <3>1, <3>3 DEF At
    <3>6. week[d] = 0 \/ (week[d] = 1 /\ d \in recent)
      BY <1>1, <3>2, <3>3 DEF Trusted, At
    <3>7. CASE BroadcastFails(b) \/ d # c
      BY <1>1, <3>1, <3>4, <3>5, <3>6, <3>7 DEF Trusted
    <3>8. CASE BroadcastGoes(b) /\ d = c
      <4>1. week[d] = 0
        BY <1>1, <3>2, <3>8 DEF Trusted
      <4>2. week' = [week EXCEPT ![c] = week[c] + 1]
        BY <1>8, <3>1, <3>8 DEF Reaches
      <4>3. week'[d] = 1
        BY <1>0, <1>2, <3>8, <4>1, <4>2
      <4>4. (At(b, "mark") /\ Item(b) = d)'
        <5>1. task'[b].step = "mark" /\ task'[b].item = c
          BY <1>0, <1>3, <3>8, GoMoves DEF BroadcastGoes, Item
        <5> QED BY <3>8, <5>1 DEF At, Item
      <4> QED BY <3>4, <3>5, <4>3, <4>4 DEF Trusted
    <3> QED BY <1>3, <3>7, <3>8
  <2>4. WeekInv'
    BY <2>3 DEF WeekInv
  <2> QED BY <1>1, <1>3, <1>6, <1>7, <2>1, <2>2, <2>4
<1>9. CASE ~ Reaches(c)
  <2>1. UNCHANGED past /\ task'[b].step = "next"
    BY <1>3, <1>9 DEF BroadcastGoes, BroadcastFails, past
  <2>2. StopInv' /\ WeekInv'
    BY <1>1, <1>2, <1>3, <2>1, SenderMoves DEF At
  <2> QED BY <1>0, <1>1, <1>3, <1>6, <1>7, <2>1, <2>2 DEF past
<1> QED BY <1>8, <1>9

\* A sender starts; if another one is at work the two overlap.
LEMMA SenderStarts ==
    ASSUME OutInv, NEW b \in Broadcasts, StartSending(b)
    PROVE  /\ task' \in [Tasks -> Task] /\ Elsewhere(b)
           /\ CastInv' /\ StopInv' /\ WeekInv'
<1>0. task \in [Tasks -> Task] /\ b \in Tasks /\ CastInv /\ StopInv /\ WeekInv
  BY TaskNames DEF OutInv, TypeOK
<1>1. /\ UNCHANGED <<optedOut, recent, recipient, castRows, week, spared, after>>
      /\ task[b].step = "idle" /\ slipped' = IF Sending = {} THEN slipped ELSE Customers
  BY DEF StartSending, Begins, rows, At
<1>2. task' \in [Tasks -> Task] /\ Elsewhere(b) /\ task'[b].step = "next"
  <2>1. PICK items \in SUBSET Items : Begin(b, items, Zero)
    BY DEF StartSending, Items
  <2> QED BY <1>0, <2>1, BeginMoves, Idles
<1>3. \A a \in Broadcasts : a # b => task'[a] = task[a]
  BY <1>2, TaskNames DEF Elsewhere
<1>4. CastInv'
  BY <1>0, <1>1, <1>2, <1>3 DEF CastInv, At, Item
<1>5. \A c \in Customers : InFlight(c)' = InFlight(c)
  BY <1>1, <1>2, <1>3 DEF InFlight, At, Item
<1>6. StopInv'
  BY <1>0, <1>1, <1>5 DEF StopInv
<1>7. ASSUME NEW c \in Customers \ slipped' PROVE Trusted(c)'
  <2>1. c \notin slipped /\ Sending = {}
    BY <1>1, <1>7
  <2>2. Trusted(c)
    BY <1>0, <2>1 DEF WeekInv
  <2>3. \A a \in Broadcasts : ~ At(a, "mark") /\ ~ At(a, "send")
    BY <2>1 DEF Sending, At
  <2>4. \A a, d \in Sending' : a = d
    BY <1>3, <2>1 DEF Sending
  <2>5. \A a \in Broadcasts : ~ At(a, "send")'
    BY <1>2, <1>3, <2>3 DEF At
  <2> QED BY <1>1, <2>2, <2>3, <2>4, <2>5 DEF Trusted
<1>8. WeekInv'
  BY <1>7 DEF WeekInv
<1> QED BY <1>2, <1>4, <1>6, <1>8

\* A recipient is marked, with last_broadcast_at.
LEMMA SenderMarks ==
    ASSUME OutInv, NEW b \in Broadcasts, MarkRecipient(b)
    PROVE  /\ task' \in [Tasks -> Task] /\ Elsewhere(b)
           /\ recipient' \in [Broadcasts -> [Customers -> RecipientStatus]]
           /\ recent' \in SUBSET Customers
           /\ CastInv' /\ StopInv' /\ WeekInv'
<1> PICK c : c = Item(b)
  OBVIOUS
<1>0. /\ task \in [Tasks -> Task] /\ b \in Tasks /\ CastInv /\ StopInv /\ WeekInv
      /\ recipient \in [Broadcasts -> [Customers -> RecipientStatus]]
      /\ recent \in SUBSET Customers
  BY TaskNames DEF OutInv, TypeOK, RecipientStatus
<1>1. /\ UNCHANGED <<optedOut, castRows, past>> /\ task[b].step = "mark"
      /\ recipient' = [recipient EXCEPT ![b][c] = "sent"] /\ recent' = recent \cup {c}
  BY DEF MarkRecipient, rows, At
<1>2. task' \in [Tasks -> Task] /\ Elsewhere(b) /\ task'[b].step = "next"
  BY <1>0, NextMoves DEF MarkRecipient
<1>3. \A a \in Broadcasts : a # b => task'[a] = task[a]
  BY <1>2, TaskNames DEF Elsewhere
<1>4. c \in Customers /\ <<b, c>> \in castRows
  BY <1>0, <1>1 DEF CastInv, At
<1>5. "sent" \in RecipientStatus
  BY DEF RecipientStatus
<1>6. /\ recipient' \in [Broadcasts -> [Customers -> RecipientStatus]]
      /\ \A a \in Broadcasts, d \in Customers :
            recipient'[a][d] = "sent" => recipient[a][d] = "sent" \/ (a = b /\ d = c)
  BY <1>0, <1>1, <1>4, <1>5
<1>7. CastInv'
  BY <1>0, <1>1, <1>2, <1>3, <1>4, <1>6 DEF CastInv, At, Item
<1>8. \A d \in Customers : InFlight(d)' = InFlight(d)
  BY <1>1, <1>2, <1>3 DEF InFlight, At, Item
<1>9. StopInv'
  BY <1>0, <1>1, <1>8 DEF StopInv, past
<1>10. b \in Sending
  BY <1>1 DEF Sending
<1>11. ASSUME NEW d \in Customers \ slipped PROVE Trusted(d)'
  <2>1. Trusted(d)
    BY <1>0 DEF WeekInv
  <2>2. \A a \in Broadcasts : a # b => a \notin Sending /\ ~ At(a, "send") /\ ~ At(a, "mark")
    BY <1>10, <2>1, SenderAlone
  <2>3. \A a, e \in Sending' : a = e
    BY <1>3, <2>2 DEF Sending
  <2>4. \A a \in Broadcasts : ~ At(a, "send")'
    BY <1>2, <1>3, <2>2 DEF At
  <2>5. week[d] = 0 \/ (week[d] = 1 /\ (d \in recent \/ d = c))
    BY <2>1, <2>2 DEF Trusted, Item
  <2> QED BY <1>1, <2>3, <2>4, <2>5 DEF Trusted, past
<1>12. WeekInv'
  BY <1>1, <1>11 DEF WeekInv, past
<1> QED BY <1>0, <1>1, <1>2, <1>4, <1>6, <1>7, <1>9, <1>12

\* The transaction that marks a recipient fails: last_broadcast_at misses a message of hers.
LEMMA SenderMisses ==
    ASSUME OutInv, NEW b \in Broadcasts, MarkRecipientFails(b)
    PROVE  /\ task' \in [Tasks -> Task] /\ Elsewhere(b)
           /\ slipped' \in SUBSET Customers
           /\ CastInv' /\ StopInv' /\ WeekInv'
<1>0. /\ task \in [Tasks -> Task] /\ b \in Tasks /\ CastInv /\ StopInv /\ WeekInv
      /\ slipped \in SUBSET Customers
  BY TaskNames DEF OutInv, TypeOK
<1>1. /\ UNCHANGED <<optedOut, recent, recipient, castRows, week, spared, after>>
      /\ task[b].step = "mark" /\ slipped' = slipped \cup {Item(b)}
  BY DEF MarkRecipientFails, list, rows, At
<1>2. task' \in [Tasks -> Task] /\ Elsewhere(b) /\ task'[b].step = "next"
  BY <1>0, NextMoves DEF MarkRecipientFails
<1>3. \A a \in Broadcasts : a # b => task'[a] = task[a]
  BY <1>2, TaskNames DEF Elsewhere
<1>4. Item(b) \in Customers /\ b \in Sending
  BY <1>0, <1>1 DEF CastInv, At, Sending
<1>5. CastInv'
  BY <1>0, <1>1, <1>2, <1>3 DEF CastInv, At, Item
<1>6. \A d \in Customers : InFlight(d)' = InFlight(d)
  BY <1>1, <1>2, <1>3 DEF InFlight, At, Item
<1>7. StopInv'
  BY <1>0, <1>1, <1>6 DEF StopInv
<1>8. ASSUME NEW d \in Customers \ slipped' PROVE Trusted(d)'
  <2>1. Trusted(d) /\ d # Item(b)
    BY <1>0, <1>1 DEF WeekInv
  <2>2. \A a \in Broadcasts : a # b => a \notin Sending /\ ~ At(a, "send") /\ ~ At(a, "mark")
    BY <1>4, <2>1, SenderAlone
  <2>3. \A a, e \in Sending' : a = e
    BY <1>3, <2>2 DEF Sending
  <2>4. \A a \in Broadcasts : ~ At(a, "send")'
    BY <1>2, <1>3, <2>2 DEF At
  <2>5. week[d] = 0 \/ (week[d] = 1 /\ d \in recent)
    BY <2>1, <2>2 DEF Trusted
  <2> QED BY <1>1, <2>3, <2>4, <2>5 DEF Trusted
<1>9. WeekInv'
  BY <1>8 DEF WeekInv
<1> QED BY <1>0, <1>1, <1>2, <1>4, <1>5, <1>7, <1>9

\* The sending of a broadcast.
LEMMA SenderKeeps ==
    ASSUME OutInv, NEW b \in Broadcasts, Sender(b)
    PROVE  OutInv'
<1>0. /\ status \in [Broadcasts -> {None, "draft", "sending", "sent"}]
      /\ recipient \in [Broadcasts -> [Customers -> RecipientStatus]]
      /\ recent \in SUBSET Customers /\ castRows \in SUBSET (Broadcasts \X Customers)
      /\ week \in [Customers -> Nat] /\ after \in [Customers -> Nat]
  BY DEF OutInv, TypeOK, RecipientStatus
<1>1. /\ UNCHANGED <<marks, optedOut, orderRows, debtRows, reports, scheduled, officeHours>>
      /\ UNCHANGED <<stops, spared>>
  BY DEF Sender, StartSending, CheckRecipient, BroadcastGoes, BroadcastFails, MarkRecipient,
         MarkRecipientFails, EndSending, SenderFails, TakeRecipient, list, rows, past
<1>2. /\ task' \in [Tasks -> Task] /\ Elsewhere(b)
      /\ recipient' \in [Broadcasts -> [Customers -> RecipientStatus]]
      /\ recent' \in SUBSET Customers /\ castRows' \in SUBSET (Broadcasts \X Customers)
      /\ week' \in [Customers -> Nat] /\ after' \in [Customers -> Nat]
      /\ CastInv' /\ StopInv' /\ WeekInv'
  <2>1. CASE StartSending(b)
    <3>1. UNCHANGED <<recipient, recent, castRows, week, after>>
      BY <2>1 DEF StartSending, rows
    <3> QED BY <1>0, <2>1, <3>1, SenderStarts
  <2>2. CASE \/ \E c \in Customers : TakeRecipient(b, c)
             \/ CheckRecipient(b) \/ EndSending(b) \/ SenderFails(b)
    <3>1. UNCHANGED <<recent, castRows, week, after>>
      BY <2>2 DEF TakeRecipient, CheckRecipient, EndSending, SenderFails, list, rows, past
    <3>2. CASE task'[b].step # "send"
      BY <1>0, <2>2, <3>1, <3>2, SenderGoesOn
    <3>3. CASE task'[b].step = "send"
      <4>1. CheckRecipient(b)
        <5>0. task \in [Tasks -> Task] /\ b \in Tasks /\ "check" \in TaskSteps
          BY TaskNames DEF OutInv, TypeOK, TaskSteps
        <5>1. ASSUME NEW c \in Customers, TakeRecipient(b, c) PROVE FALSE
          BY <3>3, <5>0, <5>1, TakeMoves DEF TakeRecipient
        <5>2. ASSUME EndSending(b) \/ SenderFails(b) PROVE FALSE
          BY <3>3, <5>0, <5>2, IdleMoves DEF EndSending, SenderFails, End
        <5> QED BY <2>2, <5>1, <5>2
      <4> QED BY <1>0, <3>1, <3>3, <4>1, SenderChecks
    <3> QED BY <3>2, <3>3
  <2>3. CASE BroadcastGoes(b) \/ BroadcastFails(b)
    <3>1. UNCHANGED recent
      BY <2>3 DEF BroadcastGoes, BroadcastFails, list
    <3> QED BY <1>0, <2>3, <3>1, SenderSends
  <2>4. CASE MarkRecipient(b)
    <3>1. UNCHANGED <<castRows, week, after>>
      BY <2>4 DEF MarkRecipient, rows, past
    <3> QED BY <1>0, <2>4, <3>1, SenderMarks
  <2>5. CASE MarkRecipientFails(b)
    <3>1. UNCHANGED <<recipient, recent, castRows, week, after>>
      BY <2>5 DEF MarkRecipientFails, list, rows
    <3> QED BY <1>0, <2>5, <3>1, SenderMisses
  <2> QED BY <2>1, <2>2, <2>3, <2>4, <2>5 DEF Sender
<1>3. status' \in [Broadcasts -> {None, "draft", "sending", "sent"}]
  BY <1>0 DEF Sender, StartSending, CheckRecipient, BroadcastGoes, BroadcastFails,
     MarkRecipient, MarkRecipientFails, EndSending, SenderFails, TakeRecipient, list
<1>4. slipped' \in SUBSET Customers
  <2>1. slipped \in SUBSET Customers
    BY DEF OutInv, TypeOK
  <2>2. CASE StartSending(b)
    BY <2>1, <2>2 DEF StartSending
  <2>3. CASE BroadcastFails(b) \/ MarkRecipientFails(b)
    <3>1. task[b].step \in {"send", "mark"} /\ (slipped' = slipped \/ slipped' = slipped \cup {Item(b)})
      BY <2>3 DEF BroadcastFails, MarkRecipientFails, At
    <3>2. Item(b) \in Customers
      BY <3>1 DEF OutInv, CastInv
    <3> QED BY <2>1, <3>1, <3>2
  <2>4. CASE ~ (StartSending(b) \/ BroadcastFails(b) \/ MarkRecipientFails(b))
    <3>1. UNCHANGED slipped
      BY <2>4 DEF Sender, CheckRecipient, BroadcastGoes, MarkRecipient, EndSending,
         SenderFails, TakeRecipient, past
    <3> QED BY <2>1, <3>1
  <2> QED BY <2>2, <2>3, <2>4
<1>5. abandoned' \in SUBSET Broadcasts
  <2>1. abandoned \in SUBSET Broadcasts
    BY DEF OutInv, TypeOK
  <2>2. abandoned' = abandoned \/ abandoned' = abandoned \cup {b}
    BY DEF Sender, StartSending, CheckRecipient, BroadcastGoes, BroadcastFails, MarkRecipient,
       MarkRecipientFails, EndSending, SenderFails, TakeRecipient, list
  <2> QED BY <2>1, <2>2
<1>6. TypeOK'
  BY <1>1, <1>2, <1>3, <1>4, <1>5 DEF OutInv, TypeOK, RecipientStatus, marks, reports
<1> QED BY <1>1, <1>2, <1>6, SenderFrame DEF OutInv

-----------------------------------------------------------------------------
(* Everyone else, and the stops of the process.                            *)

\* The trader's customers, members and clock: no task moves.
LEMMA OthersKeep ==
    ASSUME OutInv, Others
    PROVE  OutInv'
<1> USE DEF OutInv
<1>1. UNCHANGED <<task, reminded, count, rows, reports, stops, abandoned, after>>
  BY DEF Others, CloseOrder, CloseSale, IntervalPasses, LogInterest, PlaceOrder,
         ScheduleMessage, CancelScheduled, OptOut, WeekPasses, CreateBroadcast, HoursChange,
         marks, list, past
<1>2. OrdersInv' /\ DebtInv' /\ ReportInv'
  BY <1>1, OrdersFrame, DebtFrame, ReportFrame DEF rows, reports
<1>3. CASE \E o \in Orders : CloseOrder(o)
  <2>1. UNCHANGED <<list, past, scheduled>>
    BY <1>3 DEF CloseOrder
  <2>2. /\ orderState' \in [Orders -> {"inquiry", "closed"}]
        /\ UNCHANGED <<saleState, due, interest, ordered, officeHours>>
    BY <1>3 DEF CloseOrder, TypeOK
  <2>3. TypeOK'
    BY <1>1, <2>1, <2>2 DEF TypeOK, list, rows, reports, past
  <2> QED BY <1>1, <1>2, <2>1, <2>3, CastFrame DEF list, rows, NeverFired
<1>4. CASE \E s \in Sales : CloseSale(s) \/ IntervalPasses(s)
  <2>1. UNCHANGED <<list, past, scheduled>>
    BY <1>4 DEF CloseSale, IntervalPasses
  <2>2. TypeOK'
    BY <1>4 DEF CloseSale, IntervalPasses, TypeOK, list, rows, reports, past
  <2> QED BY <1>1, <1>2, <2>1, <2>2, CastFrame DEF list, rows, NeverFired
<1>5. CASE \E e \in Events : LogInterest(e) \/ PlaceOrder(e)
  <2>1. UNCHANGED <<list, past, scheduled>>
    BY <1>5 DEF LogInterest, PlaceOrder
  <2>2. TypeOK'
    BY <1>5 DEF LogInterest, PlaceOrder, TypeOK, list, rows, reports, past
  <2> QED BY <1>1, <1>2, <2>1, <2>2, CastFrame DEF list, rows, NeverFired
<1>6. CASE \E x \in Scheduled : ScheduleMessage(x) \/ CancelScheduled(x)
  <2>1. UNCHANGED <<marks, list, past, officeHours>>
    BY <1>6 DEF ScheduleMessage, CancelScheduled
  <2>2. PICK x \in Scheduled, st \in {"pending", "cancelled"} :
            scheduled' = [scheduled EXCEPT ![x] = st]
    BY <1>6 DEF ScheduleMessage, CancelScheduled
  <2>3. scheduled' \in [Scheduled -> {None, "pending", "sent", "cancelled"}] /\ NeverFired'
    BY <2>2 DEF TypeOK, NeverFired
  <2>4. TypeOK'
    BY <1>1, <2>1, <2>3 DEF TypeOK, marks, list, rows, reports, past
  <2> QED BY <1>1, <1>2, <2>1, <2>3, <2>4, CastFrame DEF list, rows
<1>7. ASSUME NEW c \in Customers, OptOut(c)
      PROVE  OutInv'
  <2>1. /\ UNCHANGED <<marks, recent, status, recipient, scheduled, officeHours, week, slipped>>
        /\ optedOut' = optedOut \cup {c} /\ c \notin optedOut
        /\ spared' = [spared EXCEPT ![c] = Cardinality(InFlight(c))]
    BY <1>7 DEF OptOut
  <2>2. \A d \in Customers : InFlight(d)' = InFlight(d)
    BY <1>1 DEF InFlight, At, Item
  <2>3. Cardinality(InFlight(c)) \in Nat
    <3>1. InFlight(c) \in SUBSET Broadcasts
      BY DEF InFlight
    <3> QED BY <3>1, FlightsCount
  <2>4. /\ spared' \in [Customers -> Nat] /\ spared'[c] = Cardinality(InFlight(c))
        /\ \A d \in Customers : d # c => spared'[d] = spared[d]
    BY <2>1, <2>3 DEF TypeOK
  <2>5. StopInv'
    <3>1. ASSUME NEW d \in Customers
          PROVE  IF d \in optedOut' THEN after[d] + Cardinality(InFlight(d)) <= spared'[d]
                                    ELSE after[d] = 0
      <4>1. IF d \in optedOut THEN after[d] + Cardinality(InFlight(d)) <= spared[d]
                              ELSE after[d] = 0
        BY DEF StopInv
      <4>2. CASE d = c
        <5>1. after[c] = 0
          BY <2>1, <4>1, <4>2
        <5> QED BY <2>1, <2>3, <2>4, <4>2, <5>1
      <4>3. CASE d # c
        BY <2>1, <2>4, <4>1, <4>3
      <4> QED BY <4>2, <4>3
    <3> QED BY <1>1, <2>2, <3>1 DEF StopInv
  <2>6. CastInv' /\ WeekInv'
    BY <1>1, <2>1 DEF CastInv, WeekInv, Trusted, Sending, At, Item, rows
  <2>7. TypeOK'
    BY <1>1, <2>1, <2>4 DEF TypeOK, marks, rows, reports
  <2> QED BY <1>2, <2>1, <2>5, <2>6, <2>7 DEF NeverFired
<1>8. ASSUME NEW c \in Customers, WeekPasses(c)
      PROVE  OutInv'
  <2>1. /\ UNCHANGED <<marks, optedOut, status, recipient, scheduled, officeHours, spared>>
        /\ Sending = {} /\ recent' = recent \ {c} /\ week' = [week EXCEPT ![c] = 0]
        /\ slipped' = slipped \ {c}
    BY <1>8 DEF WeekPasses
  <2>2. /\ week' \in [Customers -> Nat] /\ week'[c] = 0
        /\ \A d \in Customers : d # c => week'[d] = week[d]
    BY <2>1 DEF TypeOK
  <2>3. CastInv' /\ StopInv'
    BY <1>1, <2>1 DEF CastInv, StopInv, InFlight, At, Item, rows
  <2>4. \A b \in Broadcasts : ~ At(b, "send") /\ ~ At(b, "mark")
    BY <2>1 DEF Sending, At
  <2>5. Sending' = {} /\ \A b \in Broadcasts : ~ At(b, "send")'
    BY <1>1, <2>1, <2>4 DEF Sending, At
  <2>6. WeekInv'
    <3>1. ASSUME NEW d \in Customers \ slipped' PROVE Trusted(d)'
      <4>1. week'[d] = 0 \/ (week'[d] = 1 /\ d \in recent')
        <5>1. CASE d = c
          BY <2>2, <5>1
        <5>2. CASE d # c
          <6>1. Trusted(d)
            BY <2>1, <5>2 DEF WeekInv
          <6> QED BY <2>1, <2>2, <2>4, <5>2, <6>1 DEF Trusted
        <5> QED BY <5>1, <5>2
      <4> QED BY <2>5, <4>1 DEF Trusted
    <3> QED BY <3>1 DEF WeekInv
  <2>7. TypeOK'
    BY <1>1, <2>1, <2>2 DEF TypeOK, marks, rows, reports
  <2> QED BY <1>2, <2>1, <2>3, <2>6, <2>7 DEF NeverFired
<1>9. ASSUME NEW b \in Broadcasts, CreateBroadcast(b)
      PROVE  OutInv'
  <2>1. /\ UNCHANGED <<marks, optedOut, recent, scheduled, officeHours, past>>
        /\ status' = [status EXCEPT ![b] = "draft"]
        /\ recipient' = [recipient EXCEPT ![b] =
                            [c \in Customers |-> IF c \in optedOut THEN None ELSE "pending"]]
    BY <1>9 DEF CreateBroadcast
  <2>2. /\ recipient' \in [Broadcasts -> [Customers -> RecipientStatus]]
        /\ \A a \in Broadcasts, c \in Customers :
              recipient'[a][c] = "sent" => recipient[a][c] = "sent"
    <3>1. recipient \in [Broadcasts -> [Customers -> RecipientStatus]]
      BY DEF TypeOK, RecipientStatus
    <3>2. {None, "pending"} \subseteq RecipientStatus /\ None # "sent"
      BY NoneAssumption DEF RecipientStatus
    <3> QED BY <2>1, <3>1, <3>2
  <2>3. CastInv'
    BY <1>1, <2>2 DEF CastInv, At, Item, rows
  <2>4. StopInv' /\ WeekInv'
    <3>1. StopInv'
      BY <1>1, <2>1 DEF StopInv, InFlight, At, Item, past
    <3>2. WeekInv'
      BY <1>1, <2>1 DEF WeekInv, Trusted, Sending, At, Item, past
    <3> QED BY <3>1, <3>2
  <2>5. TypeOK'
    BY <1>1, <2>1, <2>2 DEF TypeOK, RecipientStatus, marks, rows, reports, past
  <2> QED BY <1>2, <2>1, <2>3, <2>4, <2>5 DEF NeverFired
<1>10. CASE HoursChange
  <2>1. UNCHANGED <<marks, list, past, scheduled>> /\ officeHours' = ~ officeHours
    BY <1>10 DEF HoursChange
  <2>2. officeHours' \in BOOLEAN
    BY <2>1, Zenon DEF TypeOK
  <2>3. TypeOK'
    BY <1>1, <2>1, <2>2 DEF TypeOK, marks, list, rows, reports, past
  <2> QED BY <1>1, <1>2, <2>1, <2>3, CastFrame DEF list, rows, NeverFired
<1> QED BY <1>3, <1>4, <1>5, <1>6, <1>7, <1>8, <1>9, <1>10 DEF Others

\* The process stops: a message that was sent and not marked slips, and a report that was
\* sent and not filed may be sent again.
LEMMA RestartKeeps ==
    ASSUME OutInv, Restart
    PROVE  OutInv'
<1> USE DEF OutInv
<1>1. /\ UNCHANGED <<marks, optedOut, recent, status, recipient, rows, reports, scheduled>>
      /\ UNCHANGED <<officeHours, week, spared, after>>
      /\ stops' = stops + 1
      /\ slipped' = slipped \cup {Item(b) : b \in {x \in Broadcasts : At(x, "mark")}}
      /\ abandoned' = abandoned \cup {b \in Broadcasts : Begins(b) \/ b \in Sending}
  BY DEF Restart
<1>2. task' \in [Tasks -> Task] /\ \A t \in Tasks : task'[t] \in {Off, IdleTask}
  BY Idles DEF Restart
<1>3. \A t \in Tasks : task'[t].step \in {"off", "idle"} /\ task'[t].todo = {}
  BY <1>2, Idles
<1>4. slipped' \in SUBSET Customers /\ abandoned' \in SUBSET Broadcasts
  <2>1. slipped \in SUBSET Customers /\ abandoned \in SUBSET Broadcasts
    BY DEF TypeOK
  <2>2. \A b \in Broadcasts : At(b, "mark") => Item(b) \in Customers
    BY DEF CastInv, At
  <2> QED BY <1>1, <2>1, <2>2
<1>5. /\ stops' \in Nat /\ delivered \in Nat /\ Losses \in Nat /\ Losses' = Losses + 1
  <2>1. stops \in Nat /\ delivered \in Nat /\ unfiled \in Nat
    BY DEF TypeOK
  <2>2. stops' = stops + 1 /\ unfiled' = unfiled
    BY <1>1 DEF reports
  <2> QED BY <2>1, <2>2 DEF Losses
<1>6. TypeOK'
  BY <1>1, <1>2, <1>4, <1>5 DEF TypeOK, marks, rows, reports
<1>7. OrdersInv'
  BY <1>1, <1>3, TaskNames DEF OrdersInv, At, Item, Jobs, marks, rows
<1>8. DebtInv'
  <2>1. /\ task'["debts"].step \in {"off", "idle"} /\ task'["debts"].todo = {}
        /\ task'["by hand"].step \in {"off", "idle"}
    BY <1>3, TaskNames DEF Jobs, Requests
  <2> QED BY <1>1, <2>1 DEF DebtInv, At, Item, marks, rows
<1>9. \A b \in Broadcasts : task'[b].step \in {"off", "idle"}
  BY <1>3, TaskNames
<1>10. CastInv'
  BY <1>1, <1>9 DEF CastInv, At, Item, rows
<1>11. StopInv'
  <2>1. \A c \in Customers : InFlight(c)' = {}
    BY <1>9 DEF InFlight, At
  <2>2. \A c \in Customers : Cardinality(InFlight(c)') = 0
    BY <2>1, FS_EmptySet
  <2>3. \A c \in Customers : Cardinality(InFlight(c)) \in Nat
    <3>1. \A c \in Customers : InFlight(c) \in SUBSET Broadcasts
      BY DEF InFlight
    <3> QED BY <3>1, FlightsCount
  <2>4. ASSUME NEW c \in Customers
        PROVE  IF c \in optedOut THEN after[c] + 0 <= spared[c] ELSE after[c] = 0
    <3>1. IF c \in optedOut THEN after[c] + Cardinality(InFlight(c)) <= spared[c]
                            ELSE after[c] = 0
      BY DEF StopInv
    <3>2. after[c] \in Nat /\ spared[c] \in Nat /\ Cardinality(InFlight(c)) \in Nat
      BY <2>3 DEF TypeOK
    <3> QED BY <3>1, <3>2
  <2> QED BY <1>1, <2>2, <2>4 DEF StopInv
<1>12. WeekInv'
  <2>1. Sending' = {} /\ \A a \in Broadcasts : ~ At(a, "send")'
    BY <1>9 DEF Sending, At
  <2>2. ASSUME NEW c \in Customers \ slipped' PROVE Trusted(c)'
    <3>1. Trusted(c) /\ \A b \in Broadcasts : At(b, "mark") => Item(b) # c
      BY <1>1 DEF WeekInv
    <3> QED BY <1>1, <2>1, <3>1 DEF Trusted
  <2> QED BY <2>2 DEF WeekInv
<1>13. ReportInv'
  <2>1. \A t \in Reporters : task'[t].step \in {"off", "idle"}
    BY <1>3, TaskNames DEF Reporters, Jobs, Requests
  <2>2. delivered <= Losses' /\ delivered <= 1 + Losses'
    BY <1>5 DEF ReportInv
  <2> QED BY <1>1, <2>1, <2>2 DEF ReportInv, Holds, Reported, At, reports
<1>14. NeverFired'
  BY <1>1 DEF NeverFired
<1> QED BY <1>6, <1>7, <1>8, <1>10, <1>11, <1>12, <1>13, <1>14

\* At the start nothing is sent or marked.
LEMMA OutInit == Init => OutInv
<1> SUFFICES ASSUME Init PROVE OutInv
  OBVIOUS
<1>1. task \in [Tasks -> Task] /\ \A t \in Tasks : task[t] \in {Off, IdleTask}
  BY Idles DEF Init
<1>2. \A t \in Tasks : task[t].step \in {"off", "idle"} /\ task[t].todo = {}
  BY <1>1, Idles
<1>3. None \notin {"sent", "failed", "skipped"}
  BY NoneAssumption
<1>4. TypeOK
  BY <1>1, Idles DEF Init, TypeOK
<1>5. OrdersInv
  BY <1>2, TaskNames DEF Init, OrdersInv, At, Item, Jobs
<1>6. DebtInv
  <2>1. /\ task["debts"].step \in {"off", "idle"} /\ task["debts"].todo = {}
        /\ task["by hand"].step \in {"off", "idle"}
    BY <1>2, TaskNames DEF Jobs, Requests
  <2>2. \A s \in Sales : count[s] = 0
    BY DEF Init, Zero
  <2>3. 0 <= MaxReminders /\ \A n \in Nat : ~ n < 0
    BY BoundsAssumption
  <2>4. debtRows = {}
    BY DEF Init
  <2> QED BY <2>1, <2>2, <2>3, <2>4 DEF DebtInv, At
<1>7. \A b \in Broadcasts : task[b].step \in {"off", "idle"}
  BY <1>2, TaskNames
<1>8. CastInv
  BY <1>3, <1>7 DEF Init, CastInv, At
<1>9. StopInv
  BY DEF Init, StopInv
<1>10. WeekInv
  <2>1. Sending = {} /\ \A b \in Broadcasts : ~ At(b, "send")
    BY <1>7 DEF Sending, At
  <2> QED BY <2>1 DEF Init, WeekInv, Trusted
<1>11. ReportInv
  <2>1. \A t \in Reporters : task[t].step \in {"off", "idle"}
    BY <1>2, TaskNames DEF Reporters, Jobs, Requests
  <2>2. report = None /\ delivered = 0 /\ Losses = 0
    BY DEF Init, Losses
  <2> QED BY <1>3, <2>1, <2>2 DEF ReportInv, Holds, Reported, At
<1>12. NeverFired
  BY <1>3 DEF Init, NeverFired
<1> QED BY <1>4, <1>5, <1>6, <1>8, <1>9, <1>10, <1>11, <1>12 DEF OutInv

\* A step that changes nothing keeps the invariant.
LEMMA OutStutters ==
    ASSUME OutInv, UNCHANGED vars
    PROVE  OutInv'
<1>1. UNCHANGED <<marks, list, rows, reports, scheduled, task, officeHours, stops, past>>
  BY DEF vars
<1>2. TypeOK'
  BY <1>1 DEF OutInv, TypeOK, marks, list, rows, reports, past
<1>3. OrdersInv' /\ DebtInv' /\ ReportInv' /\ CastInv' /\ StopInv' /\ WeekInv'
  BY <1>1, OrdersFrame, DebtFrame, ReportFrame, CastFrame DEF OutInv, marks, list, rows, reports
<1> QED BY <1>1, <1>2, <1>3 DEF OutInv, NeverFired

\* The invariant of all the tasks together holds in every state.
LEMMA OutAlways == Spec => []OutInv
<1>1. OutInv /\ [Next]_vars => OutInv'
  <2> SUFFICES ASSUME OutInv, [Next]_vars PROVE OutInv'
    OBVIOUS
  <2>1. CASE OrderJob
    BY <2>1, OrderJobKeeps
  <2>2. CASE DebtJob
    BY <2>2, DebtJobKeeps
  <2>3. CASE FollowupJob \/ MessageJob
    BY <2>3, SideJobsKeep
  <2>4. CASE ReportRun
    BY <2>4, ReportRunKeeps
  <2>5. CASE Others
    BY <2>5, OthersKeep
  <2>6. CASE Restart
    BY <2>6, RestartKeeps
  <2>7. CASE \E b \in Broadcasts : Sender(b)
    BY <2>7, SenderKeeps
  <2>8. CASE UNCHANGED vars
    BY <2>8, OutStutters
  <2> QED BY <2>1, <2>2, <2>3, <2>4, <2>5, <2>6, <2>7, <2>8 DEF Next
<1> QED BY <1>1, OutInit, PTL DEF Spec

\* What is marked as sent was sent, wherever the process stops between the two
\* transactions: a marked order or recipient has its notification row, and a sale without
\* a conversation has one row for each reminder that it counts, at most one more, and
\* never more than max_reminders (_send_order_reminders, _send_debt_reminders,
\* CreditSaleService.send_reminder, send_broadcast_paced, _fire_due_messages).
THEOREM SentBeforeMarked == Spec => []MarkedWasSent
<1>1. OutInv => MarkedWasSent
  <2> SUFFICES ASSUME OutInv PROVE MarkedWasSent
    OBVIOUS
  <2>1. ASSUME NEW s \in Sales \ Linked
        PROVE  LET sent == {n \in 0..MaxReminders : <<s, n>> \in debtRows} IN
                  sent = 0..count[s] - 1 \/ sent = 0..count[s]
    <3> DEFINE sent == {n \in 0..MaxReminders : <<s, n>> \in debtRows}
    <3>1. count[s] \in Nat /\ count[s] <= MaxReminders /\ MaxReminders \in Nat
      BY BoundsAssumption DEF OutInv, TypeOK, DebtInv
    <3>2. \A n \in Nat : /\ n < count[s] => <<s, n>> \in debtRows
                         /\ <<s, n>> \in debtRows => n <= count[s]
      BY DEF OutInv, DebtInv
    <3>3. CASE <<s, count[s]>> \in debtRows
      <4>1. \A n \in Nat : <<s, n>> \in debtRows <=> n <= count[s]
        BY <3>1, <3>2, <3>3
      <4> QED BY <3>1, <4>1
    <3>4. CASE <<s, count[s]>> \notin debtRows
      <4>1. \A n \in Nat : <<s, n>> \in debtRows <=> n < count[s]
        BY <3>1, <3>2, <3>4
      <4> QED BY <3>1, <4>1
    <3> QED BY <3>3, <3>4
  <2> QED BY <2>1 DEF OutInv, OrdersInv, DebtInv, CastInv, NeverFired, MarkedWasSent
<1> QED BY <1>1, OutAlways, PTL

\* After STOP only the messages reach a customer that were past the sender's check at that
\* moment, and she gets one broadcast in seven days unless senders overlap or, after a
\* message to her, her last_broadcast_at is not written: for a timeout, a failed transaction
\* or a stop (send_broadcast_paced, opt_out, last_broadcast_at).
THEOREM BroadcastsAreLimited == Spec => []BroadcastLimits
<1>1. OutInv => BroadcastLimits
  <2> SUFFICES ASSUME OutInv PROVE BroadcastLimits
    OBVIOUS
  <2>1. OnlyTheOnesInFlight
    <3>1. ASSUME NEW c \in Customers PROVE after[c] <= spared[c]
      <4>1. InFlight(c) \in SUBSET Broadcasts
        BY DEF InFlight
      <4>2. Cardinality(InFlight(c)) \in Nat /\ after[c] \in Nat /\ spared[c] \in Nat
        BY <4>1, FlightsCount DEF OutInv, TypeOK
      <4>3. IF c \in optedOut THEN after[c] + Cardinality(InFlight(c)) <= spared[c]
                              ELSE after[c] = 0
        BY DEF OutInv, StopInv
      <4> QED BY <4>2, <4>3
    <3> QED BY <3>1 DEF OnlyTheOnesInFlight
  <2>2. OneBroadcastAWeek
    <3>1. \A c \in Customers \ slipped : week[c] \in {0, 1}
      BY DEF OutInv, WeekInv, Trusted
    <3>2. \A n \in {0, 1} : n <= 1
      OBVIOUS
    <3> QED BY <3>1, <3>2 DEF OneBroadcastAWeek
  <2> QED BY <2>1, <2>2 DEF OutInv, BroadcastLimits
<1> QED BY <1>1, OutAlways, PTL

\* The weekly report reaches the owner once, and once more at most for each stop of the
\* process and each failed commit after the message, however the job and the trigger
\* endpoint overlap; one that is filed as sent did reach her (run_weekly).
THEOREM ReportGoesOutOnce == Spec => []ReportedOnce
<1>1. OutInv => ReportedOnce
  <2> SUFFICES ASSUME OutInv PROVE ReportedOnce
    OBVIOUS
  <2>1. delivered \in Nat /\ stops \in Nat /\ unfiled \in Nat
    BY DEF OutInv, TypeOK
  <2>2. delivered <= 1 + (stops + unfiled) /\ (report = "sent" => delivered > 0)
    BY DEF OutInv, ReportInv, Losses
  <2> QED BY <2>1, <2>2 DEF ReportedOnce
<1> QED BY <1>1, OutAlways, PTL
=============================================================================
