----------------------------- MODULE Onboarding -----------------------------
(***************************************************************************)
(* OnboardingService for one phone number: the state machine in Redis that *)
(* takes a trader from the first message to a store, driven by the         *)
(* messages of the conversation.message_saved listener, one at a time.     *)
(* _advance stores the new step together with the prompt it is about to    *)
(* send, and stores it again without the prompt once the send succeeded;   *)
(* handle resends a prompt it finds and interprets nothing.  Every await   *)
(* between a read and a write is a step of its own, so that a sign-up on   *)
(* the web or a crash can come in between.                                 *)
(***************************************************************************)
EXTENDS Naturals

CONSTANT
    Items           \* number of catalogue items of a listed category

VARIABLES
    step,           \* the step in Redis, or NoStep
    pending,        \* does the state carry _pending_prompt?
    category,       \* "none", "listed" or "other", as stored
    otherDesc,      \* _awaiting_other_desc
    qaIndex,        \* qa_index
    task,           \* where the listener's handler stands
    trader,         \* is there a trader row of the phone number?
    shown           \* the prompt the trader was sent last

state == <<step, category, otherDesc, qaIndex>>
vars == <<step, pending, category, otherDesc, qaIndex, task, trader, shown>>

NoStep == "none"
OnboardingStep == {"name", "category", "catalogue", "photo", "voice", "qa"}

ASSUME ItemsAssumption == Items \in Nat \ {0}

\* A message as the step handlers tell messages apart.
Messages == {"trigger", "short", "text", "1", "2", "3", "4", "7", "back",
             "done", "image", "audio"}

\* catalogue_templates.get_items.
ItemCount == IF category = "listed" THEN Items ELSE 0

\* The question that the state asks.
Prompt == <<step, otherDesc, qaIndex>>

Init ==
    /\ step = NoStep
    /\ pending = FALSE
    /\ category = "none"
    /\ otherDesc = FALSE
    /\ qaIndex = 0
    /\ task = "idle"
    /\ trader = FALSE
    /\ shown = <<NoStep, FALSE, 0>>

-----------------------------------------------------------------------------
(* The steps of a handler.                                                 *)

\* handle reads the trader row: a trader is handed to the order handler.
ReadTrader ==
    /\ task = "idle"
    /\ ~ trader
    /\ task' = "reading"
    /\ UNCHANGED <<state, pending, trader, shown>>

\* The message is interpreted; the state is as read and no prompt is pending.
Interprets == task = "reading" /\ ~ pending

\* The handler ends without a change of the state: an informational _reply, whose
\* failure is logged, may go out.
Done == task' = "idle" /\ UNCHANGED <<state, pending, trader, shown>>

\* The handler raises before it stores anything: the listener logs it, and the state
\* stays as it was.
Raise == Done

\* _advance: the first set_state; the send follows.
Advance(s, cat, desc, index) ==
    /\ step' = s
    /\ category' = cat
    /\ otherDesc' = desc
    /\ qaIndex' = index
    /\ pending' = TRUE
    /\ task' = "sending"
    /\ UNCHANGED <<trader, shown>>

\* _reply reports that the prompt went out.
Deliver ==
    /\ task = "sending"
    /\ shown' = Prompt
    /\ task' = "sent"
    /\ UNCHANGED <<state, pending, trader>>

\* Mutant: a failed send clears the prompt as well.
DeliverFailsCleaned ==
    /\ task = "sending"
    /\ task' = "idle"
    /\ pending' = FALSE
    /\ UNCHANGED <<state, trader, shown>>

\* _reply reports a failure: the prompt stays pending.
DeliverFails ==
    /\ task = "sending"
    /\ task' = "idle"
    /\ UNCHANGED <<state, pending, trader, shown>>

\* The second set_state, without the prompt.
StoreClean ==
    /\ task = "sent"
    /\ pending' = FALSE
    /\ task' = "idle"
    /\ UNCHANGED <<state, trader, shown>>

-----------------------------------------------------------------------------
(* The handlers of the steps.                                              *)

\* handle finds _pending_prompt and sends it again.
ResendPending ==
    /\ task = "reading"
    /\ pending
    /\ task' = "sending"
    /\ UNCHANGED <<state, pending, trader, shown>>

\* handle without a state: a trigger or a referral code starts the flow.
Start(msg) ==
    /\ Interprets /\ step = NoStep
    /\ IF msg = "trigger" THEN Advance("name", "none", FALSE, 0) ELSE Done

\* A name of one character is refused.
HandleName(msg) ==
    /\ Interprets /\ step = "name"
    /\ IF msg \in {"short", "1", "2", "3", "4", "7"} THEN Done
       ELSE Advance("category", category, otherDesc, qaIndex)

\* "7" is other, and the next message describes it.
HandleCategory(msg) ==
    /\ Interprets /\ step = "category"
    /\ CASE otherDesc                    -> Advance("catalogue", category, FALSE, qaIndex)
         [] ~ otherDesc /\ msg = "7"     -> Advance("category", "other", TRUE, qaIndex)
         [] ~ otherDesc /\ msg \in {"1", "2", "3", "4"} ->
                Advance("catalogue", "listed", FALSE, qaIndex)
         [] OTHER                        -> Done

\* _complete: with a trader row (written on the web since the handler read it) the
\* state is cleared.  Without one the function evaluates the undefined name
\* `state`, and the transaction rolls back.
Complete ==
    IF trader
    THEN /\ step' = NoStep
         /\ category' = "none"
         /\ otherDesc' = FALSE
         /\ qaIndex' = 0
         /\ pending' = FALSE
         /\ task' = "idle"
         /\ UNCHANGED <<trader, shown>>
    ELSE Raise

\* _start_qa: a category without items has no questions.
StartQa == IF ItemCount = 0 THEN Complete ELSE Advance("qa", category, FALSE, 0)

\* _handle_catalogue_choice: the four paths, and back to the menu.
CatalogueChoice(msg) ==
    CASE msg = "1"    -> Advance("photo", category, FALSE, qaIndex)
      [] msg = "2"    -> Advance("voice", category, FALSE, qaIndex)
      [] msg = "3"    -> StartQa
      [] msg = "4"    -> Complete
      [] msg = "back" -> Advance("catalogue", category, FALSE, qaIndex)
      [] OTHER        -> Done

\* The catalogue menu was shown.
HandleCatalogueChoice(msg) == Interprets /\ step = "catalogue" /\ CatalogueChoice(msg)

\* _handle_photo and _handle_voice: a choice switches the path; the expected medium
\* is processed, which yields no products (any failure included) or some.  With
\* products _send_extracted_product_list imports a name that the session module
\* does not define, and raises before the state is stored.
HandleMedia(msg, expected) ==
    /\ Interprets /\ step = expected
    /\ CASE msg \in {"1", "2", "3", "4", "back"} -> CatalogueChoice(msg)
         [] msg = (IF expected = "photo" THEN "image" ELSE "audio") ->
               \/ Advance("catalogue", category, FALSE, qaIndex)
               \/ Raise
         [] OTHER -> Done

\* Mutant: the last question is asked again.
HandleQaBeyond(msg) ==
    /\ Interprets /\ step = "qa"
    /\ IF msg = "done" \/ qaIndex + 1 > ItemCount THEN Complete
       ELSE Advance("qa", category, FALSE, qaIndex + 1)

\* _handle_qa: done early, the last item answered, or the next question.
HandleQa(msg) ==
    /\ Interprets /\ step = "qa"
    /\ IF msg = "done" \/ qaIndex + 1 >= ItemCount THEN Complete
       ELSE Advance("qa", category, FALSE, qaIndex + 1)

-----------------------------------------------------------------------------
\* The trader signs up on the web.
SignUp ==
    /\ ~ trader
    /\ trader' = TRUE
    /\ UNCHANGED <<state, pending, task, shown>>

\* The TTL of seven days runs out while nobody writes.
Expire ==
    /\ task = "idle"
    /\ step # NoStep
    /\ step' = NoStep
    /\ category' = "none"
    /\ otherDesc' = FALSE
    /\ qaIndex' = 0
    /\ pending' = FALSE
    /\ UNCHANGED <<task, trader, shown>>

\* The process dies, or Redis or the database fails, between two awaits.
Crash ==
    /\ task # "idle"
    /\ task' = "idle"
    /\ UNCHANGED <<state, pending, trader, shown>>

-----------------------------------------------------------------------------
Handle(msg) ==
    \/ Start(msg)
    \/ HandleName(msg)
    \/ HandleCategory(msg)
    \/ HandleCatalogueChoice(msg)
    \/ HandleMedia(msg, "photo")
    \/ HandleMedia(msg, "voice")
    \/ HandleQa(msg)

Next ==
    \/ ReadTrader
    \/ ResendPending
    \/ \E msg \in Messages : Handle(msg)
    \/ Deliver
    \/ DeliverFails
    \/ StoreClean
    \/ SignUp
    \/ Expire
    \/ Crash

Spec == Init /\ [][Next]_vars

-----------------------------------------------------------------------------
(* Properties.                                                             *)

\* Every variable of the flow has its type.
TypeOK ==
    /\ step \in OnboardingStep \cup {NoStep}
    /\ pending \in BOOLEAN
    /\ category \in {"none", "listed", "other"}
    /\ otherDesc \in BOOLEAN
    /\ qaIndex \in Nat
    /\ task \in {"idle", "reading", "sending", "sent"}
    /\ trader \in BOOLEAN
    /\ shown \in (OnboardingStep \cup {NoStep}) \X BOOLEAN \X Nat

\* _advance and handle: through lost sends, crashes and expiry, a message is taken
\* as the answer to a question only if the trader was sent that very question,
\* the item of a price question included.
AnswerFollowsQuestion ==
    Interprets /\ step # NoStep => shown = Prompt

\* _handle_qa reads items[qa_index]: there is always such an item.
QuestionHasItem == step = "qa" => qaIndex < ItemCount

\* What the handler's place says about the state: a prompt is pending while it is
\* sent, and a state without a pending prompt is one whose prompt went out.
PromptInv ==
    /\ step = NoStep => ~ pending
    /\ step # NoStep /\ ~ pending => shown = Prompt
    /\ task \in {"sending", "sent"} => pending
    /\ task = "sent" => shown = Prompt

\* The inductive invariant of the flow.
IInv == TypeOK /\ PromptInv /\ QuestionHasItem
=============================================================================
