------------------------- MODULE Onboarding_Proofs -------------------------
(***************************************************************************)
(* Proofs about Onboarding, for every number of catalogue items, and about *)
(* TraderAccounts, for every finite set of requests, any traders, customers*)
(* and tenants, and every limit.                                           *)
(***************************************************************************)
EXTENDS Onboarding, TraderAccounts, FiniteSetTheorems, TLAPS

\* A handler that ends without a change keeps the invariant.
LEMMA DoneStep == ASSUME IInv, task = "reading", Done PROVE IInv'
  BY DEF Done, IInv, TypeOK, PromptInv, QuestionHasItem, state, Prompt, ItemCount

\* _advance: the prompt is pending when the new step is stored.
LEMMA AdvanceStep ==
    ASSUME IInv, NEW s \in OnboardingStep, NEW cat \in {"none", "listed", "other"},
           NEW desc \in BOOLEAN, NEW index \in Nat,
           s = "qa" => cat = "listed" /\ index < Items,
           Advance(s, cat, desc, index)
    PROVE  IInv'
<1>1. TypeOK'
  BY DEF Advance, IInv, TypeOK
<1>2. PromptInv'
  BY DEF Advance, PromptInv, OnboardingStep, NoStep
<1>3. QuestionHasItem'
  BY DEF Advance, QuestionHasItem, ItemCount
<1> QED BY <1>1, <1>2, <1>3 DEF IInv

\* A cleared state, by clear_state or the TTL.
LEMMA ClearStep ==
    ASSUME IInv, step' = NoStep, category' = "none", otherDesc' = FALSE, qaIndex' = 0,
           pending' = FALSE, task' = "idle", UNCHANGED <<trader, shown>>
    PROVE  IInv'
<1>1. TypeOK'
  <2>1. step' \in OnboardingStep \cup {NoStep} /\ category' \in {"none", "listed", "other"}
    OBVIOUS
  <2>2. pending' \in BOOLEAN /\ otherDesc' \in BOOLEAN /\ qaIndex' \in Nat
    OBVIOUS
  <2>3. task' \in {"idle", "reading", "sending", "sent"}
    OBVIOUS
  <2>4. trader' = trader /\ shown' = shown
    OBVIOUS
  <2> QED BY <2>1, <2>2, <2>3, <2>4 DEF IInv, TypeOK
<1>2. PromptInv' /\ QuestionHasItem'
  BY DEF PromptInv, QuestionHasItem, NoStep
<1> QED BY <1>1, <1>2 DEF IInv

\* _complete clears the state or raises.
LEMMA CompleteStep ==
    ASSUME IInv, task = "reading", Complete
    PROVE  IInv'
<1>1. CASE trader
  BY <1>1, ClearStep DEF Complete
<1>2. CASE ~ trader
  BY <1>2, DoneStep DEF Complete, Raise
<1> QED BY <1>1, <1>2

\* A choice on the catalogue menu, also made while a photo or a voice note is due.
LEMMA ChoiceStep ==
    ASSUME IInv, task = "reading", NEW msg, CatalogueChoice(msg)
    PROVE  IInv'
<1>1. category \in {"none", "listed", "other"} /\ qaIndex \in Nat
  BY DEF IInv, TypeOK
<1>2. CASE msg \in {"1", "2", "back"}
  BY <1>1, <1>2, AdvanceStep DEF CatalogueChoice, OnboardingStep
<1>3. CASE msg = "3"
  <2>1. CASE ItemCount = 0
    BY <1>3, <2>1, CompleteStep DEF CatalogueChoice, StartQa
  <2>2. CASE ItemCount # 0
    <3>1. category = "listed" /\ 0 < Items
      BY <2>2, ItemsAssumption DEF ItemCount
    <3>2. Advance("qa", category, FALSE, 0)
      BY <1>3, <2>2 DEF CatalogueChoice, StartQa
    <3> QED BY <1>1, <3>1, <3>2, AdvanceStep DEF OnboardingStep
  <2> QED BY <2>1, <2>2
<1>4. CASE msg = "4"
  BY <1>4, CompleteStep DEF CatalogueChoice
<1>5. CASE msg \notin {"1", "2", "3", "4", "back"}
  BY <1>5, DoneStep DEF CatalogueChoice
<1> QED BY <1>2, <1>3, <1>4, <1>5

\* Every step of the flow keeps the invariant.
LEMMA InvStep == IInv /\ [Next]_vars => IInv'
<1> SUFFICES ASSUME IInv, [Next]_vars
             PROVE  IInv'
  OBVIOUS
<1>0. category \in {"none", "listed", "other"} /\ qaIndex \in Nat /\ otherDesc \in BOOLEAN
  BY DEF IInv, TypeOK
<1>1. CASE ReadTrader \/ ResendPending \/ Deliver \/ DeliverFails \/ StoreClean
  <2>1. UNCHANGED state
    BY <1>1 DEF ReadTrader, ResendPending, Deliver, DeliverFails, StoreClean
  <2>2. Prompt' = Prompt /\ ItemCount' = ItemCount /\ step' = step /\ qaIndex' = qaIndex
    BY <2>1 DEF state, Prompt, ItemCount
  <2>3. TypeOK'
    <3>1. /\ step' \in OnboardingStep \cup {NoStep} /\ category' \in {"none", "listed", "other"}
          /\ otherDesc' \in BOOLEAN /\ qaIndex' \in Nat
      BY <2>1 DEF IInv, TypeOK, state
    <3>2. trader' = trader
      BY <1>1 DEF ReadTrader, ResendPending, Deliver, DeliverFails, StoreClean
    <3>3. task' \in {"idle", "reading", "sending", "sent"}
      BY <1>1 DEF ReadTrader, ResendPending, Deliver, DeliverFails, StoreClean
    <3>4. pending' \in BOOLEAN
      <4>1. pending' = pending \/ pending' = FALSE
        BY <1>1 DEF ReadTrader, ResendPending, Deliver, DeliverFails, StoreClean
      <4>2. pending \in BOOLEAN
        BY DEF IInv, TypeOK
      <4> QED BY <4>1, <4>2
    <3>5. shown' \in (OnboardingStep \cup {NoStep}) \X BOOLEAN \X Nat
      <4>1. shown' = shown \/ shown' = Prompt
        BY <1>1 DEF ReadTrader, ResendPending, Deliver, DeliverFails, StoreClean
      <4>2. Prompt \in (OnboardingStep \cup {NoStep}) \X BOOLEAN \X Nat
        BY DEF IInv, TypeOK, Prompt
      <4> QED BY <4>1, <4>2 DEF IInv, TypeOK
    <3> QED BY <3>1, <3>2, <3>3, <3>4, <3>5 DEF IInv, TypeOK
  <2>4. PromptInv'
    BY <1>1, <2>2 DEF ReadTrader, ResendPending, Deliver, DeliverFails, StoreClean, IInv,
                      PromptInv
  <2> QED BY <2>2, <2>3, <2>4 DEF IInv, QuestionHasItem
<1>2. ASSUME NEW msg \in Messages, Handle(msg)
      PROVE  IInv'
  <2>0. task = "reading"
    BY <1>2 DEF Handle, Start, HandleName, HandleCategory, HandleCatalogueChoice,
                HandleMedia, HandleQa, Interprets
  <2>1. CASE Start(msg)
    BY <2>0, <2>1, AdvanceStep, DoneStep DEF Start, OnboardingStep
  <2>2. CASE HandleName(msg)
    BY <1>0, <2>0, <2>2, AdvanceStep, DoneStep DEF HandleName, OnboardingStep
  <2>3. CASE HandleCategory(msg)
    <3>1. \/ Advance("catalogue", category, FALSE, qaIndex)
          \/ Advance("category", "other", TRUE, qaIndex)
          \/ Advance("catalogue", "listed", FALSE, qaIndex)
          \/ Done
      BY <2>3 DEF HandleCategory
    <3> QED BY <1>0, <2>0, <3>1, AdvanceStep, DoneStep DEF OnboardingStep
  <2>4. CASE HandleCatalogueChoice(msg)
    BY <2>0, <2>4, ChoiceStep DEF HandleCatalogueChoice
  <2>5. ASSUME NEW medium \in {"photo", "voice"}, HandleMedia(msg, medium)
        PROVE  IInv'
    <3>1. CASE CatalogueChoice(msg)
      BY <2>0, <3>1, ChoiceStep
    <3>2. CASE Advance("catalogue", category, FALSE, qaIndex)
      BY <1>0, <3>2, AdvanceStep DEF OnboardingStep
    <3>3. CASE Raise
      BY <2>0, <3>3, DoneStep DEF Raise
    <3>4. CASE Done
      BY <2>0, <3>4, DoneStep
    <3> QED BY <2>5, <3>1, <3>2, <3>3, <3>4 DEF HandleMedia
  <2>6. CASE HandleQa(msg)
    <3>1. CASE Complete
      BY <2>0, <3>1, CompleteStep
    <3>2. CASE qaIndex + 1 < ItemCount /\ Advance("qa", category, FALSE, qaIndex + 1)
      <4>1. category = "listed" /\ qaIndex + 1 < Items
        BY <1>0, <3>2 DEF ItemCount
      <4>2. qaIndex + 1 \in Nat /\ "qa" \in OnboardingStep /\ FALSE \in BOOLEAN
        BY <1>0 DEF OnboardingStep
      <4>3. Advance("qa", category, FALSE, qaIndex + 1)
        BY <3>2
      <4> QED BY <1>0, <4>1, <4>2, <4>3, AdvanceStep
    <3>3. ItemCount \in Nat
      BY ItemsAssumption DEF ItemCount
    <3>4. CASE qaIndex + 1 < ItemCount
      BY <1>0, <2>6, <3>1, <3>2, <3>4 DEF HandleQa
    <3>5. CASE qaIndex + 1 >= ItemCount
      BY <2>6, <3>1, <3>5 DEF HandleQa
    <3> QED BY <1>0, <3>3, <3>4, <3>5
  <2> QED BY <1>2, <2>1, <2>2, <2>3, <2>4, <2>5, <2>6 DEF Handle
<1>3. CASE SignUp \/ Crash
  <2>1. /\ step' = step /\ category' = category /\ otherDesc' = otherDesc
        /\ qaIndex' = qaIndex /\ pending' = pending /\ shown' = shown
    BY <1>3 DEF SignUp, Crash, state
  <2>2. trader' \in BOOLEAN
    BY <1>3 DEF SignUp, Crash, IInv, TypeOK
  <2>3. task' = task \/ task' = "idle"
    BY <1>3 DEF SignUp, Crash
  <2>4. TypeOK'
    BY <2>1, <2>2, <2>3 DEF IInv, TypeOK
  <2>5. PromptInv' /\ QuestionHasItem'
    BY <2>1, <2>3 DEF IInv, PromptInv, QuestionHasItem, Prompt, ItemCount
  <2> QED BY <2>4, <2>5 DEF IInv
<1>4. CASE Expire
  BY <1>4, ClearStep DEF Expire
<1>5. CASE UNCHANGED vars
  BY <1>5 DEF vars, IInv, TypeOK, PromptInv, QuestionHasItem, Prompt, ItemCount
<1> QED BY <1>1, <1>2, <1>3, <1>4, <1>5 DEF Next

\* The invariant of the flow: a stored step without a pending prompt is one whose
\* prompt went out.
THEOREM Invariance == Spec => []IInv
<1>1. Init => IInv
  <2> SUFFICES ASSUME Init PROVE IInv
    OBVIOUS
  <2>1. shown \in (OnboardingStep \cup {NoStep}) \X BOOLEAN \X Nat
    BY DEF Init
  <2>2. TypeOK
    BY <2>1 DEF Init, TypeOK
  <2>3. PromptInv /\ QuestionHasItem
    BY DEF Init, PromptInv, QuestionHasItem, NoStep
  <2> QED BY <2>2, <2>3 DEF IInv
<1> QED BY <1>1, InvStep, PTL DEF Spec

\* No message is taken as an answer to a question that did not reach the trader,
\* through lost sends, crashes and expiry.
THEOREM AnswersFollowQuestions == Spec => []AnswerFollowsQuestion
<1>1. IInv => AnswerFollowsQuestion
  BY DEF IInv, PromptInv, AnswerFollowsQuestion, Interprets
<1> QED BY <1>1, Invariance, PTL

\* items[qa_index] of _handle_qa is never out of range.
THEOREM QuestionsHaveItems == Spec => []QuestionHasItem
<1>1. IInv => QuestionHasItem
  BY DEF IInv
<1> QED BY <1>1, Invariance, PTL

\* Type correctness of the flow, for every catalogue size.
THEOREM TypeCorrect == Spec => []TypeOK
<1>1. IInv => TypeOK
  BY DEF IInv
<1> QED BY <1>1, Invariance, PTL

-----------------------------------------------------------------------------
(* Whose store is this: what holds of the logins, the codes, the caches    *)
(* and the orders.                                                         *)

\* A job has looked up what its next step works with.
JobInv ==
    /\ job.step # "idle" => job.from # None
    /\ job.step \in {"slug", "slug read", "take", "upsert", "session", "tenant", "tenant read",
                     "stored", "file"} => job.from \in Customers
    /\ job.step \in {"phone", "phone read", "command", "slug", "slug read", "take", "upsert", "file"}
          => job.store \in Traders
    /\ job.step \in {"slug", "slug read", "take"} => job.via \in {"cart", "route"}
    /\ job.step = "upsert" => job.via = "cart"
    /\ job.step = "file" => job.via \in Vias
    /\ job.step \in {"upsert", "file"} => job.got \in Tenants \cup {Platform}

\* A trader has an account if and only if her row has a tenant of her own, and a first
\* login that holds its INSERT is the only one.
LoginInv ==
    /\ \A u \in users :
          /\ row[u[1]] = u[2]
          /\ \A v \in users : v[1] = u[1] => v = u
    /\ \A t \in Traders : row[t] \in Tenants => HasAccount(t)
    /\ \A r \in Requests : req[r].step # "idle" => req[r].who \in Traders /\ r \in world.requests
    /\ \A r \in Requests : req[r].step = "insert" => row[req[r].who] # Absent
    /\ \A r \in Requests : req[r].step \in Inserted =>
          /\ req[r].tenant \in Tenants /\ row[req[r].who] # Absent /\ ~ HasAccount(req[r].who)
    /\ \A q, r \in Requests :
          req[q].step \in Inserted /\ req[r].step \in Inserted /\ req[q].who = req[r].who => q = r

\* Past the limit and not counted yet, and counted and not sent yet.
Passed(t) == {r \in Requests : req[r].who = t /\ req[r].step \in {"set", "count"}}
Counted(t) == {r \in Requests : req[r].who = t /\ req[r].step \in {"expire", "send"}}

\* Whoever passes the limit saw a counter below it; whatever is sent was counted in this
\* window or is one of the requests that were under way when it began.
CodesInv ==
    \A t \in Traders :
        /\ attempts[t] + Cardinality(Passed(t)) <= Limit + Cardinality(world.requests) - 1
        /\ issued[t] + Cardinality(Counted(t)) <= attempts[t] + Cardinality(world.requests)

\* As long as nobody else has worked with a trader's row: one request at most writes it, and
\* the listener rests meanwhile.
QuietInv ==
    \A t \in Traders \ exposed :
        /\ \A q, r \in WritersOf(t) : q = r
        /\ WritersOf(t) # {} => job.step = "idle"
        /\ \A r \in WritersOf(t) : req[r].step = "cache" => row[t] = NoTenant

\* Then what is cached of her is her row, but for what a writer is about to replace; the
\* store link of a trader who signed up may still be cached as nobody's.
CacheInv ==
    \A t \in Traders \ exposed :
        /\ (\A r \in WritersOf(t) : req[r].step # "cache") => phoneCache[t] \in {Miss, Cached(row[t])}
        /\ slugCache[t] \in Tenants \cup {Platform} => slugCache[t] = row[t]
        /\ tenantCache = t => row[t] = Platform
        /\ \A r \in WritersOf(t) : req[r].step = "commit" =>
              phoneCache[t] = Miss /\ slugCache[t] = Miss /\ tenantCache # t

\* Then what a job has looked up of her is her row.
LookInv ==
    job.store \in Traders \ exposed =>
        /\ job.step \in {"phone read", "command"} => job.got = Cached(row[job.store])
        /\ job.step \in {"slug read", "take"} /\ job.got \in Tenants \cup {Platform} =>
              job.got = row[job.store]
        /\ job.step \in {"upsert", "file"} /\ job.via # "session" => job.got = row[job.store]
        /\ job.step = "tenant read" => row[job.store] = Platform

\* Then her orders are where her row says, and a first login moves all of them.
OrdersInv ==
    /\ IsFiniteSet(orders)
    /\ \A o \in orders : o.id \in 1..Cardinality(orders)
    /\ \A o, p \in orders : o.id = p.id => o = p
    /\ \A o \in orders : o.store \in exposed \/ o.via = "session" \/ o.tenant = row[o.store]
    /\ \A r \in Requests : req[r].step \in {"bust", "commit"} =>
          /\ req[r].moves \subseteq 1..Cardinality(orders)
          /\ \A o \in orders : o.id \in req[r].moves => o.store = req[r].who
          /\ \A o \in orders :
                o.store = req[r].who /\ o.store \notin exposed /\ o.via # "session" =>
                   o.id \in req[r].moves

AccountsInv ==
    /\ AccountsTypeOK /\ JobInv /\ LoginInv /\ CodesInv /\ QuietInv /\ CacheInv /\ LookInv
    /\ OrdersInv

-----------------------------------------------------------------------------
(* Steps.                                                                  *)

ReqSteps == {"idle", "sign up", "cache", "limit", "set", "count", "expire", "send",
             "match", "delete", "find", "insert", "migrate", "bust", "commit"}

\* A request and its fields.
LEMMA RequestFields ==
    ASSUME NEW q \in Request
    PROVE  /\ q.step \in ReqSteps /\ q.who \in Traders \cup {None} /\ q.code \in Nat
           /\ q.tenant \in Tenants \cup {None} /\ q.moves \in SUBSET Nat
           /\ \A s \in ReqSteps : [q EXCEPT !.step = s] \in Request
  BY DEF Request, ReqSteps

\* A request that only goes on to its next step.
LEMMA GoesOn ==
    ASSUME AccountsTypeOK, NEW r \in Requests, NEW s \in ReqSteps, To(r, s)
    PROVE  /\ req' \in [Requests -> Request]
           /\ \A q \in Requests \ {r} : req'[q] = req[q]
           /\ req'[r].step = s /\ req'[r].who = req[r].who /\ req'[r].tenant = req[r].tenant
           /\ req'[r].moves = req[r].moves
<1>1. req \in [Requests -> Request]
  BY DEF AccountsTypeOK
<1>2. req' = [req EXCEPT ![r] = [req[r] EXCEPT !.step = s]]
  BY <1>1 DEF To
<1>3. req[r] \in Request
  BY <1>1
<1>4. [req[r] EXCEPT !.step = s] \in Request
  BY <1>3, RequestFields
<1>5. req'[r] = [req[r] EXCEPT !.step = s]
  BY <1>1, <1>2
<1>6. req'[r].step = s /\ req'[r].who = req[r].who /\ req'[r].tenant = req[r].tenant
      /\ req'[r].moves = req[r].moves
  BY <1>3, <1>5 DEF Request
<1> QED BY <1>1, <1>2, <1>4, <1>6

\* A request that has ended.
LEMMA IsOver ==
    ASSUME AccountsTypeOK, NEW r \in Requests, End(r)
    PROVE  /\ req' \in [Requests -> Request]
           /\ \A q \in Requests \ {r} : req'[q] = req[q]
           /\ req'[r].step = "idle"
<1>1. Free \in Request
  BY DEF Free, Request
<1>2. req \in [Requests -> Request]
  BY DEF AccountsTypeOK
<1> QED BY <1>1, <1>2 DEF End, Free

\* A request that begins.
LEMMA Begins ==
    ASSUME AccountsTypeOK, NEW r \in Requests, NEW t \in Traders, NEW s \in ReqSteps,
           NEW code \in Nat, Open(r, t, s, code)
    PROVE  /\ req' \in [Requests -> Request]
           /\ \A q \in Requests \ {r} : req'[q] = req[q]
           /\ req'[r].step = s /\ req'[r].who = t /\ req'[r].tenant = None
           /\ req[r].step = "idle"
<1> DEFINE new == [Free EXCEPT !.step = s, !.who = t, !.code = code]
<1>1. new \in Request
  BY DEF Free, Request, ReqSteps
<1>2. new.step = s /\ new.who = t /\ new.tenant = None
  BY DEF Free
<1>3. req \in [Requests -> Request] /\ req' = [req EXCEPT ![r] = new] /\ req[r].step = "idle"
  BY DEF AccountsTypeOK, Open
<1> HIDE DEF new
<1> QED BY <1>1, <1>2, <1>3

\* The named values are different from each other.
LEMMA NamesDiffer ==
    /\ Absent \notin Owned /\ Nobody \notin Owned /\ Miss \notin Owned
    /\ NoTenant \notin Tenants /\ Platform \notin Tenants /\ NoTenant # Platform
    /\ Nobody # Miss /\ None \notin Traders /\ Nobody \notin Traders /\ Miss \notin Traders
    /\ None \notin Tenants /\ NoTenant \in Owned /\ Platform \in Owned /\ Tenants \subseteq Owned
  BY NamesAssumption DEF Absent, NoTenant, Platform, Nobody, Miss, None, Owned

\* The requests that happen are finitely many.
LEMMA RequestsFinite ==
    ASSUME AccountsTypeOK
    PROVE  world.requests \subseteq Requests /\ IsFiniteSet(world.requests)
           /\ world.codes \in Nat
<1>1. world \in [open : SUBSET Operations, requests : SUBSET Requests, codes : Nat]
  BY BoundsAssumption DEF AccountsTypeOK
<1>2. world.requests \subseteq Requests /\ world.codes \in Nat
  BY <1>1
<1> QED BY <1>2, RequestsAssumption, FS_Subset

-----------------------------------------------------------------------------
(* The order listener.                                                     *)

JobOK == job \in Job /\ JobInv

\* It works on what the requests do not touch.
LEMMA ListenerFrame ==
    ASSUME Arrive \/ Route \/ JobDies
    PROVE  row' = row /\ users' = users /\ otp' = otp /\ attempts' = attempts
           /\ ticking' = ticking /\ codes' = codes /\ issued' = issued /\ cut' = cut
           /\ req' = req
  BY DEF Arrive, TraderWrites, CartArrives, CustomerWrites, StartJob, Route, FindByPhone,
        FindBySlug,
         Look, FillPhone, Command, FillSlug, TakeStore, SaveRoute, FollowSession, FindByTenant,
         FillTenant, FollowRoute, FileOrder, JobDies, accounts, login

\* No job is a job.
LEMMA IdleJob == Idle \in Job /\ Idle.step = "idle" /\ Idle.store = None
  BY DEF Idle, Job, Vias, Owned

\* A job that goes on.
LEMMA ArriveJob == ASSUME AccountsTypeOK, JobInv, Arrive PROVE JobOK'
<1>1. PICK from \in Traders \cup Customers, store \in Traders \cup {None},
           begin \in {"phone", "slug", "session"}, via \in {"cart", None} :
         /\ StartJob(from, store, begin, via)
         /\ begin \in {"slug", "session"} => from \in Customers
         /\ begin \in {"phone", "slug"} => store \in Traders
         /\ begin = "slug" => via = "cart"
  BY DEF Arrive, TraderWrites, CartArrives, CustomerWrites
<1>2. job' = [step |-> begin, from |-> from, store |-> store, got |-> Nobody, via |-> via]
  BY <1>1 DEF StartJob
<1>3. job' \in Job
  BY <1>2 DEF Job, Vias
<1>4. job'.step = begin /\ job'.from = from /\ job'.store = store /\ job'.via = via
  BY <1>2
<1>5. from # None
  BY NamesDiffer, NamesAssumption
<1>6. JobInv'
  BY <1>1, <1>4, <1>5 DEF JobInv
<1> QED BY <1>3, <1>6 DEF JobOK

\* A lookup, in the cache or in the database.
LEMMA LookJob ==
    ASSUME AccountsTypeOK, JobInv, FindByPhone \/ FindBySlug
    PROVE  JobOK'
<1>1. CASE FindByPhone
  <2>1. job \in Job /\ job.step = "phone" /\ job.store \in Traders /\ job.from # None
    BY <1>1 DEF FindByPhone, Look, AccountsTypeOK, JobInv
  <2>2. phoneCache[job.store] # Miss => phoneCache[job.store] \in Owned \cup {Nobody}
    BY <2>1 DEF AccountsTypeOK
  <2>3. Cached(row[job.store]) \in Owned \cup {Nobody}
    BY <2>1 DEF AccountsTypeOK, Cached
  <2>4. PICK got \in Owned \cup {Nobody}, s \in {"phone read", "command"} :
           job' = [job EXCEPT !.step = s, !.got = got]
    BY <1>1, <2>2, <2>3 DEF FindByPhone, Look
  <2>5. job' \in Job /\ job'.step = s /\ job'.from = job.from /\ job'.store = job.store
    BY <2>1, <2>4 DEF Job
  <2> QED BY <2>1, <2>5 DEF JobInv, JobOK
<1>2. CASE FindBySlug
  <2>1. /\ job \in Job /\ job.step = "slug" /\ job.store \in Traders /\ job.from # None
        /\ job.from \in Customers /\ job.via \in {"cart", "route"}
    BY <1>2 DEF FindBySlug, Look, AccountsTypeOK, JobInv
  <2>2. slugCache[job.store] # Miss => slugCache[job.store] \in Owned \cup {Nobody}
    BY <2>1 DEF AccountsTypeOK
  <2>3. Cached(row[job.store]) \in Owned \cup {Nobody}
    BY <2>1 DEF AccountsTypeOK, Cached
  <2>4. PICK got \in Owned \cup {Nobody}, s \in {"slug read", "take"} :
           job' = [job EXCEPT !.step = s, !.got = got]
    BY <1>2, <2>2, <2>3 DEF FindBySlug, Look
  <2>5. job' \in Job /\ job'.step = s /\ job'.from = job.from /\ job'.store = job.store
        /\ job'.via = job.via
    BY <2>1, <2>4 DEF Job
  <2> QED BY <2>1, <2>5 DEF JobInv, JobOK
<1> QED BY <1>1, <1>2

\* A job that ends.
LEMMA IdleOK == job' = Idle => JobOK'
  BY IdleJob DEF JobOK, JobInv

\* A job that has filled a cache or stored a route.
LEMMA FillJob ==
    ASSUME AccountsTypeOK, JobInv, FillPhone \/ FillSlug \/ SaveRoute
    PROVE  JobOK'
<1>1. job \in Job
  BY DEF AccountsTypeOK
<1>2. PICK s \in {"command", "take", "file"} :
         /\ job' = [job EXCEPT !.step = s]
         /\ \/ s = "command" /\ job.step = "phone read"
            \/ s = "take" /\ job.step = "slug read"
            \/ s = "file" /\ job.step = "upsert"
  BY DEF FillPhone, FillSlug, SaveRoute
<1>3. job' \in Job /\ job'.step = s /\ job'.from = job.from /\ job'.store = job.store
      /\ job'.via = job.via /\ job'.got = job.got
  BY <1>1, <1>2 DEF Job
<1>4. s = "command" => JobInv'
  BY <1>2, <1>3 DEF JobInv
<1>5. s = "take" => JobInv'
  BY <1>2, <1>3 DEF JobInv
<1>6. s = "file" => JobInv'
  BY <1>2, <1>3 DEF JobInv, Vias
<1> QED BY <1>2, <1>3, <1>4, <1>5, <1>6 DEF JobOK

\* A store that is taken has a tenant.
LEMMA TakeJob ==
    ASSUME AccountsTypeOK, JobInv, TakeStore
    PROVE  JobOK' /\ routing' \in [Customers -> Routing \cup {NoRoute}]
<1>1. /\ job \in Job /\ job.step = "take" /\ job.store \in Traders /\ job.from # None
      /\ job.from \in Customers /\ job.via \in {"cart", "route"}
  BY DEF TakeStore, AccountsTypeOK, JobInv
<1>2. CASE job.got \in {Nobody, NoTenant}
  BY <1>2, IdleOK DEF TakeStore, AccountsTypeOK
<1>3. CASE job.got \notin {Nobody, NoTenant}
  <2>1. job.got \in Tenants \cup {Platform}
    BY <1>1, <1>3 DEF Job, Owned
  <2>2. routing' = [routing EXCEPT ![job.from] = [store |-> job.store, tenant |-> job.got]]
    BY <1>3 DEF TakeStore
  <2>3. [store |-> job.store, tenant |-> job.got] \in Routing
    BY <1>1, <2>1 DEF Routing
  <2>4. routing' \in [Customers -> Routing \cup {NoRoute}]
    BY <1>1, <2>2, <2>3 DEF AccountsTypeOK
  <2>5. PICK s \in {"upsert", "file"} : job' = [job EXCEPT !.step = s]
                                        /\ (s = "upsert" => job.via = "cart")
    BY <1>3 DEF TakeStore
  <2>6. job' \in Job /\ job'.step = s /\ job'.from = job.from /\ job'.store = job.store
        /\ job'.via = job.via /\ job'.got = job.got
    BY <1>1, <2>5 DEF Job
  <2> QED BY <1>1, <2>1, <2>4, <2>5, <2>6 DEF JobInv, JobOK, Vias
<1> QED BY <1>2, <1>3

\* A routing session or a stored routing names a store.
LEMMA SessionJob ==
    ASSUME AccountsTypeOK, JobInv, FollowSession \/ FollowRoute
    PROVE  JobOK'
<1>1. job \in Job /\ job.from # None /\ job.from \in Customers
  BY DEF FollowSession, FollowRoute, AccountsTypeOK, JobInv
<1>2. CASE FollowSession
  <2>1. CASE routing[job.from] = NoRoute
    <3>1. job' \in Job /\ job'.step = "tenant" /\ job'.from = job.from
      BY <1>1, <1>2, <2>1 DEF FollowSession, Job
    <3> QED BY <1>1, <3>1 DEF JobInv, JobOK
  <2>2. CASE routing[job.from] # NoRoute
    <3>1. routing[job.from].store \in Traders /\ routing[job.from].tenant \in Tenants \cup {Platform}
      BY <1>1, <2>2 DEF AccountsTypeOK, Routing
    <3>2. job' \in Job /\ job'.step = "file" /\ job'.from = job.from /\ job'.via = "session"
          /\ job'.store = routing[job.from].store /\ job'.got = routing[job.from].tenant
      BY <1>1, <1>2, <2>2, <3>1 DEF FollowSession, Job, Owned, Vias
    <3> QED BY <1>1, <3>1, <3>2 DEF JobInv, JobOK, Vias
  <2> QED BY <2>1, <2>2
<1>3. CASE FollowRoute
  <2>1. CASE route[job.from] = None
    BY <1>3, <2>1, IdleOK DEF FollowRoute
  <2>2. CASE route[job.from] # None
    <3>1. route[job.from] \in Traders
      BY <1>1, <2>2 DEF AccountsTypeOK
    <3>2. job' \in Job /\ job'.step = "slug" /\ job'.from = job.from /\ job'.via = "route"
          /\ job'.store = route[job.from]
      BY <1>1, <1>3, <2>2, <3>1 DEF FollowRoute, Job, Vias
    <3> QED BY <1>1, <3>1, <3>2 DEF JobInv, JobOK
  <2> QED BY <2>1, <2>2
<1> QED BY <1>2, <1>3


\* The trader of the platform's tenant is a store as well.
LEMMA TenantJob ==
    ASSUME AccountsTypeOK, JobInv, FindByTenant \/ FillTenant
    PROVE  JobOK' /\ tenantCache' \in Traders \cup {Nobody, Miss}
<1>1. job \in Job /\ job.from # None /\ job.from \in Customers /\ job.store \in Traders \cup {None}
  BY DEF FindByTenant, FillTenant, AccountsTypeOK, JobInv, Job
<1>2. ASSUME NEW t \in Traders, job' = Direct(t) PROVE JobOK'
  <2>1. /\ job' \in Job /\ job'.step = "file" /\ job'.from = job.from /\ job'.store = t
        /\ job'.via = "direct" /\ job'.got = Platform
    BY <1>1, <1>2 DEF Direct, Job, Owned, Vias
  <2> QED BY <1>1, <2>1 DEF JobInv, JobOK, Vias
<1>3. ASSUME NEW s \in {"stored", "tenant read"}, NEW t \in Traders \cup {None},
             job' = [job EXCEPT !.step = s, !.store = t]
      PROVE  JobOK'
  <2>1. job' \in Job /\ job'.step = s /\ job'.from = job.from
    BY <1>1, <1>3 DEF Job
  <2> QED BY <1>1, <2>1 DEF JobInv, JobOK
<1>4. ASSUME job' = [job EXCEPT !.step = "stored"] PROVE JobOK'
  <2>1. job' \in Job /\ job'.step = "stored" /\ job'.from = job.from
    BY <1>1, <1>4 DEF Job
  <2> QED BY <1>1, <2>1 DEF JobInv, JobOK
<1>5. CASE FindByTenant
  <2>1. tenantCache' = tenantCache
    BY <1>5 DEF FindByTenant, caches
  <2>2. CASE tenantCache = Nobody
    BY <1>4, <1>5, <2>1, <2>2, NamesDiffer DEF FindByTenant, AccountsTypeOK
  <2>3. CASE tenantCache \in Traders
    BY <1>2, <1>5, <2>1, <2>3, NamesDiffer DEF FindByTenant, AccountsTypeOK
  <2>4. CASE tenantCache = Miss
    <3> DEFINE found == IF OnPlatform = {} THEN None ELSE CHOOSE t \in OnPlatform : TRUE
    <3>1. found \in Traders \cup {None}
      BY DEF OnPlatform
    <3>2. job' = Idle \/ job' = [job EXCEPT !.step = "tenant read", !.store = found]
      BY <1>5, <2>4, NamesDiffer DEF FindByTenant
    <3> HIDE DEF found
    <3> QED BY <1>3, <2>1, <2>4, <3>1, <3>2, IdleOK
  <2> QED BY <2>2, <2>3, <2>4 DEF AccountsTypeOK
<1>6. CASE FillTenant
  <2>1. CASE job.store = None
    <3>1. job' = [job EXCEPT !.step = "stored"] /\ tenantCache' = Nobody
      BY <1>6, <2>1 DEF FillTenant
    <3> QED BY <1>4, <3>1
  <2>2. CASE job.store # None
    <3>1. job' = Direct(job.store) /\ tenantCache' = job.store /\ job.store \in Traders
      BY <1>1, <1>6, <2>2 DEF FillTenant
    <3> QED BY <1>2, <3>1
  <2> QED BY <2>1, <2>2
<1> QED BY <1>5, <1>6

\* An order that is filed.
LEMMA NewOrder ==
    ASSUME AccountsTypeOK, JobInv, job.step = "file", IsFiniteSet(orders)
    PROVE  [id |-> Cardinality(orders) + 1, store |-> job.store, tenant |-> job.got,
            via |-> job.via] \in Order
<1>1. Cardinality(orders) \in Nat
  BY FS_CardinalityType
<1>2. job.store \in Traders /\ job.got \in Tenants \cup {Platform} /\ job.via \in Vias
  BY DEF JobInv
<1> QED BY <1>1, <1>2 DEF Order

\* Whatever the listener does, its job has what its next step works with.
LEMMA ListenerJob ==
    ASSUME AccountsTypeOK, JobInv, Arrive \/ Route \/ JobDies
    PROVE  JobOK'
<1>1. Command \/ FileOrder \/ JobDies => JobOK'
  BY IdleOK DEF Command, FileOrder, JobDies
<1> QED BY <1>1, ArriveJob, LookJob, FillJob, TakeJob, SessionJob, TenantJob DEF Route

\* The types of what the listener changes.
LEMMA ListenerTypes ==
    ASSUME AccountsTypeOK, JobInv, IsFiniteSet(orders), Arrive \/ Route \/ JobDies,
           UNCHANGED world
    PROVE  AccountsTypeOK'
<1>1. job' \in Job
  BY ListenerJob DEF JobOK
<1>2. phoneCache' \in [Traders -> Owned \cup {Nobody, Miss}]
      /\ slugCache' \in [Traders -> Owned \cup {Nobody, Miss}]
  <2>1. job.step \in {"phone read", "slug read"} => job.got \in Owned \cup {Nobody}
    BY DEF AccountsTypeOK, Job
  <2>2. CASE FillPhone
    BY <2>1, <2>2 DEF FillPhone, AccountsTypeOK
  <2>3. CASE FillSlug
    BY <2>1, <2>3 DEF FillSlug, AccountsTypeOK
  <2>4. CASE ~ FillPhone /\ ~ FillSlug
    <3>1. phoneCache' = phoneCache /\ slugCache' = slugCache
      BY <2>4 DEF Arrive, TraderWrites, CartArrives, CustomerWrites, StartJob, Route, FindByPhone,
         FindBySlug, Look, Command, TakeStore, SaveRoute, FollowSession, FindByTenant,
         FillTenant, FollowRoute, FileOrder, JobDies, caches
    <3> QED BY <3>1 DEF AccountsTypeOK
  <2> QED BY <2>2, <2>3, <2>4
<1>3. tenantCache' \in Traders \cup {Nobody, Miss}
  <2>1. CASE FillTenant
    BY <2>1, TenantJob
  <2>2. CASE ~ FillTenant
    <3>1. tenantCache' = tenantCache
      BY <2>2 DEF Arrive, TraderWrites, CartArrives, CustomerWrites, StartJob, Route, FindByPhone,
         FindBySlug, Look, Command, TakeStore, SaveRoute, FollowSession, FindByTenant, FillPhone,
         FillSlug, FollowRoute, FileOrder, JobDies, caches
    <3> QED BY <3>1 DEF AccountsTypeOK
  <2> QED BY <2>1, <2>2
<1>4. routing' \in [Customers -> Routing \cup {NoRoute}]
  <2>1. CASE TakeStore
    BY <2>1, TakeJob
  <2>2. CASE ~ TakeStore
    <3>1. routing' = routing
      BY <2>2 DEF Arrive, TraderWrites, CartArrives, CustomerWrites, StartJob, Route, FindByPhone,
         FindBySlug, Look, Command, SaveRoute, FollowSession, FindByTenant, FillPhone,
         FillTenant, FillSlug, FollowRoute, FileOrder, JobDies, routes
    <3> QED BY <3>1 DEF AccountsTypeOK
  <2> QED BY <2>1, <2>2
<1>5. route' \in [Customers -> Traders \cup {None}]
  <2>1. CASE SaveRoute
    <3>1. job.from \in Customers /\ job.store \in Traders
      BY <2>1 DEF SaveRoute, JobInv
    <3> QED BY <2>1, <3>1 DEF SaveRoute, AccountsTypeOK
  <2>2. CASE ~ SaveRoute
    <3>1. route' = route
      BY <2>2 DEF Arrive, TraderWrites, CartArrives, CustomerWrites, StartJob, Route, FindByPhone,
         FindBySlug, Look, Command, TakeStore, FollowSession, FindByTenant, FillPhone,
         FillTenant, FillSlug, FollowRoute, FileOrder, JobDies, routes
    <3> QED BY <3>1 DEF AccountsTypeOK
  <2> QED BY <2>1, <2>2
<1>6. orders' \in SUBSET Order
  <2>1. CASE FileOrder
    BY <2>1, NewOrder DEF FileOrder, AccountsTypeOK
  <2>2. CASE ~ FileOrder
    <3>1. orders' = orders
      BY <2>2 DEF Arrive, TraderWrites, CartArrives, CustomerWrites, StartJob, Route, FindByPhone,
         FindBySlug, Look, Command, TakeStore, SaveRoute, FollowSession, FindByTenant, FillPhone,
         FillTenant, FillSlug, FollowRoute, JobDies
    <3> QED BY <3>1 DEF AccountsTypeOK
  <2> QED BY <2>1, <2>2
<1>7. exposed' \in SUBSET Traders
  <2>1. CASE Arrive
    <3>1. exposed' = exposed \cup {t \in Traders : WritersOf(t) # {}}
      BY <2>1 DEF Arrive, TraderWrites, CartArrives, CustomerWrites, StartJob
    <3> QED BY <3>1 DEF AccountsTypeOK
  <2>2. CASE Route \/ JobDies
    <3>1. exposed' = exposed
      BY <2>2 DEF Route, FindByPhone,
         FindBySlug, Look, Command, TakeStore, SaveRoute, FollowSession, FindByTenant, FillPhone,
         FillTenant, FillSlug, FollowRoute, FileOrder, JobDies
    <3> QED BY <3>1 DEF AccountsTypeOK
  <2> QED BY <2>1, <2>2
<1> QED BY <1>1, <1>2, <1>3, <1>4, <1>5, <1>6, <1>7, ListenerFrame DEF AccountsTypeOK

-----------------------------------------------------------------------------
(* The web requests.                                                       *)

\* A request does not touch the listener's work.
LEMMA RequestFrame ==
    ASSUME NEW r \in Requests, Call(r) \/ Serve(r) \/ RequestDies(r)
    PROVE  job' = job /\ routing' = routing /\ route' = route
  BY DEF Call, RequestOtp, SignUpPhone, VerifyOtp, Open, Serve, CheckLimit, SetCode, CountAttempt,
         SetWindow, SendCode, CreateTrader, CacheTrader, MatchCode, DeleteCode, FindUser, CreateUser,
         MigrateOrders, BustCaches, CommitLogin, RequestDies, listener, routes

\* A request that begins: of which kind.
LEMMA CallKinds ==
    ASSUME AccountsTypeOK, NEW r \in Requests, Call(r)
    PROVE  \E t \in Traders, s \in {"limit", "sign up", "match"}, code \in Nat : Open(r, t, s, code)
<1>1. PICK t \in Traders : RequestOtp(r, t) \/ SignUpPhone(r, t)
                           \/ (\E code \in 1..codes : VerifyOtp(r, t, code))
  BY DEF Call
<1>2. CASE RequestOtp(r, t) \/ SignUpPhone(r, t)
  BY <1>2 DEF RequestOtp, SignUpPhone
<1>3. CASE \E code \in 1..codes : VerifyOtp(r, t, code)
  <2>1. PICK code \in 1..codes : VerifyOtp(r, t, code)
    BY <1>3
  <2>2. code \in Nat
    BY DEF AccountsTypeOK
  <2> QED BY <2>1, <2>2 DEF VerifyOtp
<1> QED BY <1>1, <1>2, <1>3

\* What a request under way is about.
LEMMA UnderWay ==
    ASSUME AccountsTypeOK, LoginInv, NEW r \in Requests, req[r].step # "idle"
    PROVE  req[r].who \in Traders /\ r \in world.requests
  BY DEF LoginInv

\* The INSERT of an account: it takes a new tenant and waits for no one.
Inserts(r) ==
    /\ ~ HasAccount(req[r].who)
    /\ \A s \in Requests \ {r} : ~(req[s].who = req[r].who /\ req[s].step \in Inserted)
    /\ Touch(req[r].who)
    /\ req' \in [Requests -> Request]
    /\ \A q \in Requests \ {r} : req'[q] = req[q]
    /\ req'[r].step = "migrate" /\ req'[r].who = req[r].who /\ req'[r].tenant \in Tenants

\* The INSERT fails, or takes a new tenant.
LEMMA InsertStep ==
    ASSUME AccountsTypeOK, NEW r \in Requests, CreateUser(r)
    PROVE  (End(r) /\ exposed' = exposed) \/ Inserts(r)
<1>1. CASE HasAccount(req[r].who)
  BY <1>1 DEF CreateUser
<1>2. CASE ~ HasAccount(req[r].who)
  <2>1. PICK n \in Tenants \ Spent : req' = [req EXCEPT ![r].step = "migrate", ![r].tenant = n]
    BY <1>2 DEF CreateUser
  <2>2. req \in [Requests -> Request]
    BY DEF AccountsTypeOK
  <2>3. req' = [req EXCEPT ![r] = [req[r] EXCEPT !.step = "migrate", !.tenant = n]]
    BY <2>1, <2>2
  <2>4. [req[r] EXCEPT !.step = "migrate", !.tenant = n] \in Request
    BY <2>2 DEF Request
  <2>5. req'[r] = [req[r] EXCEPT !.step = "migrate", !.tenant = n]
    BY <2>2, <2>3
  <2>6. req'[r].step = "migrate" /\ req'[r].who = req[r].who /\ req'[r].tenant = n
    BY <2>2, <2>5 DEF Request
  <2>7. req' \in [Requests -> Request] /\ \A q \in Requests \ {r} : req'[q] = req[q]
    BY <2>2, <2>3, <2>4
  <2>8. /\ \A s \in Requests \ {r} : ~(req[s].who = req[r].who /\ req[s].step \in Inserted)
        /\ Touch(req[r].who)
    BY <1>2 DEF CreateUser
  <2> QED BY <1>2, <2>6, <2>7, <2>8 DEF Inserts
<1> QED BY <1>1, <1>2

\* The UPDATE of the orders: it moves those of the trader's old tenant.
Mine(t) == {o \in orders : o.store = t /\ o.tenant = OldTenant(t)}

\* What the UPDATE notes.
LEMMA MigrateStep ==
    ASSUME AccountsTypeOK, NEW r \in Requests, MigrateOrders(r)
    PROVE  /\ req' \in [Requests -> Request]
           /\ \A q \in Requests \ {r} : req'[q] = req[q]
           /\ req'[r].step = "bust" /\ req'[r].who = req[r].who /\ req'[r].tenant = req[r].tenant
           /\ req'[r].moves = {o.id : o \in Mine(req[r].who)}
           /\ req[r].step = "migrate"
<1> DEFINE ids == {o.id : o \in Mine(req[r].who)}
<1>1. req \in [Requests -> Request]
  BY DEF AccountsTypeOK
<1>2. req' = [req EXCEPT ![r].step = "bust", ![r].moves = ids] /\ req[r].step = "migrate"
  BY DEF MigrateOrders, Mine
<1>3. ids \in SUBSET Nat
  <2>1. \A o \in Mine(req[r].who) : o.id \in Nat
    BY DEF AccountsTypeOK, Order, Mine
  <2> QED BY <2>1
<1> HIDE DEF ids
<1>4. req' = [req EXCEPT ![r] = [req[r] EXCEPT !.step = "bust", !.moves = ids]]
  BY <1>1, <1>2
<1>5. [req[r] EXCEPT !.step = "bust", !.moves = ids] \in Request
  BY <1>1, <1>3 DEF Request
<1>6. req'[r] = [req[r] EXCEPT !.step = "bust", !.moves = ids]
  BY <1>1, <1>4
<1>7. req'[r].step = "bust" /\ req'[r].who = req[r].who /\ req'[r].tenant = req[r].tenant
      /\ req'[r].moves = ids
  BY <1>1, <1>6 DEF Request
<1> QED BY <1>1, <1>2, <1>4, <1>5, <1>7 DEF ids

\* Whatever a request does, only its own place among the requests changes, and it goes
\* from one step to a next one.
Goes(r, from, to) ==
    /\ req[r].step = from /\ req'[r].step = to
    /\ req'[r].who = req[r].who /\ req'[r].tenant = req[r].tenant /\ req'[r].moves = req[r].moves

Moves(r) ==
    /\ req' \in [Requests -> Request]
    /\ \A q \in Requests \ {r} : req'[q] = req[q]

\* Whatever a request does, it leaves the others alone.
LEMMA RequestMoves ==
    ASSUME AccountsTypeOK, NEW r \in Requests, Call(r) \/ Serve(r) \/ RequestDies(r)
    PROVE  Moves(r)
<1>1. CASE Call(r)
  <2>1. PICK t \in Traders, s \in {"limit", "sign up", "match"}, code \in Nat : Open(r, t, s, code)
    BY <1>1, CallKinds
  <2>2. s \in ReqSteps
    BY DEF ReqSteps
  <2> QED BY <2>1, <2>2, Begins DEF Moves
<1>2. CASE MigrateOrders(r)
  BY <1>2, MigrateStep DEF Moves
<1>3. CASE CreateUser(r)
  BY <1>3, InsertStep, IsOver DEF Inserts, Moves
<1>4. CASE ~ Call(r) /\ ~ MigrateOrders(r) /\ ~ CreateUser(r)
  <2>1. End(r) \/ \E s \in ReqSteps : To(r, s)
    BY <1>4 DEF Serve, CheckLimit, SetCode, CountAttempt, SetWindow, SendCode, CreateTrader, CacheTrader,
         MatchCode, DeleteCode, FindUser, BustCaches, CommitLogin, RequestDies, ReqSteps
  <2> QED BY <2>1, GoesOn, IsOver DEF Moves
<1> QED BY <1>1, <1>2, <1>3, <1>4

\* The types of what the requests change.
LEMMA RequestTypes ==
    ASSUME AccountsTypeOK, LoginInv, NEW r \in Requests, UNCHANGED world,
           Call(r) \/ Serve(r) \/ RequestDies(r)
    PROVE  AccountsTypeOK'
<1> DEFINE t == req[r].who
<1>0. req[r].step # "idle" => t \in Traders
  BY UnderWay
<1>1. req' \in [Requests -> Request]
  BY RequestMoves DEF Moves
<1> USE DEF Call, RequestOtp, SignUpPhone, VerifyOtp, Open, Serve, CheckLimit, SetCode, CountAttempt,
         SetWindow, SendCode, CreateTrader, CacheTrader, MatchCode, DeleteCode, FindUser, CreateUser,
         MigrateOrders, BustCaches, CommitLogin, RequestDies, caches, login, Touch
<1>2. otp' \in [Traders -> Nat] /\ codes' \in Nat
  <2>1. CASE SetCode(r)
    BY <1>0, <2>1 DEF AccountsTypeOK
  <2>2. CASE DeleteCode(r)
    BY <1>0, <2>2 DEF AccountsTypeOK
  <2>3. CASE ~ SetCode(r) /\ ~ DeleteCode(r)
    <3>1. otp' = otp /\ codes' = codes
      BY <2>3
    <3> QED BY <3>1 DEF AccountsTypeOK
  <2> QED BY <2>1, <2>2, <2>3
<1>3. attempts' \in [Traders -> Nat]
  <2>1. CASE CountAttempt(r)
    BY <1>0, <2>1 DEF AccountsTypeOK
  <2>2. CASE ~ CountAttempt(r)
    <3>1. attempts' = attempts
      BY <2>2
    <3> QED BY <3>1 DEF AccountsTypeOK
  <2> QED BY <2>1, <2>2
<1>4. ticking' \in [Traders -> BOOLEAN] /\ issued' \in [Traders -> Nat]
  <2>1. CASE SendCode(r)
    BY <1>0, <2>1 DEF AccountsTypeOK
  <2>2. CASE SetWindow(r)
    BY <1>0, <2>2 DEF AccountsTypeOK
  <2>3. CASE ~ SendCode(r) /\ ~ SetWindow(r)
    <3>1. ticking' = ticking /\ issued' = issued
      BY <2>3
    <3> QED BY <3>1 DEF AccountsTypeOK
  <2> QED BY <2>1, <2>2, <2>3
<1>5. row' \in [Traders -> Owned \cup {Absent}] /\ users' \in SUBSET (Traders \X Tenants)
      /\ orders' \in SUBSET Order
  <2>1. CASE CreateTrader(r)
    BY <1>0, <2>1 DEF AccountsTypeOK, Owned
  <2>2. CASE CommitLogin(r)
    <3> DEFINE n == req[r].tenant
               Filed(o) == IF o.id \in req[r].moves THEN [o EXCEPT !.tenant = n] ELSE o
    <3>1. t \in Traders /\ n \in Tenants
      BY <1>0, <2>2 DEF LoginInv, Inserted
    <3>2. row' \in [Traders -> Owned \cup {Absent}] /\ users' \in SUBSET (Traders \X Tenants)
      BY <2>2, <3>1 DEF AccountsTypeOK, Owned
    <3>3. \A o \in orders : Filed(o) \in Order
      BY <3>1 DEF AccountsTypeOK, Order
    <3>4. orders' = {Filed(o) : o \in orders}
      BY <2>2
    <3> HIDE DEF Filed
    <3> QED BY <3>2, <3>3, <3>4
  <2>3. CASE ~ CreateTrader(r) /\ ~ CommitLogin(r)
    <3>1. row' = row /\ users' = users /\ orders' = orders
      BY <2>3
    <3> QED BY <3>1 DEF AccountsTypeOK
  <2> QED BY <2>1, <2>2, <2>3
<1>6. /\ phoneCache' \in [Traders -> Owned \cup {Nobody, Miss}]
      /\ slugCache' \in [Traders -> Owned \cup {Nobody, Miss}]
      /\ tenantCache' \in Traders \cup {Nobody, Miss}
  <2>1. CASE CacheTrader(r)
    BY <1>0, <2>1 DEF AccountsTypeOK, Owned
  <2>2. CASE BustCaches(r)
    BY <1>0, <2>2 DEF AccountsTypeOK
  <2>3. CASE ~ CacheTrader(r) /\ ~ BustCaches(r)
    <3>1. phoneCache' = phoneCache /\ slugCache' = slugCache /\ tenantCache' = tenantCache
      BY <2>3
    <3> QED BY <3>1 DEF AccountsTypeOK
  <2> QED BY <2>1, <2>2, <2>3
<1>7. cut' \in SUBSET Traders /\ exposed' \in SUBSET Traders
  <2>1. cut' = cut \/ (req[r].step # "idle" /\ cut' = cut \cup {t})
    OBVIOUS
  <2>2. exposed' = exposed \/ (req[r].step # "idle" /\ exposed' = exposed \cup {t})
    OBVIOUS
  <2> QED BY <1>0, <2>1, <2>2 DEF AccountsTypeOK
<1> QED BY <1>1, <1>2, <1>3, <1>4, <1>5, <1>6, <1>7, RequestFrame DEF AccountsTypeOK

\* What expires.
LEMMA TimeFrame ==
    ASSUME TimePasses
    PROVE  /\ row' = row /\ users' = users /\ codes' = codes /\ cut' = cut /\ route' = route
           /\ job' = job /\ orders' = orders /\ req' = req /\ exposed' = exposed
  BY DEF TimePasses, CodeExpires, WindowEnds, PhoneExpires, SlugExpires, RoutingExpires,
         TenantExpires, caches, listener, routes, login

\* The types of what expires.
LEMMA TimeTypes ==
    ASSUME AccountsTypeOK, TimePasses, UNCHANGED world
    PROVE  AccountsTypeOK'
<1> USE DEF CodeExpires, WindowEnds, PhoneExpires, SlugExpires, RoutingExpires, TenantExpires,
            caches, login, listener, routes
<1>1. otp' \in [Traders -> Nat]
  BY DEF TimePasses, AccountsTypeOK
<1>2. attempts' \in [Traders -> Nat] /\ ticking' \in [Traders -> BOOLEAN]
      /\ issued' \in [Traders -> Nat]
  <2>1. CASE \E t \in Traders : WindowEnds(t)
    BY <2>1 DEF AccountsTypeOK
  <2>2. CASE ~ \E t \in Traders : WindowEnds(t)
    <3>1. attempts' = attempts /\ ticking' = ticking /\ issued' = issued
      BY <2>2 DEF TimePasses
    <3> QED BY <3>1 DEF AccountsTypeOK
  <2> QED BY <2>1, <2>2
<1>3. phoneCache' \in [Traders -> Owned \cup {Nobody, Miss}]
  BY DEF TimePasses, AccountsTypeOK
<1>4. slugCache' \in [Traders -> Owned \cup {Nobody, Miss}]
  BY DEF TimePasses, AccountsTypeOK
<1>5. tenantCache' \in Traders \cup {Nobody, Miss}
  BY DEF TimePasses, AccountsTypeOK
<1>6. routing' \in [Customers -> Routing \cup {NoRoute}]
  BY DEF TimePasses, AccountsTypeOK
<1> QED BY <1>1, <1>2, <1>3, <1>4, <1>5, <1>6, TimeFrame DEF AccountsTypeOK

-----------------------------------------------------------------------------
(* The logins.                                                             *)

\* A step of a request that neither begins nor ends an INSERT.
LEMMA NoLogin ==
    ASSUME AccountsTypeOK, LoginInv, UNCHANGED <<world, row, users>>, NEW r \in Requests, Moves(r),
           req'[r].step \notin Inserted \cup {"insert"},
           req'[r].step # "idle" => req'[r].who \in Traders /\ r \in world.requests
    PROVE  LoginInv'
  BY DEF LoginInv, Moves, HasAccount

\* A first login goes on.
LEMMA StillLogin ==
    ASSUME AccountsTypeOK, LoginInv, UNCHANGED <<world, row, users>>, NEW r \in Requests, Moves(r),
           req[r].step \in Inserted, req'[r].step \in Inserted, req'[r].who = req[r].who,
           req'[r].tenant = req[r].tenant
    PROVE  LoginInv'
<1>1. req'[r].step # "insert" /\ req[r].step # "idle"
  BY DEF Inserted
<1>2. \A q \in Requests \ {r} : req'[q] = req[q]
  BY DEF Moves
<1>3. /\ req[r].who \in Traders /\ r \in world.requests
      /\ req[r].tenant \in Tenants /\ row[req[r].who] # Absent /\ ~ HasAccount(req[r].who)
  BY <1>1 DEF LoginInv
<1>4. users' = users /\ row' = row /\ world' = world
  OBVIOUS
<1>5. ASSUME NEW q \in Requests
      PROVE  /\ req'[q].step # "idle" => req'[q].who \in Traders /\ q \in world'.requests
             /\ req'[q].step = "insert" => row'[req'[q].who] # Absent
             /\ req'[q].step \in Inserted =>
                   /\ req[q].step \in Inserted /\ req'[q].who = req[q].who
                   /\ req'[q].tenant \in Tenants /\ row'[req'[q].who] # Absent
                   /\ ~ \E n \in Tenants : <<req'[q].who, n>> \in users'
  <2>1. CASE q = r
    BY <1>1, <1>3, <1>4, <2>1 DEF HasAccount
  <2>2. CASE q # r
    BY <1>2, <1>4, <2>2 DEF LoginInv, HasAccount
  <2> QED BY <2>1, <2>2
<1>6. \A q, p \in Requests :
         req'[q].step \in Inserted /\ req'[p].step \in Inserted /\ req'[q].who = req'[p].who => q = p
  BY <1>5 DEF LoginInv
<1>7. /\ \A u \in users' : row'[u[1]] = u[2] /\ \A v \in users' : v[1] = u[1] => v = u
      /\ \A t \in Traders : row'[t] \in Tenants => \E n \in Tenants : <<t, n>> \in users'
  BY <1>4 DEF LoginInv, HasAccount
<1> QED BY <1>5, <1>6, <1>7 DEF LoginInv, HasAccount

\* A first login finds a row.
LEMMA FindLogin ==
    ASSUME AccountsTypeOK, LoginInv, NEW r \in Requests, FindUser(r), UNCHANGED world
    PROVE  LoginInv'
<1>1. Moves(r)
  BY RequestMoves DEF Serve
<1>2. CASE HasAccount(req[r].who) \/ row[req[r].who] = Absent
  <2>1. req'[r].step = "idle"
    BY <1>2, IsOver DEF FindUser
  <2> QED BY <1>1, <2>1, NoLogin DEF FindUser, Inserted
<1>3. CASE ~ (HasAccount(req[r].who) \/ row[req[r].who] = Absent)
  <2>1. req'[r].step = "insert" /\ req'[r].who = req[r].who /\ UNCHANGED <<row, users>>
        /\ req[r].step # "idle"
    BY <1>3, GoesOn DEF FindUser, ReqSteps
  <2> QED BY <1>1, <1>3, <2>1 DEF LoginInv, Moves, HasAccount, Inserted
<1> QED BY <1>2, <1>3

\* A first login holds the only INSERT.
LEMMA InsertLogin ==
    ASSUME AccountsTypeOK, LoginInv, NEW r \in Requests, CreateUser(r), UNCHANGED world
    PROVE  LoginInv'
<1>1. Moves(r) /\ UNCHANGED <<row, users>> /\ req[r].step = "insert"
  BY RequestMoves DEF Serve, CreateUser
<1>2. CASE End(r)
  <2>1. req'[r].step = "idle"
    BY <1>2, IsOver
  <2> QED BY <1>1, <2>1, NoLogin DEF Inserted
<1>3. CASE Inserts(r)
  <2>1. row[req[r].who] # Absent /\ req[r].who \in Traders /\ r \in world.requests
    BY <1>1 DEF LoginInv
  <2> QED BY <1>1, <1>3, <2>1 DEF LoginInv, Moves, HasAccount, Inserts, Inserted
<1> QED BY <1>2, <1>3, InsertStep

\* A first login makes the only account.
LEMMA CommitKeepsLogins ==
    ASSUME AccountsTypeOK, LoginInv, NEW r \in Requests, CommitLogin(r), UNCHANGED world
    PROVE  LoginInv'
<1> DEFINE t == req[r].who
           n == req[r].tenant
<1>1. Moves(r) /\ req'[r].step = "idle" /\ req[r].step \in Inserted
  BY RequestMoves, IsOver DEF Serve, CommitLogin, Inserted
<1>2. t \in Traders /\ n \in Tenants /\ ~ HasAccount(t)
  BY <1>1 DEF LoginInv, Inserted
<1>3. users' = users \cup {<<t, n>>} /\ row' = [row EXCEPT ![t] = n]
  BY DEF CommitLogin
<1>4. \A u \in users : u = <<u[1], u[2]>> /\ u[1] \in Traders /\ u[2] \in Tenants /\ u[1] # t
  BY <1>2 DEF AccountsTypeOK, HasAccount
<1>5. \A x \in Traders \ {t} : row'[x] = row[x]
  BY <1>3 DEF AccountsTypeOK
<1>6. row'[t] = n
  BY <1>2, <1>3 DEF AccountsTypeOK
<1> HIDE DEF t, n
<1>7. \A u \in users' : row'[u[1]] = u[2] /\ \A v \in users' : v[1] = u[1] => v = u
  <2>1. \A u \in users : row[u[1]] = u[2] /\ \A v \in users : v[1] = u[1] => v = u
    BY DEF LoginInv
  <2>2. <<t, n>>[1] = t /\ <<t, n>>[2] = n
    OBVIOUS
  <2> QED BY <1>3, <1>4, <1>5, <1>6, <2>1, <2>2
<1>8. \A x \in Traders \ {t} : HasAccount(x)' <=> HasAccount(x)
  BY <1>3 DEF HasAccount
<1>9. \E m \in Tenants : <<t, m>> \in users'
  BY <1>2, <1>3 DEF HasAccount
<1>10. \A x \in Traders : row'[x] \in Tenants => HasAccount(x)'
  <2>1. \A x \in Traders \ {t} : row'[x] \in Tenants => HasAccount(x)'
    BY <1>5, <1>8 DEF LoginInv
  <2>2. \A x \in Traders : x = t => HasAccount(x)'
    BY <1>9 DEF HasAccount
  <2> QED BY <2>1, <2>2
<1>11. row'[t] # Absent
  BY <1>2, <1>6, NamesDiffer
<1>12. \A q \in Requests : q # r /\ req[q].step \in Inserted => req[q].who # t
  BY <1>1 DEF LoginInv, t
<1>13. \A q \in Requests : req'[q].step # "idle" =>
          /\ req'[q] = req[q] /\ q # r /\ req[q].who \in Traders /\ q \in world.requests
  BY <1>1 DEF LoginInv, Moves
<1>14. \A q \in Requests : req'[q].step = "insert" => row'[req'[q].who] # Absent
  <2> TAKE q \in Requests
  <2> HAVE req'[q].step = "insert"
  <2>1. req'[q] = req[q] /\ req[q].who \in Traders /\ row[req[q].who] # Absent
    BY <1>13 DEF LoginInv
  <2> QED BY <1>5, <1>11, <2>1
<1>15. \A q \in Requests : req'[q].step \in Inserted =>
          /\ req'[q].tenant \in Tenants /\ row'[req'[q].who] # Absent
          /\ ~ HasAccount(req[q].who)'
  <2> TAKE q \in Requests
  <2> HAVE req'[q].step \in Inserted
  <2>1. req'[q] = req[q] /\ q # r /\ req[q].who \in Traders
    BY <1>13 DEF Inserted
  <2>2. req[q].who # t
    BY <1>12, <2>1
  <2>3. req[q].tenant \in Tenants /\ row[req[q].who] # Absent /\ ~ HasAccount(req[q].who)
    BY <2>1 DEF LoginInv
  <2> QED BY <1>5, <1>8, <2>1, <2>2, <2>3
<1>16. \A q, s \in Requests :
          req'[q].step \in Inserted /\ req'[s].step \in Inserted /\ req'[q].who = req'[s].who => q = s
  BY <1>13 DEF LoginInv, Inserted
<1> QED BY <1>7, <1>10, <1>13, <1>14, <1>15, <1>16 DEF LoginInv, HasAccount

\* A sign-up writes the row of a trader without an account.
LEMMA SignUpLogin ==
    ASSUME AccountsTypeOK, LoginInv, NEW r \in Requests, CreateTrader(r), UNCHANGED world
    PROVE  LoginInv'
<1> DEFINE t == req[r].who
<1>1. Moves(r) /\ req[r].step = "sign up" /\ users' = users
  BY RequestMoves DEF Serve, CreateTrader
<1>2. t \in Traders /\ r \in world.requests
  BY <1>1 DEF LoginInv
<1>3. CASE row[t] # Absent
  <2>1. req'[r].step = "limit" /\ req'[r].who = t /\ row' = row
    BY <1>3, GoesOn DEF CreateTrader, ReqSteps
  <2> QED BY <1>1, <1>2, <2>1, NoLogin DEF Inserted
<1>4. CASE row[t] = Absent
  <2>1. req'[r].step = "cache" /\ req'[r].who = t /\ row' = [row EXCEPT ![t] = NoTenant]
    BY <1>4, GoesOn DEF CreateTrader, ReqSteps
  <2>2. (\A x \in Traders \ {t} : row'[x] = row[x]) /\ row'[t] = NoTenant
    BY <1>2, <2>1 DEF AccountsTypeOK
  <2>3. \A u \in users : u[1] \in Traders /\ u[1] # t
    BY <1>2, <1>4, NamesDiffer DEF LoginInv, AccountsTypeOK
  <2> HIDE DEF t
  <2>4. \A q \in Requests : q # r /\ req[q].step \in Inserted \cup {"insert"} =>
           req[q].who # t /\ req[q].who \in Traders
    BY <1>4 DEF LoginInv, Inserted
  <2>5. NoTenant \notin Tenants /\ NoTenant # Absent
    BY NamesDiffer
  <2>6. \A u \in users' : row'[u[1]] = u[2] /\ \A v \in users' : v[1] = u[1] => v = u
    BY <1>1, <2>2, <2>3 DEF LoginInv
  <2>7. \A x \in Traders : row'[x] \in Tenants => HasAccount(x)'
    BY <1>1, <2>2, <2>5 DEF LoginInv, HasAccount
  <2>8. \A q \in Requests : req'[q].step # "idle" =>
           req'[q].who \in Traders /\ q \in world'.requests
    BY <1>1, <1>2, <2>1 DEF LoginInv, Moves
  <2>9. \A q \in Requests : req'[q].step \in Inserted \cup {"insert"} =>
           /\ req'[q] = req[q] /\ req[q].who \in Traders
           /\ row'[req[q].who] = row[req[q].who]
    BY <1>1, <2>1, <2>2, <2>4 DEF Moves, Inserted
  <2>10. \A x \in Traders : HasAccount(x)' <=> HasAccount(x)
    BY <1>1 DEF HasAccount
  <2>11. \A q \in Requests : req'[q].step = "insert" => row'[req'[q].who] # Absent
    BY <2>9 DEF LoginInv
  <2>12. \A q \in Requests : req'[q].step \in Inserted =>
            /\ req'[q].tenant \in Tenants /\ row'[req'[q].who] # Absent
            /\ ~ HasAccount(req[q].who)'
    BY <2>9, <2>10 DEF LoginInv
  <2>13. \A q, s \in Requests :
            req'[q].step \in Inserted /\ req'[s].step \in Inserted /\ req'[q].who = req'[s].who
               => q = s
    BY <2>9 DEF LoginInv
  <2> QED BY <2>6, <2>7, <2>8, <2>11, <2>12, <2>13 DEF LoginInv, HasAccount
<1> QED BY <1>3, <1>4

\* Whatever a request does, the logins are right.
LEMMA RequestLogin ==
    ASSUME AccountsTypeOK, LoginInv, NEW r \in world.requests, UNCHANGED world,
           Call(r) \/ Serve(r) \/ RequestDies(r)
    PROVE  LoginInv'
<1>0. r \in Requests
  BY RequestsFinite
<1>1. Moves(r)
  BY <1>0, RequestMoves
<1>2. CASE Call(r)
  <2>1. PICK t \in Traders, s \in {"limit", "sign up", "match"}, code \in Nat : Open(r, t, s, code)
    BY <1>0, <1>2, CallKinds
  <2>2. req'[r].step = s /\ req'[r].who = t /\ UNCHANGED <<row, users>>
    <3>1. s \in ReqSteps
      BY DEF ReqSteps
    <3> QED BY <1>0, <2>1, <3>1, Begins DEF Open
  <2> QED BY <1>0, <1>1, <2>2, NoLogin DEF Inserted
<1>3. ASSUME End(r), UNCHANGED <<row, users>> PROVE LoginInv'
  BY <1>0, <1>1, <1>3, IsOver, NoLogin DEF Inserted
<1>4. ASSUME NEW s \in {"limit", "set", "count", "expire", "send", "delete", "find"}, To(r, s),
             UNCHANGED <<row, users>>, req[r].step # "idle"
      PROVE  LoginInv'
  <2>1. req'[r].step = s /\ req'[r].who = req[r].who
    <3>1. s \in ReqSteps
      BY DEF ReqSteps
    <3> QED BY <1>0, <1>4, <3>1, GoesOn
  <2>2. req[r].who \in Traders
    BY <1>0, <1>4, UnderWay
  <2> QED BY <1>0, <1>1, <1>4, <2>1, <2>2, NoLogin DEF Inserted
<1>5. CASE CheckLimit(r) \/ SetCode(r) \/ CountAttempt(r) \/ SetWindow(r) \/ SendCode(r) \/ CacheTrader(r)
           \/ MatchCode(r) \/ DeleteCode(r) \/ RequestDies(r)
  BY <1>3, <1>4, <1>5 DEF CheckLimit, SetCode, CountAttempt, SetWindow, SendCode, CacheTrader, MatchCode,
         DeleteCode, RequestDies, login
<1>6. CASE BustCaches(r)
  <2>1. To(r, "commit") /\ UNCHANGED <<row, users>> /\ req[r].step \in Inserted
    BY <1>6 DEF BustCaches, Inserted
  <2>2. req'[r].step \in Inserted /\ req'[r].who = req[r].who /\ req'[r].tenant = req[r].tenant
    BY <1>0, <2>1, GoesOn DEF ReqSteps, Inserted
  <2> QED BY <1>0, <1>1, <2>1, <2>2, StillLogin
<1>7. CASE MigrateOrders(r)
  <2>1. UNCHANGED <<row, users>> /\ req[r].step \in Inserted
    BY <1>7 DEF MigrateOrders, Inserted
  <2>2. req'[r].step \in Inserted /\ req'[r].who = req[r].who /\ req'[r].tenant = req[r].tenant
    BY <1>0, <1>7, MigrateStep DEF Inserted
  <2> QED BY <1>0, <1>1, <2>1, <2>2, StillLogin
<1> QED BY <1>0, <1>2, <1>5, <1>6, <1>7, FindLogin, InsertLogin, CommitKeepsLogins, SignUpLogin
        DEF Serve

-----------------------------------------------------------------------------
(* The login codes.                                                        *)

CountsOK ==
    /\ Cardinality(world.requests) \in Nat
    /\ \A t \in Traders :
          /\ IsFiniteSet(Passed(t)) /\ IsFiniteSet(Counted(t))
          /\ Cardinality(Passed(t)) \in 0..Cardinality(world.requests)
          /\ Cardinality(Counted(t)) \in 0..Cardinality(world.requests)

\* No more requests are past the limit, or have counted, than there are.
LEMMA CountsType == AccountsTypeOK /\ LoginInv => CountsOK
<1> SUFFICES ASSUME AccountsTypeOK, LoginInv PROVE CountsOK
  OBVIOUS
<1>1. IsFiniteSet(world.requests)
  BY RequestsFinite
<1>2. ASSUME NEW t \in Traders
      PROVE  Passed(t) \subseteq world.requests /\ Counted(t) \subseteq world.requests
  BY DEF LoginInv, Passed, Counted
<1>3. Cardinality(world.requests) \in Nat
  BY <1>1, FS_CardinalityType
<1>4. ASSUME NEW t \in Traders
      PROVE  /\ IsFiniteSet(Passed(t)) /\ Cardinality(Passed(t)) \in Nat
             /\ Cardinality(Passed(t)) <= Cardinality(world.requests)
  BY <1>1, <1>2, <1>4, FS_Subset, FS_CardinalityType
<1>5. ASSUME NEW t \in Traders
      PROVE  /\ IsFiniteSet(Counted(t)) /\ Cardinality(Counted(t)) \in Nat
             /\ Cardinality(Counted(t)) <= Cardinality(world.requests)
  BY <1>1, <1>2, <1>5, FS_Subset, FS_CardinalityType
<1>6. \A t \in Traders :
         /\ Cardinality(Passed(t)) \in 0..Cardinality(world.requests)
         /\ Cardinality(Counted(t)) \in 0..Cardinality(world.requests)
  BY <1>3, <1>4, <1>5
<1> QED BY <1>3, <1>4, <1>5, <1>6 DEF CountsOK

\* The same of the next state.
LEMMA CountsTypeNext == (AccountsTypeOK /\ LoginInv => CountsOK)'
  BY CountsType, PTL

\* The counters of one trader.
CodesOf(t) ==
    /\ attempts[t] + Cardinality(Passed(t)) <= Limit + Cardinality(world.requests) - 1
    /\ issued[t] + Cardinality(Counted(t)) <= attempts[t] + Cardinality(world.requests)

\* Requests that end, or concern somebody else.
LEMMA FewerCodes ==
    ASSUME AccountsTypeOK, LoginInv, AccountsTypeOK', LoginInv', UNCHANGED world,
           NEW t \in Traders, CodesOf(t), attempts'[t] = attempts[t], issued'[t] = issued[t],
           Passed(t)' \subseteq Passed(t), Counted(t)' \subseteq Counted(t)
    PROVE  CodesOf(t)'
<1>1. CountsOK /\ CountsOK'
  BY CountsType, CountsTypeNext
<1>2. Cardinality(Passed(t)') <= Cardinality(Passed(t))
  BY <1>1, FS_Subset DEF CountsOK
<1>3. Cardinality(Counted(t)') <= Cardinality(Counted(t))
  BY <1>1, FS_Subset DEF CountsOK
<1>4. attempts[t] \in Nat /\ issued[t] \in Nat /\ Limit \in Nat
  BY LimitAssumption DEF AccountsTypeOK
<1>5. /\ Cardinality(Passed(t)) \in Nat /\ Cardinality(Passed(t)') \in Nat
      /\ Cardinality(Counted(t)) \in Nat /\ Cardinality(Counted(t)') \in Nat
      /\ Cardinality(world.requests) \in Nat
  BY <1>1 DEF CountsOK
<1> QED BY <1>2, <1>3, <1>4, <1>5 DEF CodesOf

\* What a step of a request does to the sets: a request of another trader changes nothing.
LEMMA OthersCodes ==
    ASSUME NEW r \in Requests, Moves(r), NEW t \in Traders,
           req'[r].step \in {"set", "count"} /\ req'[r].who = t =>
              req[r].step \in {"set", "count"} /\ req[r].who = t,
           req'[r].step \in {"expire", "send"} /\ req'[r].who = t =>
              req[r].step \in {"expire", "send"} /\ req[r].who = t
    PROVE  Passed(t)' \subseteq Passed(t) /\ Counted(t)' \subseteq Counted(t)
  BY DEF Passed, Counted, Moves

\* Passing the limit: the counter is below it, and no more requests pass it than there are.
LEMMA PassCodes ==
    ASSUME AccountsTypeOK, LoginInv, AccountsTypeOK', LoginInv', UNCHANGED world, CodesInv,
           NEW r \in Requests, CheckLimit(r)
    PROVE  CodesInv'
<1>1. Moves(r) /\ UNCHANGED <<attempts, issued>> /\ req[r].step = "limit"
  BY RequestMoves DEF Serve, CheckLimit, login
<1>2. CASE attempts[req[r].who] >= Limit
  <2>1. req'[r].step = "idle"
    BY <1>2, IsOver DEF CheckLimit
  <2>2. \A t \in Traders : Passed(t)' \subseteq Passed(t) /\ Counted(t)' \subseteq Counted(t)
    BY <1>1, <2>1, OthersCodes
  <2> QED BY <1>1, <2>2, FewerCodes DEF CodesInv, CodesOf
<1>3. CASE ~ (attempts[req[r].who] >= Limit)
  <2>1. req'[r].step = "set" /\ req'[r].who = req[r].who
    BY <1>3, GoesOn DEF CheckLimit, ReqSteps
  <2>2. ASSUME NEW t \in Traders, t # req[r].who PROVE CodesOf(t)'
    <3>1. Passed(t)' \subseteq Passed(t) /\ Counted(t)' \subseteq Counted(t)
      BY <1>1, <2>1, <2>2, OthersCodes
    <3> QED BY <1>1, <3>1, FewerCodes DEF CodesInv, CodesOf
  <2>3. ASSUME NEW t \in Traders, t = req[r].who PROVE CodesOf(t)'
    <3>1. CountsOK /\ CountsOK'
      BY CountsType, CountsTypeNext
    <3>2. Counted(t)' = Counted(t)
      BY <1>1, <2>1 DEF Counted, Moves
    <3>3. attempts'[t] = attempts[t] /\ issued'[t] = issued[t] /\ attempts[t] <= Limit - 1
          /\ attempts[t] \in Nat /\ issued[t] \in Nat /\ Limit \in Nat
      BY <1>1, <1>3, <2>3, LimitAssumption DEF AccountsTypeOK
    <3>4. Cardinality(Passed(t)') \in 0..Cardinality(world.requests)
          /\ Cardinality(world.requests) \in Nat
      BY <3>1 DEF CountsOK
    <3>5. issued[t] + Cardinality(Counted(t)) <= attempts[t] + Cardinality(world.requests)
      BY DEF CodesInv
    <3> QED BY <3>2, <3>3, <3>4, <3>5 DEF CodesOf
  <2> QED BY <2>2, <2>3 DEF CodesInv, CodesOf
<1> QED BY <1>2, <1>3

\* Counting: the request leaves those that passed and joins those that counted.
LEMMA CountCodes ==
    ASSUME AccountsTypeOK, LoginInv, AccountsTypeOK', LoginInv', UNCHANGED world, CodesInv,
           NEW r \in Requests, CountAttempt(r)
    PROVE  CodesInv'
<1>1. Moves(r) /\ issued' = issued /\ req[r].step = "count"
  BY RequestMoves DEF Serve, CountAttempt
<1>2. req'[r].step = "expire" /\ req'[r].who = req[r].who
  BY GoesOn DEF CountAttempt, ReqSteps
<1>3. attempts' = [attempts EXCEPT ![req[r].who] = @ + 1]
  BY DEF CountAttempt
<1>4. CountsOK /\ CountsOK'
  BY CountsType, CountsTypeNext
<1>5. ASSUME NEW t \in Traders, t # req[r].who PROVE CodesOf(t)'
  <2>1. Passed(t)' \subseteq Passed(t) /\ Counted(t)' \subseteq Counted(t)
    BY <1>1, <1>2, <1>5, OthersCodes
  <2>2. attempts'[t] = attempts[t]
    BY <1>3, <1>5 DEF AccountsTypeOK
  <2> QED BY <1>1, <2>1, <2>2, FewerCodes DEF CodesInv, CodesOf
<1>6. ASSUME NEW t \in Traders, t = req[r].who PROVE CodesOf(t)'
  <2>1. Passed(t)' = Passed(t) \ {r} /\ r \in Passed(t)
    BY <1>1, <1>2, <1>6 DEF Passed, Moves
  <2>2. Counted(t)' = Counted(t) \cup {r} /\ r \notin Counted(t)
    BY <1>1, <1>2, <1>6 DEF Counted, Moves
  <2>3. Cardinality(Passed(t)') = Cardinality(Passed(t)) - 1
    BY <1>4, <2>1, FS_RemoveElement DEF CountsOK
  <2>4. Cardinality(Counted(t)') = Cardinality(Counted(t)) + 1
    BY <1>4, <2>2, FS_AddElement DEF CountsOK
  <2>5. attempts'[t] = attempts[t] + 1 /\ issued'[t] = issued[t]
        /\ attempts[t] \in Nat /\ issued[t] \in Nat /\ Limit \in Nat
    BY <1>1, <1>3, <1>6, LimitAssumption DEF AccountsTypeOK
  <2>6. Cardinality(Passed(t)) \in Nat /\ Cardinality(Counted(t)) \in Nat
        /\ Cardinality(world.requests) \in Nat
    BY <1>4 DEF CountsOK
  <2>7. CodesOf(t)
    BY DEF CodesInv, CodesOf
  <2> QED BY <2>3, <2>4, <2>5, <2>6, <2>7 DEF CodesOf
<1> QED BY <1>5, <1>6 DEF CodesInv, CodesOf

\* Sending: the request leaves those that counted.
LEMMA SendCodes ==
    ASSUME AccountsTypeOK, LoginInv, AccountsTypeOK', LoginInv', UNCHANGED world, CodesInv,
           NEW r \in Requests, SendCode(r)
    PROVE  CodesInv'
<1>1. Moves(r) /\ attempts' = attempts /\ req[r].step = "send"
  BY RequestMoves DEF Serve, SendCode
<1>2. req'[r].step = "idle"
  BY IsOver DEF SendCode
<1>3. issued' \in {issued, [issued EXCEPT ![req[r].who] = @ + 1]}
  BY DEF SendCode
<1>4. CountsOK /\ CountsOK'
  BY CountsType, CountsTypeNext
<1>5. ASSUME NEW t \in Traders, t # req[r].who PROVE CodesOf(t)'
  <2>1. Passed(t)' \subseteq Passed(t) /\ Counted(t)' \subseteq Counted(t)
    BY <1>1, <1>2, <1>5, OthersCodes
  <2>2. issued'[t] = issued[t]
    BY <1>3, <1>5 DEF AccountsTypeOK
  <2> QED BY <1>1, <2>1, <2>2, FewerCodes DEF CodesInv, CodesOf
<1>6. ASSUME NEW t \in Traders, t = req[r].who PROVE CodesOf(t)'
  <2>1. Passed(t)' = Passed(t)
    BY <1>1, <1>2, <1>6 DEF Passed, Moves
  <2>2. Counted(t)' = Counted(t) \ {r} /\ r \in Counted(t)
    BY <1>1, <1>2, <1>6 DEF Counted, Moves
  <2>3. Cardinality(Counted(t)') = Cardinality(Counted(t)) - 1
    BY <1>4, <2>2, FS_RemoveElement DEF CountsOK
  <2>4. issued'[t] \in {issued[t], issued[t] + 1} /\ attempts'[t] = attempts[t]
        /\ attempts[t] \in Nat /\ issued[t] \in Nat /\ Limit \in Nat
    BY <1>1, <1>3, <1>6, LimitAssumption DEF AccountsTypeOK
  <2>5. Cardinality(Passed(t)) \in Nat /\ Cardinality(Counted(t)) \in Nat
        /\ Cardinality(world.requests) \in Nat
    BY <1>4 DEF CountsOK
  <2>6. CodesOf(t)
    BY DEF CodesInv, CodesOf
  <2> QED BY <2>1, <2>3, <2>4, <2>5, <2>6 DEF CodesOf
<1> QED BY <1>5, <1>6 DEF CodesInv, CodesOf

\* Whatever a request does, the codes are counted.
LEMMA RequestCodes ==
    ASSUME AccountsTypeOK, LoginInv, AccountsTypeOK', LoginInv', UNCHANGED world, CodesInv,
           NEW r \in Requests, Call(r) \/ Serve(r) \/ RequestDies(r)
    PROVE  CodesInv'
<1>1. Moves(r)
  BY RequestMoves
<1>2. ASSUME UNCHANGED <<attempts, issued>>,
             req'[r].step \in {"set", "count"} =>
                req[r].step \in {"set", "count"} /\ req'[r].who = req[r].who,
             req'[r].step \in {"expire", "send"} =>
                req[r].step = "expire" /\ req'[r].who = req[r].who
      PROVE  CodesInv'
  <2>1. \A t \in Traders : Passed(t)' \subseteq Passed(t) /\ Counted(t)' \subseteq Counted(t)
    BY <1>1, <1>2, OthersCodes
  <2> QED BY <1>2, <2>1, FewerCodes DEF CodesInv, CodesOf
<1>3. CASE Call(r)
  <2>1. PICK t \in Traders, s \in {"limit", "sign up", "match"}, code \in Nat : Open(r, t, s, code)
    BY <1>3, CallKinds
  <2>2. req'[r].step = s
    <3>1. s \in ReqSteps
      BY DEF ReqSteps
    <3> QED BY <2>1, <3>1, Begins
  <2> QED BY <1>2, <2>1, <2>2 DEF Open, login
<1>4. ASSUME End(r), UNCHANGED <<attempts, issued>> PROVE CodesInv'
  BY <1>2, <1>4, IsOver
<1>5. ASSUME NEW s \in {"limit", "cache", "delete", "find", "insert", "commit"}, To(r, s),
             UNCHANGED <<attempts, issued>>
      PROVE  CodesInv'
  <2>1. s \in ReqSteps
    BY DEF ReqSteps
  <2> QED BY <1>2, <1>5, <2>1, GoesOn
<1>6. CASE SetCode(r)
  <2>1. req'[r].step = "count" /\ req'[r].who = req[r].who /\ req[r].step = "set"
    BY <1>6, GoesOn DEF SetCode, ReqSteps
  <2> QED BY <1>2, <1>6, <2>1 DEF SetCode
<1>7. CASE CreateTrader(r) \/ CacheTrader(r) \/ MatchCode(r) \/ DeleteCode(r) \/ FindUser(r)
           \/ BustCaches(r) \/ CommitLogin(r) \/ RequestDies(r)
  BY <1>4, <1>5, <1>7 DEF CreateTrader, CacheTrader, MatchCode, DeleteCode, FindUser, BustCaches,
         CommitLogin, RequestDies, login
<1>8. CASE CreateUser(r)
  BY <1>2, <1>4, <1>8, InsertStep DEF Inserts, CreateUser, login
<1>9. CASE MigrateOrders(r)
  BY <1>2, <1>9, MigrateStep DEF MigrateOrders, login
<1>10. CASE SetWindow(r)
  <2>1. req'[r].step = "send" /\ req'[r].who = req[r].who /\ req[r].step = "expire"
    BY <1>10, GoesOn DEF SetWindow, ReqSteps
  <2> QED BY <1>2, <1>10, <2>1 DEF SetWindow
<1> QED BY <1>3, <1>6, <1>7, <1>8, <1>9, <1>10, PassCodes, CountCodes, SendCodes DEF Serve

\* The window ends: the counters are zero, and the requests under way are as many as ever.
LEMMA TimeCodes ==
    ASSUME AccountsTypeOK, LoginInv, UNCHANGED world, CodesInv, TimePasses
    PROVE  CodesInv'
<1>1. req' = req
  BY TimeFrame
<1>2. CountsOK
  BY CountsType
<1>3. ASSUME NEW t \in Traders PROVE CodesOf(t)'
  <2>1. Passed(t)' = Passed(t) /\ Counted(t)' = Counted(t)
    BY <1>1 DEF Passed, Counted
  <2>2. (attempts'[t] = attempts[t] /\ issued'[t] = issued[t])
        \/ (attempts'[t] = 0 /\ issued'[t] = 0)
    BY DEF TimePasses, CodeExpires, WindowEnds, PhoneExpires, SlugExpires, RoutingExpires,
           TenantExpires, login, AccountsTypeOK
  <2>3. CodesOf(t)
    BY DEF CodesInv, CodesOf
  <2>4. Cardinality(Passed(t)) \in 0..Cardinality(world.requests)
        /\ Cardinality(Counted(t)) \in 0..Cardinality(world.requests)
        /\ Cardinality(world.requests) \in Nat /\ Limit \in Nat \ {0}
    BY <1>2, LimitAssumption DEF CountsOK
  <2> QED BY <2>1, <2>2, <2>3, <2>4 DEF CodesOf
<1> QED BY <1>3 DEF CodesInv, CodesOf

-----------------------------------------------------------------------------
(* What an undisturbed trader's row, caches and orders have in common.     *)

Writing == Inserted \cup {"cache"}

\* When the listener works, no request writes the row of a trader who is not exposed.
LEMMA ListenerQuiet ==
    ASSUME AccountsTypeOK, QuietInv, Arrive \/ Route \/ JobDies
    PROVE  /\ \A t \in Traders \ exposed' :
                 t \notin exposed /\ WritersOf(t) = {} /\ WritersOf(t)' = {}
           /\ \A t \in Traders \ exposed' : row'[t] = row[t]
           /\ QuietInv'
<1>1. \A t \in Traders : WritersOf(t)' = WritersOf(t)
  BY ListenerFrame DEF WritersOf
<1>2. \A t \in Traders \ exposed' : t \notin exposed /\ WritersOf(t) = {}
  <2>1. CASE Arrive
    <3>1. exposed' = exposed \cup {t \in Traders : WritersOf(t) # {}}
      BY <2>1 DEF Arrive, TraderWrites, CartArrives, CustomerWrites, StartJob
    <3> QED BY <3>1
  <2>2. CASE Route \/ JobDies
    <3>1. exposed' = exposed /\ job.step # "idle"
      BY <2>2 DEF Route, FindByPhone,
         FindBySlug, Look, Command, TakeStore, SaveRoute, FollowSession, FindByTenant, FillPhone,
         FillTenant, FillSlug, FollowRoute, FileOrder, JobDies
    <3> QED BY <3>1 DEF QuietInv
  <2> QED BY <2>1, <2>2
<1>3. \A t \in Traders \ exposed' : WritersOf(t)' = {}
  BY <1>1, <1>2
<1>4. QuietInv'
  BY <1>3 DEF QuietInv
<1> QED BY <1>2, <1>3, <1>4, ListenerFrame

\* A step of a request that does not begin to write, nor writes.
LEMMA NotWriting ==
    ASSUME QuietInv, NEW r \in Requests, Moves(r), exposed \subseteq exposed', job' = job,
           row' = row,
           req'[r].step \in Writing =>
              /\ req[r].step \in Writing /\ req'[r].who = req[r].who
              /\ req'[r].step = "cache" => req[r].step = "cache"
    PROVE  QuietInv'
<1>1. \A t \in Traders, q \in Requests : q \in WritersOf(t)' =>
         q \in WritersOf(t) /\ (req'[q].step = "cache" => req[q].step = "cache")
  BY DEF Moves, WritersOf, Writing
<1> QED BY <1>1 DEF QuietInv, WritersOf

\* A step that touches a trader's row.
LEMMA TouchQuiet ==
    ASSUME AccountsTypeOK, QuietInv, NEW r \in Requests, Moves(r), Touch(req[r].who), job' = job,
           req[r].who \in Traders, req'[r].who = req[r].who, req[r].step \notin Writing,
           \A t \in Traders \ {req[r].who} : row'[t] = row[t],
           req'[r].step = "cache" => row'[req[r].who] = NoTenant
    PROVE  /\ QuietInv'
           /\ req[r].who \notin exposed' => job.step = "idle" /\ WritersOf(req[r].who) = {}
<1>1. req[r].who \notin exposed' => job.step = "idle" /\ WritersOf(req[r].who) = {}
  BY DEF Touch
<1>2. exposed \subseteq exposed'
  BY DEF Touch
<1>3. \A t \in Traders, q \in Requests : q \in WritersOf(t)' => q = r \/ q \in WritersOf(t)
  BY DEF Moves, WritersOf
<1>4. \A t \in Traders \ {req[r].who}, q \in Requests : q \in WritersOf(t)' =>
         q \in WritersOf(t) /\ req'[q] = req[q]
  BY DEF Moves, WritersOf
<1>5. ASSUME NEW t \in Traders \ exposed', t # req[r].who
      PROVE  /\ \A q, s \in WritersOf(t)' : q = s
             /\ WritersOf(t)' # {} => job'.step = "idle"
             /\ \A q \in WritersOf(t)' : req'[q].step = "cache" => row'[t] = NoTenant
  <2>1. WritersOf(t)' \subseteq Requests
    BY DEF WritersOf
  <2> QED BY <1>2, <1>4, <1>5, <2>1 DEF QuietInv
<1>6. ASSUME NEW t \in Traders \ exposed', t = req[r].who
      PROVE  /\ \A q, s \in WritersOf(t)' : q = s
             /\ WritersOf(t)' # {} => job'.step = "idle"
             /\ \A q \in WritersOf(t)' : req'[q].step = "cache" => row'[t] = NoTenant
  <2>1. WritersOf(t)' \subseteq {r}
    BY <1>1, <1>3, <1>6 DEF WritersOf
  <2> QED BY <1>1, <1>6, <2>1
<1> QED BY <1>1, <1>5, <1>6 DEF QuietInv

\* The end of a first login: nobody else was writing.
LEMMA CommitQuiet ==
    ASSUME AccountsTypeOK, LoginInv, QuietInv, NEW r \in Requests, CommitLogin(r)
    PROVE  /\ QuietInv'
           /\ \A t \in Traders \ {req[r].who} : row'[t] = row[t]
           /\ req[r].who \in Traders /\ row'[req[r].who] = req[r].tenant
           /\ req[r].tenant \in Tenants /\ r \in WritersOf(req[r].who)
           /\ \A t \in Traders \ exposed :
                 t = req[r].who => job.step = "idle" /\ WritersOf(t)' = {}
<1>1. Moves(r) /\ req'[r].step = "idle" /\ req[r].step = "commit" /\ job' = job
      /\ exposed' = exposed /\ row' = [row EXCEPT ![req[r].who] = req[r].tenant]
  BY RequestMoves, IsOver, RequestFrame DEF Serve, CommitLogin
<1>2. req[r].who \in Traders /\ req[r].tenant \in Tenants
  BY <1>1 DEF LoginInv, Inserted
<1>3. (\A t \in Traders \ {req[r].who} : row'[t] = row[t]) /\ row'[req[r].who] = req[r].tenant
  BY <1>1, <1>2 DEF AccountsTypeOK
<1>4. \A t \in Traders, q \in Requests : q \in WritersOf(t)' =>
         q \in WritersOf(t) /\ req'[q] = req[q] /\ q # r
  BY <1>1 DEF Moves, WritersOf, Inserted
<1>5. r \in WritersOf(req[r].who)
  BY <1>1 DEF WritersOf, Inserted
<1>6. ASSUME NEW t \in Traders, t = req[r].who, t \notin exposed
      PROVE  job.step = "idle" /\ WritersOf(t)' = {}
  <2>1. \A q \in WritersOf(t) : q = r
    BY <1>5, <1>6 DEF QuietInv
  <2>2. WritersOf(t)' = {}
    BY <1>4, <2>1 DEF WritersOf
  <2> QED BY <1>5, <1>6, <2>2 DEF QuietInv
<1>7. ASSUME NEW t \in Traders \ exposed', t # req[r].who
      PROVE  /\ \A q, s \in WritersOf(t)' : q = s
             /\ WritersOf(t)' # {} => job'.step = "idle"
             /\ \A q \in WritersOf(t)' : req'[q].step = "cache" => row'[t] = NoTenant
  <2>1. WritersOf(t)' \subseteq Requests
    BY DEF WritersOf
  <2> QED BY <1>1, <1>3, <1>4, <1>7, <2>1 DEF QuietInv
<1>8. QuietInv'
  BY <1>1, <1>2, <1>6, <1>7 DEF QuietInv
<1> QED BY <1>2, <1>3, <1>5, <1>6, <1>8

\* Whatever a request does, its like does not happen at the same time unnoticed.
LEMMA RequestQuiet ==
    ASSUME AccountsTypeOK, LoginInv, QuietInv, NEW r \in Requests,
           Call(r) \/ Serve(r) \/ RequestDies(r)
    PROVE  QuietInv'
<1>1. Moves(r) /\ job' = job
  BY RequestMoves, RequestFrame
<1>2. ASSUME exposed \subseteq exposed', row' = row, req'[r].step \notin Writing
      PROVE  QuietInv'
  BY <1>1, <1>2, NotWriting
<1>3. CASE Call(r)
  <2>1. PICK t \in Traders, s \in {"limit", "sign up", "match"}, code \in Nat : Open(r, t, s, code)
    BY <1>3, CallKinds
  <2>2. s \in ReqSteps
    BY DEF ReqSteps
  <2>3. req'[r].step = s
    BY <2>1, <2>2, Begins
  <2> QED BY <1>2, <2>1, <2>3 DEF Open, Writing, Inserted
<1>4. ASSUME End(r), row' = row, exposed \subseteq exposed' PROVE QuietInv'
  BY <1>2, <1>4, IsOver DEF Writing, Inserted
<1>5. ASSUME NEW s \in {"limit", "set", "count", "expire", "send", "delete", "find", "insert"}, To(r, s),
             row' = row, exposed \subseteq exposed'
      PROVE  QuietInv'
  <2>1. s \in ReqSteps
    BY DEF ReqSteps
  <2> QED BY <1>2, <1>5, <2>1, GoesOn DEF Writing, Inserted
<1>6. CASE CheckLimit(r) \/ SetCode(r) \/ CountAttempt(r) \/ SetWindow(r) \/ SendCode(r) \/ CacheTrader(r)
           \/ MatchCode(r) \/ DeleteCode(r) \/ FindUser(r) \/ RequestDies(r)
  BY <1>4, <1>5, <1>6 DEF CheckLimit, SetCode, CountAttempt, SetWindow, SendCode, CacheTrader, MatchCode,
         DeleteCode, FindUser, RequestDies
<1>7. CASE CreateTrader(r)
  <2>1. req[r].who \in Traders /\ req[r].step = "sign up"
    BY <1>7 DEF LoginInv, CreateTrader
  <2>2. CASE row[req[r].who] # Absent
    BY <1>5, <1>7, <2>2 DEF CreateTrader
  <2>3. CASE row[req[r].who] = Absent
    <3>1. /\ Touch(req[r].who) /\ To(r, "cache")
          /\ row' = [row EXCEPT ![req[r].who] = NoTenant]
      BY <1>7, <2>3 DEF CreateTrader
    <3>2. req'[r].who = req[r].who
      BY <3>1, GoesOn DEF ReqSteps
    <3>3. (\A t \in Traders \ {req[r].who} : row'[t] = row[t]) /\ row'[req[r].who] = NoTenant
      BY <2>1, <3>1 DEF AccountsTypeOK
    <3> QED BY <1>1, <2>1, <3>1, <3>2, <3>3, TouchQuiet DEF Writing, Inserted
  <2> QED BY <2>2, <2>3
<1>8. CASE CreateUser(r)
  <2>1. row' = row /\ req[r].who \in Traders /\ req[r].step = "insert"
    BY <1>8 DEF CreateUser, LoginInv
  <2>2. CASE Inserts(r)
    BY <1>1, <2>1, <2>2, TouchQuiet DEF Inserts, Writing, Inserted
  <2> QED BY <1>4, <1>8, <2>1, <2>2, InsertStep
<1>9. CASE MigrateOrders(r)
  <2>1. row' = row /\ exposed' = exposed
    BY <1>9 DEF MigrateOrders
  <2>2. req[r].step \in Writing /\ req'[r].who = req[r].who /\ req'[r].step # "cache"
    BY <1>9, MigrateStep DEF Writing, Inserted
  <2> QED BY <1>1, <2>1, <2>2, NotWriting
<1>10. CASE BustCaches(r)
  <2>1. row' = row /\ exposed' = exposed /\ To(r, "commit") /\ req[r].step \in Writing
    BY <1>10 DEF BustCaches, Writing, Inserted
  <2>2. req'[r].who = req[r].who /\ req'[r].step # "cache"
    BY <2>1, GoesOn DEF ReqSteps
  <2> QED BY <1>1, <2>1, <2>2, NotWriting
<1>11. CASE CommitLogin(r)
  BY <1>11, CommitQuiet
<1> QED BY <1>3, <1>6, <1>7, <1>8, <1>9, <1>10, <1>11 DEF Serve

\* What is cached of one trader.
CacheOf(t) ==
    /\ (\A r \in WritersOf(t) : req[r].step # "cache") => phoneCache[t] \in {Miss, Cached(row[t])}
    /\ slugCache[t] \in Tenants \cup {Platform} => slugCache[t] = row[t]
    /\ tenantCache = t => row[t] = Platform
    /\ \A r \in WritersOf(t) : req[r].step = "commit" =>
          phoneCache[t] = Miss /\ slugCache[t] = Miss /\ tenantCache # t

\* Records that expire, or that nobody touched.
LEMMA SameCache ==
    ASSUME NEW t \in Traders, CacheOf(t), row'[t] = row[t],
           phoneCache'[t] \in {Miss, phoneCache[t]}, slugCache'[t] \in {Miss, slugCache[t]},
           tenantCache' \in {Miss, tenantCache},
           \A r \in WritersOf(t)' : r \in WritersOf(t) /\ req'[r].step = req[r].step,
           \A r \in WritersOf(t) : req[r].step = "cache" => r \in WritersOf(t)'
    PROVE  CacheOf(t)'
<1>1. Miss \notin Tenants \cup {Platform} /\ Miss # t
  BY NamesDiffer
<1>2. Cached(row[t])' = Cached(row[t])
  BY DEF Cached
<1> QED BY <1>1, <1>2 DEF CacheOf

\* The listener fills the caches with what it has just read.
LEMMA ListenerCache ==
    ASSUME AccountsTypeOK, JobInv, QuietInv, CacheInv, LookInv, Arrive \/ Route \/ JobDies
    PROVE  CacheInv'
<1>1. /\ \A t \in Traders \ exposed' :
            t \notin exposed /\ WritersOf(t) = {} /\ WritersOf(t)' = {} /\ row'[t] = row[t]
  BY ListenerQuiet
<1>2. \A t \in Traders \ exposed : CacheOf(t)
  BY DEF CacheInv, CacheOf
<1>3. ASSUME UNCHANGED caches PROVE CacheInv'
  <2>1. \A t \in Traders \ exposed' : CacheOf(t)'
    BY <1>1, <1>2, <1>3, SameCache DEF caches
  <2> QED BY <2>1 DEF CacheInv, CacheOf
<1>4. CASE FillPhone
  <2>1. job.store \in Traders /\ job.step = "phone read"
    BY <1>4 DEF FillPhone, JobInv
  <2>2. job.store \notin exposed => job.got = Cached(row[job.store])
    BY <2>1 DEF LookInv
  <2>3. slugCache' = slugCache /\ tenantCache' = tenantCache
        /\ phoneCache' = [phoneCache EXCEPT ![job.store] = job.got]
    BY <1>4 DEF FillPhone
  <2>4. ASSUME NEW t \in Traders \ exposed' PROVE CacheOf(t)'
    <3>1. CASE t # job.store
      <4>1. phoneCache'[t] = phoneCache[t]
        BY <2>3, <3>1 DEF AccountsTypeOK
      <4> QED BY <1>1, <1>2, <2>3, <4>1, SameCache
    <3>2. CASE t = job.store
      <4>1. phoneCache'[t] = Cached(row[t])
        BY <1>1, <2>1, <2>2, <2>3, <3>2 DEF AccountsTypeOK
      <4>2. Cached(row[t])' = Cached(row[t])
        BY <1>1 DEF Cached
      <4> QED BY <1>1, <1>2, <2>3, <4>1, <4>2 DEF CacheOf
    <3> QED BY <3>1, <3>2
  <2> QED BY <2>4 DEF CacheInv, CacheOf
<1>5. CASE FillSlug
  <2>1. job.store \in Traders /\ job.step = "slug read"
    BY <1>5 DEF FillSlug, JobInv
  <2>2. job.store \notin exposed /\ job.got \in Tenants \cup {Platform} => job.got = row[job.store]
    BY <2>1 DEF LookInv
  <2>3. phoneCache' = phoneCache /\ tenantCache' = tenantCache
        /\ slugCache' = [slugCache EXCEPT ![job.store] = job.got]
    BY <1>5 DEF FillSlug
  <2>4. ASSUME NEW t \in Traders \ exposed' PROVE CacheOf(t)'
    <3>1. CASE t # job.store
      <4>1. slugCache'[t] = slugCache[t]
        BY <2>3, <3>1 DEF AccountsTypeOK
      <4> QED BY <1>1, <1>2, <2>3, <4>1, SameCache
    <3>2. CASE t = job.store
      <4>1. slugCache'[t] = job.got /\ (job.got \in Tenants \cup {Platform} => job.got = row[t])
        BY <1>1, <2>1, <2>2, <2>3, <3>2 DEF AccountsTypeOK
      <4>2. Cached(row[t])' = Cached(row[t])
        BY <1>1 DEF Cached
      <4> QED BY <1>1, <1>2, <2>3, <4>1, <4>2 DEF CacheOf
    <3> QED BY <3>1, <3>2
  <2> QED BY <2>4 DEF CacheInv, CacheOf
<1>6. CASE FillTenant
  <2>1. phoneCache' = phoneCache /\ slugCache' = slugCache /\ tenantCache' \in {Nobody, job.store}
        /\ (tenantCache' = job.store => job.store \in Traders \/ job.store = None)
    BY <1>6 DEF FillTenant, AccountsTypeOK, Job
  <2>2. job.store \in Traders \ exposed => row[job.store] = Platform
    BY <1>6 DEF FillTenant, LookInv
  <2>3. ASSUME NEW t \in Traders \ exposed' PROVE CacheOf(t)'
    <3>1. tenantCache' = t => row'[t] = Platform
      BY <1>1, <2>1, <2>2, NamesDiffer
    <3>2. Cached(row[t])' = Cached(row[t])
      BY <1>1 DEF Cached
    <3> QED BY <1>1, <1>2, <2>1, <3>1, <3>2 DEF CacheOf
  <2> QED BY <2>3 DEF CacheInv, CacheOf
<1> QED BY <1>3, <1>4, <1>5, <1>6 DEF Arrive, TraderWrites, CartArrives, CustomerWrites, StartJob,
        Route, FindByPhone, FindBySlug, Look, Command, TakeStore, SaveRoute, FollowSession,
        FindByTenant, FollowRoute, FileOrder, JobDies

\* What expires is no longer cached.
LEMMA TimeCache ==
    ASSUME AccountsTypeOK, CacheInv, TimePasses
    PROVE  CacheInv'
<1>1. /\ \A t \in Traders : /\ phoneCache'[t] \in {Miss, phoneCache[t]}
                            /\ slugCache'[t] \in {Miss, slugCache[t]}
      /\ tenantCache' \in {Miss, tenantCache}
  BY DEF TimePasses, CodeExpires, WindowEnds, PhoneExpires, SlugExpires, RoutingExpires,
         TenantExpires, caches, AccountsTypeOK
<1>2. row' = row /\ exposed' = exposed /\ req' = req
  BY TimeFrame
<1>3. \A t \in Traders : WritersOf(t)' = WritersOf(t)
  BY <1>2 DEF WritersOf
<1>4. \A t \in Traders \ exposed : CacheOf(t)'
  BY <1>1, <1>2, <1>3, SameCache DEF CacheInv, CacheOf
<1> QED BY <1>2, <1>4 DEF CacheInv, CacheOf

\* A first login finds her row on the platform, or without a tenant.
LEMMA LoginRow ==
    ASSUME AccountsTypeOK, LoginInv, NEW r \in Requests, req[r].step \in Inserted
    PROVE  /\ req[r].who \in Traders /\ row[req[r].who] \in {NoTenant, Platform}
           /\ OldTenant(req[r].who) = Platform
<1>1. req[r].step # "idle"
  BY DEF Inserted
<1>2. req[r].who \in Traders /\ row[req[r].who] # Absent /\ ~ HasAccount(req[r].who)
  BY <1>1 DEF LoginInv
<1>3. row[req[r].who] \in Owned \cup {Absent}
  BY <1>2 DEF AccountsTypeOK
<1>4. row[req[r].who] \notin Tenants
  BY <1>2 DEF LoginInv
<1> QED BY <1>2, <1>3, <1>4 DEF Owned, OldTenant

\* A step of a request that touches neither caches nor the row, nor ends an INSERT.
LEMMA NoCacheStep ==
    ASSUME CacheInv, NEW r \in Requests, Moves(r), exposed \subseteq exposed',
           UNCHANGED <<row, caches>>,
           req[r].step = "cache" => req[r].who \in exposed',
           req'[r].step \in Writing => req[r].step \in Writing /\ req'[r].who = req[r].who,
           req'[r].step # "commit"
    PROVE  CacheInv'
<1>1. ASSUME NEW t \in Traders \ exposed' PROVE CacheOf(t)'
  <2>1. t \notin exposed /\ CacheOf(t)
    BY DEF CacheInv, CacheOf
  <2>2. \A q \in WritersOf(t) : req[q].step = "cache" => q \in WritersOf(t)' /\ req'[q] = req[q]
    BY <1>1 DEF WritersOf, Moves
  <2>3. \A q \in WritersOf(t)' : q \in WritersOf(t) /\ (q # r => req'[q] = req[q])
    BY DEF WritersOf, Moves, Writing
  <2>4. (\A q \in WritersOf(t)' : req'[q].step # "cache") =>
           phoneCache[t] \in {Miss, Cached(row[t])}
    BY <2>1, <2>2 DEF CacheOf
  <2>5. \A q \in WritersOf(t)' : req'[q].step = "commit" =>
           phoneCache[t] = Miss /\ slugCache[t] = Miss /\ tenantCache # t
    BY <2>1, <2>3 DEF CacheOf
  <2>6. Cached(row[t])' = Cached(row[t])
    BY DEF Cached
  <2> QED BY <2>1, <2>4, <2>5, <2>6 DEF CacheOf, caches
<1> QED BY <1>1 DEF CacheInv, CacheOf

\* A sign-up finds nothing cached that names a tenant.
LEMMA SignUpCache ==
    ASSUME AccountsTypeOK, LoginInv, QuietInv, CacheInv, NEW r \in Requests, CreateTrader(r)
    PROVE  CacheInv'
<1>1. Moves(r) /\ req[r].step = "sign up" /\ UNCHANGED caches
  BY RequestMoves DEF Serve, CreateTrader
<1>2. req[r].who \in Traders
  BY <1>1 DEF LoginInv
<1>3. CASE row[req[r].who] # Absent
  <2>1. UNCHANGED <<row, exposed>> /\ req'[r].step = "limit"
    BY <1>3, GoesOn DEF CreateTrader, ReqSteps
  <2> QED BY <1>1, <2>1, NoCacheStep DEF Writing, Inserted
<1>4. CASE row[req[r].who] = Absent
  <2>1. /\ Touch(req[r].who) /\ row' = [row EXCEPT ![req[r].who] = NoTenant]
        /\ req'[r].step = "cache" /\ req'[r].who = req[r].who
    BY <1>4, GoesOn DEF CreateTrader, ReqSteps
  <2>2. exposed \subseteq exposed' /\ (req[r].who \notin exposed' => WritersOf(req[r].who) = {})
    BY <2>1 DEF Touch
  <2>3. ASSUME NEW t \in Traders \ exposed', t # req[r].who PROVE CacheOf(t)'
    <3>1. row'[t] = row[t] /\ CacheOf(t)
      BY <1>2, <2>1, <2>2, <2>3 DEF AccountsTypeOK, CacheInv, CacheOf
    <3>2. \A q \in Requests : q \in WritersOf(t)' <=> q \in WritersOf(t)
      BY <1>1, <2>1, <2>3 DEF WritersOf, Moves
    <3>3. \A q \in WritersOf(t) : q \in Requests /\ req'[q] = req[q]
      BY <1>1, <2>3 DEF WritersOf, Moves, Inserted
    <3>4. WritersOf(t)' \subseteq Requests
      BY DEF WritersOf
    <3> QED BY <1>1, <3>1, <3>2, <3>3, <3>4, SameCache DEF caches
  <2>4. ASSUME NEW t \in Traders \ exposed', t = req[r].who PROVE CacheOf(t)'
    <3>1. row'[t] = NoTenant /\ row[t] = Absent /\ CacheOf(t)
      BY <1>2, <1>4, <2>1, <2>2, <2>4 DEF AccountsTypeOK, CacheInv, CacheOf
    <3>2. r \in WritersOf(t)' /\ req'[r].step = "cache"
      BY <2>1, <2>4 DEF WritersOf
    <3>3. \A q \in WritersOf(t)' : q = r
      BY <1>1, <2>2, <2>4 DEF WritersOf, Moves
    <3>4. slugCache[t] \notin Tenants \cup {Platform} /\ tenantCache # t
      BY <3>1, NamesDiffer DEF CacheOf, Owned
    <3> QED BY <1>1, <3>2, <3>3, <3>4 DEF CacheOf, caches
  <2> QED BY <2>3, <2>4 DEF CacheInv, CacheOf
<1> QED BY <1>3, <1>4

\* Of two requests that write, one would be noticed.
LEMMA OnlyWriter ==
    ASSUME QuietInv, NEW r \in Requests, req[r].step \in Writing, req[r].who \in Traders \ exposed
    PROVE  WritersOf(req[r].who) = {r} /\ job.step = "idle"
  BY DEF QuietInv, WritersOf, Writing

\* A sign-up caches the row it has written.
LEMMA FillCache ==
    ASSUME AccountsTypeOK, LoginInv, QuietInv, CacheInv, NEW r \in Requests, CacheTrader(r)
    PROVE  CacheInv'
<1>1. Moves(r) /\ req[r].step = "cache" /\ UNCHANGED <<row, slugCache, tenantCache, exposed>>
      /\ phoneCache' = [phoneCache EXCEPT ![req[r].who] = NoTenant]
  BY RequestMoves DEF Serve, CacheTrader
<1>2. req'[r].step = "limit" /\ req[r].who \in Traders
  BY <1>1, GoesOn DEF CacheTrader, ReqSteps, LoginInv
<1>3. ASSUME NEW t \in Traders \ exposed, t # req[r].who PROVE CacheOf(t)'
  <2>1. phoneCache'[t] = phoneCache[t] /\ CacheOf(t)
    BY <1>1, <1>2, <1>3 DEF AccountsTypeOK, CacheInv, CacheOf
  <2>2. \A q \in Requests : q \in WritersOf(t)' <=> q \in WritersOf(t)
    BY <1>1, <1>2, <1>3 DEF WritersOf, Moves, Inserted
  <2>3. \A q \in WritersOf(t) : q \in Requests /\ req'[q] = req[q]
    BY <1>1, <1>3 DEF WritersOf, Moves
  <2>4. WritersOf(t)' \subseteq Requests
    BY DEF WritersOf
  <2> QED BY <1>1, <2>1, <2>2, <2>3, <2>4, SameCache
<1>4. ASSUME NEW t \in Traders \ exposed, t = req[r].who PROVE CacheOf(t)'
  <2>1. phoneCache'[t] = NoTenant /\ CacheOf(t)
    BY <1>1, <1>2, <1>4 DEF AccountsTypeOK, CacheInv, CacheOf
  <2>2. WritersOf(t) = {r}
    BY <1>1, <1>4, OnlyWriter DEF Writing
  <2>3. row[t] = NoTenant
    BY <1>1, <1>4, <2>2 DEF QuietInv
  <2>4. WritersOf(t)' = {}
    BY <1>1, <1>2, <2>2 DEF WritersOf, Moves, Inserted
  <2>5. Cached(row[t])' = NoTenant
    BY <1>1, <2>3, NamesDiffer DEF Cached
  <2> QED BY <1>1, <2>1, <2>4, <2>5 DEF CacheOf
<1> QED BY <1>1, <1>3, <1>4 DEF CacheInv, CacheOf

\* A first login forgets what is cached,
LEMMA BustCache ==
    ASSUME AccountsTypeOK, LoginInv, QuietInv, CacheInv, NEW r \in Requests, BustCaches(r)
    PROVE  CacheInv'
<1>1. Moves(r) /\ req[r].step = "bust" /\ UNCHANGED <<row, exposed>>
  BY RequestMoves DEF Serve, BustCaches
<1>2. req'[r].step = "commit" /\ req'[r].who = req[r].who
  BY <1>1, GoesOn DEF BustCaches, ReqSteps
<1>3. req[r].who \in Traders /\ OldTenant(req[r].who) = Platform
  BY <1>1, LoginRow DEF Inserted
<1>4. /\ phoneCache' = [phoneCache EXCEPT ![req[r].who] = Miss]
      /\ slugCache' = [slugCache EXCEPT ![req[r].who] = Miss]
      /\ tenantCache' = Miss
  BY <1>3 DEF BustCaches
<1>5. ASSUME NEW t \in Traders \ exposed, t # req[r].who PROVE CacheOf(t)'
  <2>1. phoneCache'[t] = phoneCache[t] /\ slugCache'[t] = slugCache[t] /\ CacheOf(t)
    BY <1>3, <1>4, <1>5 DEF AccountsTypeOK, CacheInv, CacheOf
  <2>2. \A q \in Requests : q \in WritersOf(t)' <=> q \in WritersOf(t)
    BY <1>1, <1>2, <1>5 DEF WritersOf, Moves, Inserted
  <2>3. \A q \in WritersOf(t) : q \in Requests /\ req'[q] = req[q]
    BY <1>1, <1>5 DEF WritersOf, Moves
  <2>4. WritersOf(t)' \subseteq Requests
    BY DEF WritersOf
  <2> QED BY <1>1, <1>4, <2>1, <2>2, <2>3, <2>4, SameCache
<1>6. ASSUME NEW t \in Traders \ exposed, t = req[r].who PROVE CacheOf(t)'
  <2>1. phoneCache'[t] = Miss /\ slugCache'[t] = Miss /\ tenantCache' # t
    BY <1>3, <1>4, <1>6, NamesDiffer DEF AccountsTypeOK
  <2> QED BY <1>4, <2>1, NamesDiffer DEF CacheOf, Owned
<1> QED BY <1>1, <1>5, <1>6 DEF CacheInv, CacheOf

\* and nothing is cached until it commits.
LEMMA CommitCache ==
    ASSUME AccountsTypeOK, LoginInv, QuietInv, CacheInv, NEW r \in Requests, CommitLogin(r)
    PROVE  CacheInv'
<1>1. Moves(r) /\ req[r].step = "commit" /\ UNCHANGED <<caches, exposed>>
  BY RequestMoves DEF Serve, CommitLogin
<1>2. req'[r].step = "idle"
  BY IsOver DEF CommitLogin
<1>3. /\ \A t \in Traders \ {req[r].who} : row'[t] = row[t]
      /\ req[r].who \in Traders /\ r \in WritersOf(req[r].who)
      /\ \A t \in Traders \ exposed :
            t = req[r].who => job.step = "idle" /\ WritersOf(t)' = {}
  BY CommitQuiet
<1>4. ASSUME NEW t \in Traders \ exposed, t # req[r].who PROVE CacheOf(t)'
  <2>1. row'[t] = row[t] /\ CacheOf(t)
    BY <1>3, <1>4 DEF CacheInv, CacheOf
  <2>2. \A q \in Requests : q \in WritersOf(t)' <=> q \in WritersOf(t)
    BY <1>1, <1>2, <1>4 DEF WritersOf, Moves, Inserted
  <2>3. \A q \in WritersOf(t) : q \in Requests /\ req'[q] = req[q]
    BY <1>1, <1>4 DEF WritersOf, Moves
  <2>4. WritersOf(t)' \subseteq Requests
    BY DEF WritersOf
  <2> QED BY <1>1, <2>1, <2>2, <2>3, <2>4, SameCache DEF caches
<1>5. ASSUME NEW t \in Traders \ exposed, t = req[r].who PROVE CacheOf(t)'
  <2>1. phoneCache[t] = Miss /\ slugCache[t] = Miss /\ tenantCache # t
    BY <1>1, <1>3, <1>5 DEF CacheInv
  <2>2. WritersOf(t)' = {}
    BY <1>3, <1>5
  <2> QED BY <1>1, <2>1, <2>2, NamesDiffer DEF CacheOf, caches, Owned
<1> QED BY <1>1, <1>4, <1>5 DEF CacheInv, CacheOf

\* Whatever a request does, the caches of an undisturbed trader show her row.
LEMMA RequestCache ==
    ASSUME AccountsTypeOK, LoginInv, QuietInv, CacheInv, NEW r \in Requests,
           Call(r) \/ Serve(r) \/ RequestDies(r)
    PROVE  CacheInv'
<1>1. Moves(r)
  BY RequestMoves
<1>2. ASSUME UNCHANGED <<row, caches, exposed>>, req[r].step # "cache",
             req'[r].step \notin Writing
      PROVE  CacheInv'
  BY <1>1, <1>2, NoCacheStep DEF Writing, Inserted
<1>3. CASE Call(r)
  <2>1. PICK t \in Traders, s \in {"limit", "sign up", "match"}, code \in Nat : Open(r, t, s, code)
    BY <1>3, CallKinds
  <2>2. s \in ReqSteps
    BY DEF ReqSteps
  <2>3. req'[r].step = s /\ req[r].step = "idle"
    BY <2>1, <2>2, Begins
  <2> QED BY <1>2, <2>1, <2>3 DEF Open, Writing, Inserted
<1>4. ASSUME End(r), UNCHANGED <<row, caches, exposed>>, req[r].step # "cache" PROVE CacheInv'
  BY <1>2, <1>4, IsOver DEF Writing, Inserted
<1>5. ASSUME NEW s \in {"set", "count", "expire", "send", "delete", "find", "insert"}, To(r, s),
             UNCHANGED <<row, caches, exposed>>, req[r].step # "cache"
      PROVE  CacheInv'
  <2>1. s \in ReqSteps
    BY DEF ReqSteps
  <2> QED BY <1>2, <1>5, <2>1, GoesOn DEF Writing, Inserted
<1>6. CASE CheckLimit(r) \/ SetCode(r) \/ CountAttempt(r) \/ SetWindow(r) \/ SendCode(r)
           \/ MatchCode(r) \/ DeleteCode(r) \/ FindUser(r)
  BY <1>4, <1>5, <1>6 DEF CheckLimit, SetCode, CountAttempt, SetWindow, SendCode, MatchCode,
         DeleteCode, FindUser
<1>7. CASE RequestDies(r)
  <2>1. /\ UNCHANGED <<row, caches>> /\ exposed \subseteq exposed'
        /\ req[r].step = "cache" => req[r].who \in exposed'
    BY <1>7 DEF RequestDies
  <2>2. req'[r].step = "idle"
    BY <1>7, IsOver DEF RequestDies
  <2> QED BY <1>1, <2>1, <2>2, NoCacheStep DEF Writing, Inserted
<1>8. CASE CreateUser(r)
  <2>1. UNCHANGED <<row, caches>> /\ req[r].who \in Traders /\ req[r].step = "insert"
    BY <1>8 DEF CreateUser, LoginInv
  <2>2. CASE Inserts(r)
    <3>1. exposed \subseteq exposed' /\ (req[r].who \notin exposed' => WritersOf(req[r].who) = {})
      BY <2>2 DEF Inserts, Touch
    <3>2. req'[r].step = "migrate" /\ req'[r].who = req[r].who
      BY <2>2 DEF Inserts
    <3>3. ASSUME NEW t \in Traders \ exposed' PROVE CacheOf(t)'
      <4>1. CacheOf(t)
        BY <3>1 DEF CacheInv, CacheOf
      <4>2. \A q \in WritersOf(t) : q \in WritersOf(t)' /\ req'[q] = req[q]
        BY <1>1, <2>1 DEF WritersOf, Moves, Inserted
      <4>3. \A q \in WritersOf(t)' : q = r \/ (q \in WritersOf(t) /\ req'[q] = req[q])
        BY <1>1 DEF WritersOf, Moves
      <4>4. Cached(row[t])' = Cached(row[t])
        BY <2>1 DEF Cached
      <4> QED BY <2>1, <3>2, <4>1, <4>2, <4>3, <4>4 DEF CacheOf, caches
    <3> QED BY <3>3 DEF CacheInv, CacheOf
  <2> QED BY <1>4, <1>8, <2>1, <2>2, InsertStep
<1>9. CASE MigrateOrders(r)
  <2>1. UNCHANGED <<row, caches, exposed>>
    BY <1>9 DEF MigrateOrders
  <2>2. req[r].step = "migrate" /\ req'[r].step = "bust" /\ req'[r].who = req[r].who
    BY <1>9, MigrateStep
  <2> QED BY <1>1, <2>1, <2>2, NoCacheStep DEF Writing, Inserted
<1> QED BY <1>3, <1>6, <1>7, <1>8, <1>9, SignUpCache, FillCache, BustCache, CommitCache DEF Serve

\* What a job has looked up of a trader who is not exposed.
Looked ==
    /\ job.step \in {"phone read", "command"} => job.got = Cached(row[job.store])
    /\ job.step \in {"slug read", "take"} /\ job.got \in Tenants \cup {Platform} =>
          job.got = row[job.store]
    /\ job.step \in {"upsert", "file"} /\ job.via # "session" => job.got = row[job.store]
    /\ job.step = "tenant read" => row[job.store] = Platform

\* A lookup by phone or by store link: the cache is right, and so is the row.
LEMMA LookLooked ==
    ASSUME AccountsTypeOK, JobInv, QuietInv, CacheInv, LookInv, FindByPhone \/ FindBySlug,
           job'.store \in Traders \ exposed'
    PROVE  Looked'
<1>1. job \in Job /\ job.step \in {"phone", "slug"} /\ exposed' = exposed /\ row' = row
      /\ job.store \in Traders
  BY DEF FindByPhone, FindBySlug, Look, AccountsTypeOK, JobInv, accounts
<1>2. job'.store = job.store
  BY <1>1 DEF FindByPhone, FindBySlug, Look, Job
<1>3. WritersOf(job.store) = {} /\ CacheOf(job.store)
  BY <1>1, <1>2, ListenerQuiet DEF Route, CacheInv, CacheOf
<1>4. CASE FindByPhone
  <2>1. phoneCache[job.store] \in {Miss, Cached(row[job.store])}
    BY <1>3 DEF CacheOf
  <2>2. job'.got = Cached(row[job.store]) /\ job'.step \in {"phone read", "command"}
    BY <1>1, <1>4, <2>1 DEF FindByPhone, Look, Job
  <2> QED BY <1>1, <1>2, <2>2 DEF Looked, Cached
<1>5. CASE FindBySlug
  <2>1. job'.step \in {"slug read", "take"}
        /\ (job'.got = slugCache[job.store] \/ job'.got = Cached(row[job.store]))
    BY <1>1, <1>5 DEF FindBySlug, Look, Job
  <2>2. Cached(row[job.store]) \in Tenants \cup {Platform} => Cached(row[job.store]) = row[job.store]
    BY NamesDiffer DEF Cached, Owned
  <2>3. job'.got \in Tenants \cup {Platform} => job'.got = row[job.store]
    BY <1>3, <2>1, <2>2 DEF CacheOf
  <2> QED BY <1>1, <1>2, <2>1, <2>3 DEF Looked
<1> QED BY <1>4, <1>5

\* A job that goes on with what it has looked up.
LEMMA GoOnLooked ==
    ASSUME AccountsTypeOK, JobInv, LookInv, FillPhone \/ FillSlug \/ SaveRoute \/ TakeStore,
           job'.store \in Traders \ exposed'
    PROVE  Looked'
<1>1. job \in Job /\ exposed' = exposed /\ row' = row
  BY DEF FillPhone, FillSlug, SaveRoute, TakeStore, AccountsTypeOK, accounts
<1>2. CASE FillPhone \/ FillSlug \/ SaveRoute
  <2>1. PICK s \in {"command", "take", "file"} :
           /\ job' = [job EXCEPT !.step = s]
           /\ \/ s = "command" /\ job.step = "phone read"
              \/ s = "take" /\ job.step = "slug read"
              \/ s = "file" /\ job.step = "upsert"
    BY <1>2 DEF FillPhone, FillSlug, SaveRoute
  <2>2. job'.step = s /\ job'.store = job.store /\ job'.got = job.got /\ job'.via = job.via
    BY <1>1, <2>1 DEF Job
  <2>3. Cached(row[job.store])' = Cached(row[job.store])
    BY <1>1, <2>2 DEF Cached
  <2> QED BY <1>1, <2>1, <2>2, <2>3 DEF Looked, LookInv
<1>3. CASE TakeStore
  <2>1. CASE job.got \in {Nobody, NoTenant}
    <3>1. job' = Idle
      BY <1>3, <2>1 DEF TakeStore
    <3> QED BY <3>1, IdleJob, NamesDiffer
  <2>2. CASE job.got \notin {Nobody, NoTenant}
    <3>1. job.got \in Tenants \cup {Platform} /\ job.step = "take"
      BY <1>1, <1>3, <2>2 DEF TakeStore, Job, Owned
    <3>2. job'.step \in {"upsert", "file"} /\ job'.store = job.store /\ job'.got = job.got
          /\ job'.via = job.via
      BY <1>1, <1>3, <2>2 DEF TakeStore, Job
    <3> QED BY <1>1, <3>1, <3>2 DEF Looked, LookInv
  <2> QED BY <2>1, <2>2
<1> QED BY <1>2, <1>3

\* The trader of the platform's tenant, cached or found.
LEMMA TenantLooked ==
    ASSUME AccountsTypeOK, JobInv, CacheInv, LookInv, FindByTenant \/ FillTenant,
           job'.store \in Traders \ exposed'
    PROVE  Looked'
<1>1. job \in Job /\ exposed' = exposed /\ row' = row
  BY DEF FindByTenant, FillTenant, AccountsTypeOK, accounts
<1>2. ASSUME NEW t \in Traders, job' = Direct(t), t \notin exposed => row[t] = Platform PROVE Looked'
  <2>1. job'.step = "file" /\ job'.store = t /\ job'.got = Platform /\ job'.via = "direct"
    BY <1>1, <1>2 DEF Direct, Job
  <2> QED BY <1>1, <1>2, <2>1 DEF Looked
<1>3. ASSUME job' = [job EXCEPT !.step = "stored"] PROVE Looked'
  <2>1. job'.step = "stored"
    BY <1>1, <1>3 DEF Job
  <2> QED BY <2>1 DEF Looked
<1>4. ASSUME job' = Idle PROVE Looked'
  BY <1>4, IdleJob, NamesDiffer
<1>5. CASE FindByTenant
  <2>1. CASE tenantCache = Nobody
    BY <1>3, <1>5, <2>1, NamesDiffer DEF FindByTenant
  <2>2. CASE tenantCache \in Traders
    <3>1. job' = Direct(tenantCache)
      BY <1>5, <2>2, NamesDiffer DEF FindByTenant
    <3>2. tenantCache \notin exposed => row[tenantCache] = Platform
      BY <2>2 DEF CacheInv
    <3> QED BY <1>2, <2>2, <3>1, <3>2
  <2>3. CASE tenantCache = Miss
    <3> DEFINE found == IF OnPlatform = {} THEN None ELSE CHOOSE t \in OnPlatform : TRUE
    <3>1. found = None \/ (found \in Traders /\ row[found] = Platform)
      BY DEF OnPlatform
    <3>2. job' = Idle \/ job' = [job EXCEPT !.step = "tenant read", !.store = found]
      BY <1>5, <2>3, NamesDiffer DEF FindByTenant
    <3> HIDE DEF found
    <3>3. job' # Idle => job'.step = "tenant read" /\ job'.store = found
      BY <1>1, <3>2 DEF Job
    <3> QED BY <1>1, <1>4, <3>1, <3>3, NamesDiffer DEF Looked
  <2> QED BY <2>1, <2>2, <2>3 DEF AccountsTypeOK
<1>6. CASE FillTenant
  <2>1. CASE job.store = None
    BY <1>3, <1>6, <2>1 DEF FillTenant
  <2>2. CASE job.store # None
    <3>1. job' = Direct(job.store) /\ job.store \in Traders /\ job.step = "tenant read"
      BY <1>1, <1>6, <2>2 DEF FillTenant, Job
    <3>2. job.store \notin exposed => row[job.store] = Platform
      BY <3>1 DEF LookInv
    <3> QED BY <1>2, <3>1, <3>2
  <2> QED BY <2>1, <2>2
<1> QED BY <1>5, <1>6

\* Whatever the listener does, its job knows the row.
LEMMA ListenerLook ==
    ASSUME AccountsTypeOK, JobInv, QuietInv, CacheInv, LookInv, Arrive \/ Route \/ JobDies
    PROVE  LookInv'
<1> SUFFICES ASSUME job'.store \in Traders \ exposed' PROVE Looked'
  BY DEF LookInv, Looked
<1>1. job \in Job
  BY DEF AccountsTypeOK
<1>2. CASE Arrive
  <2>1. job'.step \in {"phone", "slug", "session"}
    BY <1>2 DEF Arrive, TraderWrites, CartArrives, CustomerWrites, StartJob
  <2> QED BY <2>1 DEF Looked
<1>3. CASE Command \/ FileOrder \/ JobDies
  <2>1. job' = Idle
    BY <1>3 DEF Command, FileOrder, JobDies
  <2> QED BY <2>1, IdleJob, NamesDiffer
<1>4. CASE FollowSession \/ FollowRoute
  <2>1. job'.step \in {"tenant", "slug", "idle"} \/ (job'.step = "file" /\ job'.via = "session")
    BY <1>1, <1>4, IdleJob DEF FollowSession, FollowRoute, Job
  <2> QED BY <2>1 DEF Looked
<1> QED BY <1>2, <1>3, <1>4, LookLooked, GoOnLooked, TenantLooked DEF Route

\* Whatever a request does: while it changes a row, the listener rests, or the trader is
\* exposed.
LEMMA RequestLook ==
    ASSUME AccountsTypeOK, LoginInv, QuietInv, LookInv, NEW r \in Requests,
           Call(r) \/ Serve(r) \/ RequestDies(r)
    PROVE  LookInv'
<1>1. job' = job
  BY RequestFrame
<1>2. exposed \subseteq exposed'
  BY DEF Call, RequestOtp, SignUpPhone, VerifyOtp, Open, Serve, CheckLimit, SetCode, CountAttempt,
         SetWindow, SendCode, CreateTrader, CacheTrader, MatchCode, DeleteCode, FindUser, CreateUser, Touch,
         MigrateOrders, BustCaches, CommitLogin, RequestDies
<1>3. \A t \in Traders \ exposed' : row'[t] = row[t] \/ job.step = "idle"
  <2>1. CASE CreateTrader(r)
    <3>1. req[r].who \in Traders
      BY <2>1 DEF LoginInv, CreateTrader
    <3> QED BY <2>1, <3>1 DEF CreateTrader, Touch, AccountsTypeOK
  <2>2. CASE CommitLogin(r)
    BY <1>2, <2>2, CommitQuiet
  <2>3. CASE ~ CreateTrader(r) /\ ~ CommitLogin(r)
    BY <2>3 DEF Call, RequestOtp, SignUpPhone, VerifyOtp, Open, Serve, CheckLimit, SetCode,
         CountAttempt, SetWindow, SendCode, CacheTrader, MatchCode, DeleteCode, FindUser, CreateUser,
         MigrateOrders, BustCaches, RequestDies
  <2> QED BY <2>1, <2>2, <2>3
<1>4. ASSUME job.store \in Traders \ exposed' PROVE Looked'
  <2>1. Looked /\ (row'[job.store] = row[job.store] \/ job.step = "idle")
    BY <1>2, <1>3, <1>4 DEF LookInv, Looked
  <2>2. CASE job.step = "idle"
    BY <1>1, <2>2 DEF Looked
  <2>3. CASE row'[job.store] = row[job.store]
    <3>1. Cached(row[job.store])' = Cached(row[job.store])
      BY <1>1, <2>3 DEF Cached
    <3> QED BY <1>1, <2>1, <2>3, <3>1 DEF Looked
  <2> QED BY <2>1, <2>2, <2>3
<1> QED BY <1>1, <1>4 DEF LookInv, Looked

-----------------------------------------------------------------------------
(* The orders.                                                             *)

Ids == 1..Cardinality(orders)

\* What a first login is about to move.
MovesOK(r) ==
    /\ req[r].moves \subseteq Ids
    /\ \A o \in orders : o.id \in req[r].moves => o.store = req[r].who
    /\ \A o \in orders :
          o.store = req[r].who /\ o.store \notin exposed /\ o.via # "session" => o.id \in req[r].moves

\* Orders that a step of a request leaves alone.
LEMMA SameOrders ==
    ASSUME AccountsTypeOK, OrdersInv, NEW r \in Requests, Moves(r), orders' = orders,
           exposed \subseteq exposed',
           \A o \in orders : row'[o.store] = row[o.store] \/ o.store \in exposed',
           req'[r].step \in {"bust", "commit"} =>
              /\ req[r].step \in {"bust", "commit"} /\ req'[r].who = req[r].who
              /\ req'[r].moves = req[r].moves
    PROVE  OrdersInv'
<1>1. \A o \in orders' : o.store \in exposed' \/ o.via = "session" \/ o.tenant = row'[o.store]
  BY DEF OrdersInv
<1>2. ASSUME NEW q \in Requests, req'[q].step \in {"bust", "commit"} PROVE MovesOK(q)'
  <2>1. req[q].step \in {"bust", "commit"} /\ req'[q].who = req[q].who
        /\ req'[q].moves = req[q].moves
    BY <1>2 DEF Moves
  <2>2. MovesOK(q)
    BY <2>1 DEF OrdersInv, MovesOK, Ids
  <2> QED BY <2>1, <2>2 DEF MovesOK, Ids
<1>3. /\ IsFiniteSet(orders') /\ \A o \in orders' : o.id \in 1..Cardinality(orders')
      /\ \A o, p \in orders' : o.id = p.id => o = p
  BY DEF OrdersInv
<1> QED BY <1>1, <1>2, <1>3 DEF OrdersInv, MovesOK, Ids

\* The UPDATE of a first login finds every order that should move.
LEMMA MigrateAll ==
    ASSUME AccountsTypeOK, LoginInv, OrdersInv, NEW r \in Requests, MigrateOrders(r)
    PROVE  OrdersInv'
<1>1. /\ req'[r].step = "bust" /\ req'[r].who = req[r].who
      /\ req'[r].moves = {o.id : o \in Mine(req[r].who)} /\ req[r].step = "migrate" /\ Moves(r)
  BY MigrateStep DEF Moves
<1>2. req[r].who \in Traders /\ row[req[r].who] \in {NoTenant, Platform}
      /\ OldTenant(req[r].who) = Platform
  BY <1>1, LoginRow DEF Inserted
<1>3. UNCHANGED <<orders, row, exposed>>
  BY DEF MigrateOrders
<1>4. ASSUME NEW q \in Requests, q # r, req'[q].step \in {"bust", "commit"} PROVE MovesOK(q)'
  <2>1. req'[q] = req[q]
    BY <1>1, <1>4 DEF Moves
  <2>2. MovesOK(q)
    BY <1>4, <2>1 DEF OrdersInv, MovesOK, Ids
  <2> QED BY <1>3, <2>1, <2>2 DEF MovesOK, Ids
<1>5. ASSUME NEW q \in Requests, q = r PROVE MovesOK(q)'
  <2>1. \A o \in orders : o.id \in req'[q].moves <=> \E p \in Mine(req[r].who) : p.id = o.id
    BY <1>1, <1>5
  <2>2. \A o \in orders : o.id \in req'[q].moves => o.store = req[r].who
    BY <2>1 DEF Mine, OrdersInv
  <2>3. \A p \in Mine(req[r].who) : p.id \in Ids
    BY DEF Mine, OrdersInv, Ids
  <2>4. req'[q].moves \subseteq Ids
    BY <1>1, <1>5, <2>3
  <2>5. ASSUME NEW o \in orders, o.store = req[r].who, o.store \notin exposed, o.via # "session"
        PROVE  o.id \in req'[q].moves
    <3>1. o.tenant = row[req[r].who] /\ o.tenant \in Tenants \cup {Platform}
      BY <2>5 DEF OrdersInv, AccountsTypeOK, Order
    <3>2. o.tenant = Platform
      BY <1>2, <3>1, NamesDiffer
    <3>3. o \in Mine(req[r].who)
      BY <1>2, <2>5, <3>2 DEF Mine
    <3> QED BY <2>1, <3>3
  <2> QED BY <1>1, <1>3, <1>5, <2>2, <2>4, <2>5 DEF MovesOK, Ids
<1>6. \A q \in Requests : req'[q].step \in {"bust", "commit"} => MovesOK(q)'
  BY <1>4, <1>5
<1> QED BY <1>3, <1>6 DEF OrdersInv, MovesOK, Ids

\* The commit of a first login changes the tenant of the orders it moves, and nothing else.
MoveTo(o, ids, n) == IF o.id \in ids THEN [o EXCEPT !.tenant = n] ELSE o

\* The commit keeps the orders as many as they are, with their ids.
LEMMA CommitMoves ==
    ASSUME AccountsTypeOK, OrdersInv, NEW r \in Requests, CommitLogin(r), req[r].tenant \in Tenants
    PROVE  /\ IsFiniteSet(orders') /\ Cardinality(orders') = Cardinality(orders)
           /\ \A p \in orders' : \E o \in orders :
                 /\ p.id = o.id /\ p.store = o.store /\ p.via = o.via
                 /\ p = MoveTo(o, req[r].moves, req[r].tenant)
                 /\ p.tenant = IF o.id \in req[r].moves THEN req[r].tenant ELSE o.tenant
<1> DEFINE Moved(o) == MoveTo(o, req[r].moves, req[r].tenant)
           f == [o \in orders |-> Moved(o)]
<1>1. orders' = {Moved(o) : o \in orders}
  BY DEF CommitLogin, MoveTo
<1>2. \A o \in orders : o \in Order
  BY DEF AccountsTypeOK
<1>3. \A o \in orders : /\ Moved(o).id = o.id /\ Moved(o).store = o.store /\ Moved(o).via = o.via
                        /\ Moved(o).tenant = IF o.id \in req[r].moves THEN req[r].tenant ELSE o.tenant
  BY <1>2 DEF Order, MoveTo
<1> HIDE DEF Moved
<1>4. f \in Surjection(orders, orders')
  BY <1>1 DEF Surjection
<1>5. f \in Injection(orders, orders')
  <2>1. \A o, p \in orders : f[o] = f[p] => o = p
    BY <1>3 DEF OrdersInv
  <2>2. f \in [orders -> orders']
    BY <1>1
  <2> QED BY <2>1, <2>2 DEF Injection, IsInjective
<1>6. IsFiniteSet(orders)
  BY DEF OrdersInv
<1>7. IsFiniteSet(orders') /\ Cardinality(orders') = Cardinality(orders)
  BY <1>4, <1>5, <1>6, FS_Surjection
<1>8. \A p \in orders' : \E o \in orders : p = Moved(o)
  BY <1>1
<1> QED BY <1>3, <1>7, <1>8 DEF Moved

\* After it the trader's orders are where her row says.
LEMMA CommitOrders ==
    ASSUME AccountsTypeOK, LoginInv, QuietInv, OrdersInv, NEW r \in Requests, CommitLogin(r)
    PROVE  OrdersInv'
<1>1. Moves(r) /\ req[r].step = "commit" /\ exposed' = exposed
  BY RequestMoves DEF Serve, CommitLogin
<1>2. req'[r].step = "idle"
  BY IsOver DEF CommitLogin
<1>3. /\ \A t \in Traders \ {req[r].who} : row'[t] = row[t]
      /\ req[r].who \in Traders /\ row'[req[r].who] = req[r].tenant /\ req[r].tenant \in Tenants
  BY CommitQuiet
<1>4. PICK ids, n, t : ids = req[r].moves /\ n = req[r].tenant /\ t = req[r].who
  OBVIOUS
<1>5. /\ IsFiniteSet(orders') /\ Cardinality(orders') = Cardinality(orders)
      /\ \A p \in orders' : \E o \in orders :
            /\ p.id = o.id /\ p.store = o.store /\ p.via = o.via /\ p = MoveTo(o, ids, n)
            /\ p.tenant = IF o.id \in ids THEN n ELSE o.tenant
  BY <1>3, <1>4, CommitMoves
<1>6. MovesOK(r)
  BY <1>1 DEF OrdersInv, MovesOK, Ids
<1>7. \A o \in orders : o.id \in Ids
  BY DEF OrdersInv, Ids
<1>8. \A p \in orders' : p.id \in 1..Cardinality(orders')
  BY <1>5, <1>7 DEF Ids
<1>9. \A p, q \in orders' : p.id = q.id => p = q
  <2> TAKE p, q \in orders'
  <2> HAVE p.id = q.id
  <2>1. PICK o \in orders : p.id = o.id /\ p = MoveTo(o, ids, n)
    BY <1>5
  <2>2. PICK s \in orders : q.id = s.id /\ q = MoveTo(s, ids, n)
    BY <1>5
  <2>3. o = s
    BY <2>1, <2>2 DEF OrdersInv
  <2> QED BY <2>1, <2>2, <2>3
<1>10. ASSUME NEW p \in orders'
       PROVE  p.store \in exposed' \/ p.via = "session" \/ p.tenant = row'[p.store]
  <2>1. PICK o \in orders : /\ p.id = o.id /\ p.store = o.store /\ p.via = o.via
                            /\ p.tenant = IF o.id \in ids THEN n ELSE o.tenant
    BY <1>5
  <2>2. o.store \in Traders
    BY DEF AccountsTypeOK, Order
  <2>3. CASE o.id \in ids
    <3>1. o.store = t
      BY <1>4, <1>6, <2>3 DEF MovesOK
    <3> QED BY <1>3, <1>4, <2>1, <2>3, <3>1
  <2>4. CASE o.id \notin ids
    <3>1. o.store # t \/ o.store \in exposed \/ o.via = "session"
      BY <1>4, <1>6, <2>4 DEF MovesOK
    <3>2. o.store \in exposed \/ o.via = "session" \/ o.tenant = row[o.store]
      BY DEF OrdersInv
    <3> QED BY <1>1, <1>3, <1>4, <2>1, <2>2, <2>4, <3>1, <3>2
  <2> QED BY <2>3, <2>4
<1>11. ASSUME NEW q \in Requests, req'[q].step \in {"bust", "commit"} PROVE MovesOK(q)'
  <2>1. req'[q] = req[q]
    BY <1>1, <1>2, <1>11 DEF Moves
  <2>2. MovesOK(q)
    BY <1>11, <2>1 DEF OrdersInv, MovesOK, Ids
  <2>3. Ids' = Ids
    BY <1>5 DEF Ids
  <2>4. \A p \in orders' : p.id \in req'[q].moves => p.store = req'[q].who
    BY <1>5, <2>1, <2>2 DEF MovesOK
  <2>5. \A p \in orders' :
           p.store = req'[q].who /\ p.store \notin exposed' /\ p.via # "session"
              => p.id \in req'[q].moves
    BY <1>1, <1>5, <2>1, <2>2 DEF MovesOK
  <2> QED BY <2>1, <2>2, <2>3, <2>4, <2>5 DEF MovesOK
<1> QED BY <1>5, <1>8, <1>9, <1>10, <1>11 DEF OrdersInv, MovesOK, Ids

\* Whatever a request does, the orders are where the row says.
LEMMA RequestOrders ==
    ASSUME AccountsTypeOK, LoginInv, QuietInv, OrdersInv, NEW r \in Requests,
           Call(r) \/ Serve(r) \/ RequestDies(r)
    PROVE  OrdersInv'
<1>1. Moves(r)
  BY RequestMoves
<1>2. ASSUME UNCHANGED <<orders, row>>, exposed \subseteq exposed',
             req'[r].step \notin {"bust", "commit"}
      PROVE  OrdersInv'
  BY <1>1, <1>2, SameOrders
<1>3. CASE Call(r)
  <2>1. PICK t \in Traders, s \in {"limit", "sign up", "match"}, code \in Nat : Open(r, t, s, code)
    BY <1>3, CallKinds
  <2>2. s \in ReqSteps
    BY DEF ReqSteps
  <2>3. req'[r].step = s
    BY <2>1, <2>2, Begins
  <2> QED BY <1>2, <2>1, <2>3 DEF Open
<1>4. ASSUME End(r), UNCHANGED <<orders, row>>, exposed \subseteq exposed' PROVE OrdersInv'
  BY <1>2, <1>4, IsOver
<1>5. ASSUME NEW s \in {"limit", "set", "count", "expire", "send", "delete", "find", "insert"}, To(r, s),
             UNCHANGED <<orders, row>>, exposed \subseteq exposed'
      PROVE  OrdersInv'
  <2>1. s \in ReqSteps
    BY DEF ReqSteps
  <2> QED BY <1>2, <1>5, <2>1, GoesOn
<1>6. CASE CheckLimit(r) \/ SetCode(r) \/ CountAttempt(r) \/ SetWindow(r) \/ SendCode(r) \/ CacheTrader(r)
           \/ MatchCode(r) \/ DeleteCode(r) \/ FindUser(r) \/ RequestDies(r)
  BY <1>4, <1>5, <1>6 DEF CheckLimit, SetCode, CountAttempt, SetWindow, SendCode, CacheTrader, MatchCode,
         DeleteCode, FindUser, RequestDies
<1>7. CASE CreateTrader(r)
  <2>1. req[r].who \in Traders /\ req[r].step = "sign up" /\ orders' = orders
    BY <1>7 DEF LoginInv, CreateTrader
  <2>2. CASE row[req[r].who] # Absent
    BY <1>5, <1>7, <2>1, <2>2 DEF CreateTrader
  <2>3. CASE row[req[r].who] = Absent
    <3>1. /\ exposed \subseteq exposed' /\ To(r, "cache")
          /\ row' = [row EXCEPT ![req[r].who] = NoTenant]
      BY <1>7, <2>3 DEF CreateTrader, Touch
    <3>2. req'[r].step = "cache"
      BY <3>1, GoesOn DEF ReqSteps
    <3>3. \A o \in orders : o.store \in Traders /\ o.tenant \in Tenants \cup {Platform}
      BY DEF AccountsTypeOK, Order
    <3>4. \A o \in orders : o.via = "session" \/ o.store \in exposed \/ o.store # req[r].who
      BY <2>3, <3>3, NamesDiffer DEF OrdersInv, Owned
    <3>5. \A o \in orders : row'[o.store] = row[o.store] \/ o.store = req[r].who
      BY <3>1, <3>3 DEF AccountsTypeOK
    <3>6. \A o \in orders : o.store \in exposed' \/ o.via = "session" \/ o.tenant = row'[o.store]
      BY <3>1, <3>4, <3>5 DEF OrdersInv
    <3>7. ASSUME NEW q \in Requests, req'[q].step \in {"bust", "commit"} PROVE MovesOK(q)'
      <4>1. req'[q] = req[q]
        BY <1>1, <3>2, <3>7 DEF Moves
      <4>2. MovesOK(q)
        BY <3>7, <4>1 DEF OrdersInv, MovesOK, Ids
      <4> QED BY <2>1, <3>1, <4>1, <4>2 DEF MovesOK, Ids
    <3> QED BY <2>1, <3>6, <3>7 DEF OrdersInv, MovesOK, Ids
  <2> QED BY <2>2, <2>3
<1>8. CASE CreateUser(r)
  BY <1>2, <1>4, <1>8, InsertStep DEF CreateUser, Inserts, Touch
<1>9. CASE BustCaches(r)
  <2>1. UNCHANGED <<orders, row, exposed>> /\ To(r, "commit") /\ req[r].step = "bust"
    BY <1>9 DEF BustCaches
  <2>2. req'[r].who = req[r].who /\ req'[r].moves = req[r].moves
    BY <2>1, GoesOn DEF ReqSteps
  <2> QED BY <1>1, <2>1, <2>2, SameOrders
<1> QED BY <1>3, <1>6, <1>7, <1>8, <1>9, MigrateAll, CommitOrders DEF Serve

\* Whatever the listener does: it files an order for the tenant it has looked up, and
\* while a first login is under way it files none of that trader's.
LEMMA ListenerOrders ==
    ASSUME AccountsTypeOK, JobInv, QuietInv, LookInv, OrdersInv, Arrive \/ Route \/ JobDies
    PROVE  OrdersInv'
<1>1. req' = req /\ row' = row
  BY ListenerFrame
<1>2. \A t \in Traders \ exposed' : t \notin exposed /\ WritersOf(t) = {}
  BY ListenerQuiet
<1>3. CASE orders' = orders
  <2>1. \A o \in orders : o.store \in Traders
    BY DEF AccountsTypeOK, Order
  <2>2. \A o \in orders : o.store \in exposed' \/ o.via = "session" \/ o.tenant = row[o.store]
    BY <1>2, <2>1 DEF OrdersInv
  <2>3. ASSUME NEW q \in Requests, req[q].step \in {"bust", "commit"} PROVE MovesOK(q)'
    <3>1. MovesOK(q)
      BY <2>3 DEF OrdersInv, MovesOK, Ids
    <3>2. \A o \in orders : o.store \notin exposed' => o.store \notin exposed
      BY <1>2, <2>1
    <3> QED BY <1>1, <1>3, <3>1, <3>2 DEF MovesOK, Ids
  <2> QED BY <1>1, <1>3, <2>2, <2>3 DEF OrdersInv, MovesOK, Ids
<1>4. CASE orders' # orders
  <2>1. FileOrder
    BY <1>4 DEF Arrive, TraderWrites, CartArrives, CustomerWrites, StartJob, Route, FindByPhone,
       FindBySlug, Look, Command, TakeStore, SaveRoute, FollowSession, FindByTenant, FillPhone,
       FillTenant, FillSlug, FollowRoute, JobDies
  <2> DEFINE new == [id |-> Cardinality(orders) + 1, store |-> job.store, tenant |-> job.got,
                     via |-> job.via]
  <2>2. orders' = orders \cup {new} /\ job.step = "file" /\ exposed' = exposed
    BY <1>4, <2>1 DEF FileOrder
  <2>3. new.id = Cardinality(orders) + 1 /\ new.store = job.store /\ new.tenant = job.got
        /\ new.via = job.via
    OBVIOUS
  <2>4. job.store \in Traders
    BY <2>2 DEF JobInv
  <2>5. IsFiniteSet(orders) /\ Cardinality(orders) \in Nat
    BY FS_CardinalityType DEF OrdersInv
  <2> HIDE DEF new
  <2>6. \A o \in orders : o.id # new.id
    BY <2>3, <2>5 DEF OrdersInv
  <2>7. Cardinality(orders') = Cardinality(orders) + 1 /\ IsFiniteSet(orders')
    BY <2>2, <2>5, <2>6, FS_AddElement
  <2>8. /\ \A o \in orders' : o.id \in 1..Cardinality(orders')
        /\ \A o, p \in orders' : o.id = p.id => o = p
    BY <2>2, <2>3, <2>5, <2>6, <2>7 DEF OrdersInv
  <2>9. new.store \in exposed \/ new.via = "session" \/ new.tenant = row[new.store]
    BY <2>2, <2>3, <2>4 DEF LookInv
  <2>10. \A o \in orders' : o.store \in exposed' \/ o.via = "session" \/ o.tenant = row'[o.store]
    BY <1>1, <2>2, <2>9 DEF OrdersInv
  <2>11. ASSUME NEW q \in Requests, req[q].step \in {"bust", "commit"} PROVE MovesOK(q)'
    <3>1. MovesOK(q)
      BY <2>11 DEF OrdersInv, MovesOK, Ids
    <3>2. new.id \notin req[q].moves
      BY <2>3, <2>5, <3>1 DEF MovesOK, Ids
    <3>3. req[q].who = new.store => new.store \in exposed
      <4>1. req[q].who \in Traders => q \in WritersOf(req[q].who)
        BY <2>11 DEF WritersOf, Inserted
      <4> QED BY <1>2, <2>2, <2>3, <2>4, <4>1
    <3>4. Ids \subseteq Ids'
      BY <2>5, <2>7 DEF Ids
    <3>5. \A o \in orders' : o.id \in req[q].moves => o.store = req[q].who
      BY <2>2, <3>1, <3>2 DEF MovesOK
    <3>6. \A o \in orders' :
             o.store = req[q].who /\ o.store \notin exposed' /\ o.via # "session"
                => o.id \in req[q].moves
      BY <2>2, <3>1, <3>3 DEF MovesOK
    <3> QED BY <1>1, <3>1, <3>4, <3>5, <3>6 DEF MovesOK
  <2> QED BY <1>1, <2>7, <2>8, <2>10, <2>11 DEF OrdersInv, MovesOK, Ids
<1> QED BY <1>3, <1>4

-----------------------------------------------------------------------------
(* The jobs, the order ids and all of it.                                  *)

\* At the start nobody has logged in, nothing is cached and nobody works.
LEMMA AccountsBegin == AccountsInit => AccountsInv
<1> SUFFICES ASSUME AccountsInit PROVE AccountsInv
  OBVIOUS
<1>1. Free \in Request /\ Free.step = "idle" /\ Idle \in Job /\ Idle.step = "idle"
      /\ Idle.store = None
  BY IdleJob DEF Free, Request
<1>2. AccountsTypeOK
  BY <1>1 DEF AccountsInit, AccountsTypeOK, Owned
<1>3. \A r \in Requests : req[r].step = "idle"
  BY <1>1 DEF AccountsInit
<1>4. JobInv /\ LookInv
  BY <1>1 DEF AccountsInit, JobInv, LookInv
<1>5. LoginInv
  BY <1>3, NamesDiffer DEF AccountsInit, LoginInv, Inserted
<1>6. \A t \in Traders : WritersOf(t) = {}
  BY <1>3 DEF WritersOf, Inserted
<1>7. QuietInv /\ CacheInv
  <2>1. \A t \in Traders : phoneCache[t] = Miss /\ slugCache[t] = Miss /\ tenantCache # t
    BY NamesDiffer DEF AccountsInit
  <2> QED BY <1>6, <2>1, NamesDiffer DEF QuietInv, CacheInv, Owned
<1>8. CodesInv
  <2> SUFFICES ASSUME NEW t \in Traders PROVE CodesOf(t)
    BY DEF CodesInv, CodesOf
  <2>1. Passed(t) = {} /\ Counted(t) = {}
    BY <1>3 DEF Passed, Counted
  <2>2. attempts[t] = 0 /\ issued[t] = 0
    BY DEF AccountsInit
  <2>3. Cardinality({}) = 0
    BY FS_EmptySet
  <2>4. Cardinality(world.requests) \in Nat
    BY <1>2, RequestsFinite, FS_CardinalityType
  <2> QED BY <2>1, <2>2, <2>3, <2>4, LimitAssumption DEF CodesOf
<1>9. OrdersInv
  <2>1. IsFiniteSet({})
    BY FS_EmptySet
  <2> QED BY <1>3, <2>1 DEF AccountsInit, OrdersInv
<1> QED BY <1>2, <1>4, <1>5, <1>7, <1>8, <1>9 DEF AccountsInv

\* The listener does not touch logins and codes.
LEMMA ListenerLogins ==
    ASSUME LoginInv, CodesInv, Arrive \/ Route \/ JobDies, UNCHANGED world
    PROVE  LoginInv' /\ CodesInv'
<1>1. UNCHANGED <<world, row, users, req, attempts, issued>>
  BY ListenerFrame
<1>2. LoginInv'
  BY <1>1 DEF LoginInv, HasAccount
<1>3. \A t \in Traders : Passed(t)' = Passed(t) /\ Counted(t)' = Counted(t)
  BY <1>1 DEF Passed, Counted
<1>4. CodesInv'
  BY <1>1, <1>3 DEF CodesInv
<1> QED BY <1>2, <1>4

\* Every step keeps the invariant.
LEMMA AccountsStep == AccountsInv /\ [AccountsNext]_accountsVars => AccountsInv'
<1> SUFFICES ASSUME AccountsInv, [AccountsNext]_accountsVars PROVE AccountsInv'
  OBVIOUS
<1>0. /\ AccountsTypeOK /\ JobInv /\ LoginInv /\ CodesInv /\ QuietInv /\ CacheInv /\ LookInv
      /\ OrdersInv /\ IsFiniteSet(orders)
  BY DEF AccountsInv, OrdersInv
<1>1. CASE (Arrive \/ Route \/ JobDies) /\ UNCHANGED world
  <2>1. AccountsTypeOK' /\ JobInv'
    BY <1>0, <1>1, ListenerTypes, ListenerJob DEF JobOK
  <2>2. LoginInv' /\ CodesInv'
    BY <1>0, <1>1, ListenerLogins
  <2>3. QuietInv' /\ CacheInv' /\ LookInv'
    BY <1>0, <1>1, ListenerQuiet, ListenerCache, ListenerLook
  <2>4. OrdersInv'
    BY <1>0, <1>1, ListenerOrders
  <2> QED BY <2>1, <2>2, <2>3, <2>4 DEF AccountsInv
<1>2. ASSUME NEW r \in world.requests, Call(r) \/ Serve(r) \/ RequestDies(r), UNCHANGED world
      PROVE  AccountsInv'
  <2>0. r \in Requests
    BY <1>0, RequestsFinite
  <2>1. AccountsTypeOK'
    BY <1>0, <1>2, <2>0, RequestTypes
  <2>2. JobInv'
    <3>1. job' = job
      BY <1>2, <2>0, RequestFrame
    <3> QED BY <1>0, <3>1 DEF JobInv
  <2>3. LoginInv'
    BY <1>0, <1>2, RequestLogin
  <2>4. CodesInv'
    BY <1>0, <1>2, <2>0, <2>1, <2>3, RequestCodes
  <2>5. QuietInv'
    BY <1>0, <1>2, <2>0, RequestQuiet
  <2>6. CacheInv'
    BY <1>0, <1>2, <2>0, RequestCache
  <2>7. LookInv'
    BY <1>0, <1>2, <2>0, RequestLook
  <2>8. OrdersInv'
    BY <1>0, <1>2, <2>0, RequestOrders
  <2> QED BY <2>1, <2>2, <2>3, <2>4, <2>5, <2>6, <2>7, <2>8 DEF AccountsInv
<1>3. CASE TimePasses /\ UNCHANGED world
  <2>1. UNCHANGED <<world, row, users, orders, job, req, exposed>>
    BY <1>3, TimeFrame
  <2>2. AccountsTypeOK' /\ CodesInv' /\ CacheInv'
    BY <1>0, <1>3, TimeTypes, TimeCodes, TimeCache
  <2>3. JobInv' /\ LoginInv'
    BY <1>0, <2>1 DEF JobInv, LoginInv, HasAccount
  <2>4. QuietInv'
    BY <1>0, <2>1 DEF QuietInv, WritersOf
  <2>5. LookInv'
    BY <1>0, <2>1 DEF LookInv, Cached
  <2>6. OrdersInv'
    BY <1>0, <2>1 DEF OrdersInv
  <2> QED BY <2>2, <2>3, <2>4, <2>5, <2>6 DEF AccountsInv
<1>4. CASE UNCHANGED accountsVars
  <2>1. /\ UNCHANGED <<world, row, users, orders, job, req, exposed>>
        /\ UNCHANGED <<otp, attempts, ticking, codes, issued, cut, phoneCache, slugCache, tenantCache>>
        /\ UNCHANGED <<routing, route>>
    BY <1>4 DEF accountsVars, login, caches, routes
  <2>2. AccountsTypeOK'
    BY <1>0, <2>1 DEF AccountsTypeOK
  <2>3. JobInv' /\ LoginInv'
    BY <1>0, <2>1 DEF JobInv, LoginInv, HasAccount
  <2>4. QuietInv'
    BY <1>0, <2>1 DEF QuietInv, WritersOf
  <2>5. LookInv'
    BY <1>0, <2>1 DEF LookInv, Cached
  <2>6. OrdersInv'
    BY <1>0, <2>1 DEF OrdersInv
  <2>7. CodesInv'
    <3>1. \A t \in Traders : Passed(t)' = Passed(t) /\ Counted(t)' = Counted(t)
      BY <2>1 DEF Passed, Counted
    <3> QED BY <1>0, <2>1, <3>1 DEF CodesInv
  <2>8. CacheInv'
    <3>1. \A t \in Traders : WritersOf(t)' = WritersOf(t) /\ Cached(row[t])' = Cached(row[t])
      BY <2>1 DEF WritersOf, Cached
    <3> QED BY <1>0, <2>1, <3>1 DEF CacheInv
  <2> QED BY <2>2, <2>3, <2>4, <2>5, <2>6, <2>7, <2>8 DEF AccountsInv
<1> QED BY <1>1, <1>2, <1>3, <1>4 DEF AccountsNext

\* The invariant of logins, codes, caches and orders holds in every reachable state,
\* however requests, the listener and expiries interleave.
THEOREM AccountsAlways == AccountsSpec => []AccountsInv
<1> QED BY AccountsBegin, AccountsStep, PTL DEF AccountsSpec

\* verify_otp: a trader has one account at most, and its tenant is the one of her row,
\* however many first logins run at the same time.
THEOREM OneAccountEach == AccountsSpec => []AccountOwnsTheStore
<1>1. AccountsInv => AccountOwnsTheStore
  BY DEF AccountsInv, LoginInv, AccountOwnsTheStore
<1> QED BY <1>1, AccountsAlways, PTL

\* migrate_trader_orders_to_tenant, _bust_trader_caches: after a first login that did not
\* overlap with the listener, the orders and the commands of a trader are under her tenant.
THEOREM NothingStaysBehind == AccountsSpec => []OrdersFollowTheOwner
<1>1. AccountsInv => OrdersFollowTheOwner
  <2> SUFFICES ASSUME AccountsInv PROVE OrdersFollowTheOwner
    OBVIOUS
  <2>1. job.step = "command" => job.store \in Traders
    BY DEF AccountsInv, JobInv
  <2>2. job.step = "command" /\ job.store \notin exposed => job.got = Cached(row[job.store])
    BY <2>1 DEF AccountsInv, LookInv
  <2>3. \A o \in orders : o.store \in exposed \/ o.via = "session" \/ o.tenant = row[o.store]
    BY DEF AccountsInv, OrdersInv
  <2> QED BY <2>2, <2>3 DEF OrdersFollowTheOwner
<1> QED BY <1>1, AccountsAlways, PTL

\* request_otp: what overlapping requests can send in one window is bounded.
THEOREM CodesAreLimited == AccountsSpec => []CodesWithinLimit
<1>1. AccountsInv => CodesWithinLimit
  <2> SUFFICES ASSUME AccountsInv, NEW t \in Traders
               PROVE  issued[t] <= Limit + 2 * Cardinality(world.requests) - 1
    BY DEF CodesWithinLimit
  <2>1. CountsOK /\ CodesOf(t) /\ attempts[t] \in Nat /\ issued[t] \in Nat /\ Limit \in Nat
    BY CountsType, LimitAssumption DEF AccountsInv, AccountsTypeOK, CodesInv, CodesOf
  <2>2. Cardinality(Passed(t)) \in Nat /\ Cardinality(Counted(t)) \in Nat
        /\ Cardinality(world.requests) \in Nat
    BY <2>1 DEF CountsOK
  <2> QED BY <2>1, <2>2 DEF CodesOf
<1> QED BY <1>1, AccountsAlways, PTL
=============================================================================
