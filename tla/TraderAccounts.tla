--------------------------- MODULE TraderAccounts ---------------------------
(***************************************************************************)
(* Whose store is this?  A trader signs up on the web, gets a login code   *)
(* on WhatsApp and, with the first login, a tenant of her own, to which    *)
(* her orders move.  Meanwhile the order listener sends every message that *)
(* reaches the platform's number to a store, by what Redis caches of the   *)
(* traders (by phone, by store link, by tenant), by the routing session of *)
(* the customer, and by the routing stored in the database.  Web requests  *)
(* run next to each other and next to the listener; each transaction is    *)
(* READ COMMITTED, and may be cut off.                                     *)
(***************************************************************************)
EXTENDS Naturals, FiniteSets

CONSTANTS
    Traders,        \* persons with a store, each named by phone number and store link alike
    Customers,
    Tenants,        \* ids for new tenants
    Requests,       \* web requests that may run at the same time
    Limit,          \* login codes per window
    MaxOrders,      \* bound: orders filed
    Worlds          \* bounds: the operations that happen, the requests, the number of codes

Operations == {"otp", "sign up", "verify", "command", "cart", "text"}

VARIABLES
    world,          \* one of Worlds
    row,            \* per trader: her row, which is only a tenant here
    users,          \* <<trader, tenant>>: accounts of traders
    otp,            \* auth:otp: the code that is valid, 0 for none
    attempts,       \* auth:otp:attempts
    ticking,        \* does attempts have a TTL?
    codes,          \* number of codes generated
    phoneCache,     \* trader:phone, per trader
    slugCache,      \* trader:slug, per trader
    tenantCache,    \* trader:tenant of the platform
    routing,        \* customer:routing, per customer
    route,          \* customer_trader_routing, per customer
    orders,         \* the orders filed
    job,            \* the message that the order listener handles
    req,            \* per request: what it is about to do
    issued,         \* per trader: codes sent since the counter started
    cut,            \* traders of whom a request died between INCR and EXPIRE
    exposed         \* traders whose row changed while somebody else worked with it, or
                    \* whose sign-up was cut off before it was cached

login == <<otp, attempts, ticking, codes, issued, cut>>
caches == <<phoneCache, slugCache, tenantCache>>
routes == <<routing, route>>
accountsVars == <<world, row, users, login, caches, routes, orders, job, req, exposed>>

Absent == "absent"          \* no row
NoTenant == "no tenant"     \* tenant_id is NULL, or "" in a cached record
Platform == "platform"      \* settings.TENANT_ID
Nobody == "nobody"          \* {} in a cache: no trader
Miss == "miss"
None == "none"

ASSUME LimitAssumption == Limit \in Nat \ {0}
ASSUME BoundsAssumption ==
    /\ MaxOrders \in Nat
    /\ Worlds \subseteq [open : SUBSET Operations, requests : SUBSET Requests, codes : Nat]
ASSUME RequestsAssumption == IsFiniteSet(Requests)
ASSUME NamesAssumption ==
    /\ Tenants \cap {Absent, NoTenant, Platform, Nobody, Miss, None} = {}
    /\ Traders \cap {Nobody, Miss, None} = {} /\ None \notin Customers

-----------------------------------------------------------------------------
Owned == Tenants \cup {Platform, NoTenant}

\* What a reader gets of a row: a cached record is its tenant here.
Cached(r) == IF r = Absent THEN Nobody ELSE r

\* get_by_tenant, of the platform's tenant.
OnPlatform == {t \in Traders : row[t] = Platform}

Routing == [store : Traders, tenant : Tenants \cup {Platform}]

NoRoute == [store |-> None, tenant |-> NoTenant]

Vias == {"cart", "session", "direct", "route"}

Order == [id : Nat, store : Traders, tenant : Tenants \cup {Platform}, via : Vias]

\* from: who wrote; store: the trader that the message concerns; got: what was looked up;
\* via: how the store was found.
Job == [step : {"idle", "phone", "phone read", "command", "slug", "slug read", "take",
                "upsert", "session", "tenant", "tenant read", "stored", "file"},
        from : Traders \cup Customers \cup {None}, store : Traders \cup {None},
        got : Owned \cup {Nobody}, via : Vias \cup {None}]

Idle == [step |-> "idle", from |-> None, store |-> None, got |-> Nobody, via |-> None]

\* code: the code in hand; tenant: the new tenant; moves: the ids of the orders to move.
Request == [step : {"idle", "sign up", "cache", "limit", "set", "count", "expire", "send",
                    "match", "delete", "find", "insert", "migrate", "bust", "commit"},
            who : Traders \cup {None}, code : Nat, tenant : Tenants \cup {None},
            moves : SUBSET Nat]

Free == [step |-> "idle", who |-> None, code |-> 0, tenant |-> None, moves |-> {}]

\* A first login that holds its INSERT of the account.
Inserted == {"migrate", "bust", "commit"}

\* Requests between a change of the trader's row and of what is cached of it.
WritersOf(t) == {r \in Requests : req[r].who = t /\ req[r].step \in Inserted \cup {"cache"}}

\* A row as it may be found: none, one written by POST /signup/phone, or one that an
\* earlier release of the onboarding wrote with the platform's tenant.
AccountsInit ==
    /\ world \in Worlds
    /\ row \in [Traders -> {Absent, NoTenant, Platform}]
    /\ users = {}
    /\ otp = [t \in Traders |-> 0]
    /\ attempts = [t \in Traders |-> 0]
    /\ ticking = [t \in Traders |-> FALSE]
    /\ codes = 0
    /\ phoneCache = [t \in Traders |-> Miss]
    /\ slugCache = [t \in Traders |-> Miss]
    /\ tenantCache = Miss
    /\ routing = [c \in Customers |-> NoRoute]
    /\ route = [c \in Customers |-> None]
    /\ orders = {}
    /\ job = Idle
    /\ req = [r \in Requests |-> Free]
    /\ issued = [t \in Traders |-> 0]
    /\ cut = {}
    /\ exposed = {}

-----------------------------------------------------------------------------
(* handle_order_intent: the listener takes one message after the other.    *)

accounts == <<row, users, login, req>>

StartJob(from, store, step, via) ==
    /\ job.step = "idle"
    /\ job' = [step |-> step, from |-> from, store |-> store, got |-> Nobody, via |-> via]
    /\ exposed' = exposed \cup {t \in Traders : WritersOf(t) # {}}
    /\ UNCHANGED <<accounts, caches, routes, orders>>

\* A message of the trader, a cart with her store link, another message of a customer.
\* That a customer is no trader is looked up and cached as well, and left out.
TraderWrites(t) == StartJob(t, t, "phone", None)
CartArrives(c, t) == StartJob(c, t, "slug", "cart")
CustomerWrites(c) == StartJob(c, None, "session", None)

\* A lookup takes the cached record if there is one, and the row otherwise, to be cached
\* in the next step.
Look(here, entry, read, done) ==
    /\ job.step = here
    /\ job' = IF entry # Miss THEN [job EXCEPT !.step = done, !.got = entry]
              ELSE [job EXCEPT !.step = read, !.got = Cached(row[job.store])]
    /\ UNCHANGED <<accounts, caches, routes, orders, exposed>>

\* _get_trader_by_phone.
FindByPhone == Look("phone", phoneCache[job.store], "phone read", "command")

FillPhone ==
    /\ job.step = "phone read"
    /\ phoneCache' = [phoneCache EXCEPT ![job.store] = job.got]
    /\ job' = [job EXCEPT !.step = "command"]
    /\ UNCHANGED <<accounts, slugCache, tenantCache, routes, orders, exposed>>

\* handle_trader_command, under the tenant of the record or the platform's.  A trader
\* that is not recognised is treated as a customer without a store.
Command ==
    /\ job.step = "command"
    /\ job' = Idle
    /\ UNCHANGED <<accounts, caches, routes, orders, exposed>>

\* _get_trader_by_slug.
FindBySlug == Look("slug", slugCache[job.store], "slug read", "take")

FillSlug ==
    /\ job.step = "slug read"
    /\ slugCache' = [slugCache EXCEPT ![job.store] = job.got]
    /\ job' = [job EXCEPT !.step = "take"]
    /\ UNCHANGED <<accounts, phoneCache, tenantCache, routes, orders, exposed>>

\* Mutant: the restored session is given the platform's tenant.
TakeStoreOnPlatform ==
    /\ job.step = "take"
    /\ IF job.got \in {Nobody, NoTenant} THEN job' = Idle /\ UNCHANGED routing
       ELSE /\ routing' = [routing EXCEPT ![job.from] =
                  [store |-> job.store, tenant |-> IF job.via = "cart" THEN job.got ELSE Platform]]
            /\ job' = [job EXCEPT !.step = IF job.via = "cart" THEN "upsert" ELSE "file"]
    /\ UNCHANGED <<accounts, caches, route, orders, exposed>>

\* Without a store that has a tenant the cart is dropped, or the customer is sent to the
\* store link; with one, the customer is routed to it.
TakeStore ==
    /\ job.step = "take"
    /\ IF job.got \in {Nobody, NoTenant} THEN job' = Idle /\ UNCHANGED routing
       ELSE /\ routing' = [routing EXCEPT ![job.from] = [store |-> job.store, tenant |-> job.got]]
            /\ job' = [job EXCEPT !.step = IF job.via = "cart" THEN "upsert" ELSE "file"]
    /\ UNCHANGED <<accounts, caches, route, orders, exposed>>

\* CustomerRoutingRepository.upsert: a failure is logged.
SaveRoute ==
    /\ job.step = "upsert"
    /\ route' \in {route, [route EXCEPT ![job.from] = job.store]}
    /\ job' = [job EXCEPT !.step = "file"]
    /\ UNCHANGED <<accounts, caches, routing, orders, exposed>>

\* The routing session of the customer.
FollowSession ==
    /\ job.step = "session"
    /\ job' = IF routing[job.from] = NoRoute THEN [job EXCEPT !.step = "tenant"]
              ELSE [job EXCEPT !.step = "file", !.store = routing[job.from].store,
                               !.got = routing[job.from].tenant, !.via = "session"]
    /\ UNCHANGED <<accounts, caches, routes, orders, exposed>>

Direct(t) == [job EXCEPT !.step = "file", !.store = t, !.got = Platform, !.via = "direct"]

\* _get_trader_by_tenant, of the platform: with two such rows the query raises.
FindByTenant ==
    /\ job.step = "tenant"
    /\ job' = CASE tenantCache = Nobody -> [job EXCEPT !.step = "stored"]
                [] tenantCache \in Traders -> Direct(tenantCache)
                [] OTHER -> IF Cardinality(OnPlatform) > 1 THEN Idle
                            ELSE [job EXCEPT !.step = "tenant read",
                                             !.store = IF OnPlatform = {} THEN None
                                                       ELSE CHOOSE t \in OnPlatform : TRUE]
    /\ UNCHANGED <<accounts, caches, routes, orders, exposed>>

FillTenant ==
    /\ job.step = "tenant read"
    /\ tenantCache' = IF job.store = None THEN Nobody ELSE job.store
    /\ job' = IF job.store = None THEN [job EXCEPT !.step = "stored"] ELSE Direct(job.store)
    /\ UNCHANGED <<accounts, phoneCache, slugCache, routes, orders, exposed>>

\* The routing stored in the database names a store; its tenant is looked up.
FollowRoute ==
    /\ job.step = "stored"
    /\ job' = IF route[job.from] = None THEN Idle
              ELSE [job EXCEPT !.step = "slug", !.store = route[job.from], !.via = "route"]
    /\ UNCHANGED <<accounts, caches, routes, orders, exposed>>

\* handle_cart_order, handle_inbound_customer_message: an order, or an answer only.
FileOrder ==
    /\ job.step = "file"
    /\ \/ UNCHANGED orders
       \/ /\ Cardinality(orders) < MaxOrders
          /\ orders' = orders \cup {[id |-> Cardinality(orders) + 1, store |-> job.store,
                                     tenant |-> job.got, via |-> job.via]}
    /\ job' = Idle
    /\ UNCHANGED <<accounts, caches, routes, exposed>>

\* A step raises, or the process stops: the message is lost.
JobDies ==
    /\ job.step # "idle"
    /\ job' = Idle
    /\ UNCHANGED <<accounts, caches, routes, orders, exposed>>

-----------------------------------------------------------------------------
(* Login codes: request_otp.                                               *)

listener == <<routes, job>>

To(r, step) == req' = [req EXCEPT ![r].step = step]
End(r) == req' = [req EXCEPT ![r] = Free]

Open(r, t, step, code) ==
    /\ req[r].step = "idle"
    /\ req' = [req EXCEPT ![r] = [Free EXCEPT !.step = step, !.who = t, !.code = code]]
    /\ UNCHANGED <<row, users, login, caches, listener, orders, exposed>>

RequestOtp(r, t) == Open(r, t, "limit", 0)
SignUpPhone(r, t) == Open(r, t, "sign up", 0)
VerifyOtp(r, t, code) == Open(r, t, "match", code)

\* Mutant: one code too many.
CheckLimitPast(r) ==
    /\ req[r].step = "limit"
    /\ IF attempts[req[r].who] > Limit THEN End(r) ELSE To(r, "set")
    /\ UNCHANGED <<row, users, login, caches, listener, orders, exposed>>

\* The counter is read here and counts two steps further on.
CheckLimit(r) ==
    /\ req[r].step = "limit"
    /\ IF attempts[req[r].who] >= Limit THEN End(r) ELSE To(r, "set")
    /\ UNCHANGED <<row, users, login, caches, listener, orders, exposed>>

SetCode(r) ==
    /\ req[r].step = "set"
    /\ codes < world.codes
    /\ codes' = codes + 1
    /\ otp' = [otp EXCEPT ![req[r].who] = codes + 1]
    /\ To(r, "count")
    /\ UNCHANGED <<row, users, attempts, ticking, issued, cut, caches, listener, orders, exposed>>

CountAttempt(r) ==
    /\ req[r].step = "count"
    /\ attempts' = [attempts EXCEPT ![req[r].who] = @ + 1]
    /\ To(r, "expire")
    /\ UNCHANGED <<row, users, otp, ticking, codes, issued, cut, caches, listener, orders, exposed>>

\* Mutant: the counter gets no TTL.
SetWindowForever(r) ==
    /\ req[r].step = "expire"
    /\ To(r, "send")
    /\ UNCHANGED <<row, users, login, caches, listener, orders, exposed>>

\* EXPIRE, which does nothing on a key that is gone.
SetWindow(r) ==
    /\ req[r].step = "expire"
    /\ ticking' = [ticking EXCEPT ![req[r].who] = attempts[req[r].who] > 0]
    /\ To(r, "send")
    /\ UNCHANGED <<row, users, otp, attempts, codes, issued, cut, caches, listener, orders, exposed>>

\* The message with the code; Meta may refuse it, and the code stays valid.
SendCode(r) ==
    /\ req[r].step = "send"
    /\ issued' \in {issued, [issued EXCEPT ![req[r].who] = @ + 1]}
    /\ End(r)
    /\ UNCHANGED <<row, users, otp, attempts, ticking, codes, cut, caches, listener, orders, exposed>>

-----------------------------------------------------------------------------
(* Sign-up: the row is committed, cached, and a code is sent.              *)

Touch(t) ==
    exposed' = exposed \cup (IF job.step # "idle" \/ WritersOf(t) # {} THEN {t} ELSE {})

\* Of two INSERTs of one phone number the second fails.
CreateTrader(r) ==
    /\ req[r].step = "sign up"
    /\ LET t == req[r].who IN
          IF row[t] # Absent THEN To(r, "limit") /\ UNCHANGED <<row, exposed>>
          ELSE /\ row' = [row EXCEPT ![t] = NoTenant]
               /\ Touch(t)
               /\ To(r, "cache")
    /\ UNCHANGED <<users, login, caches, listener, orders>>

CacheTrader(r) ==
    /\ req[r].step = "cache"
    /\ phoneCache' = [phoneCache EXCEPT ![req[r].who] = NoTenant]
    /\ To(r, "limit")
    /\ UNCHANGED <<row, users, login, slugCache, tenantCache, listener, orders, exposed>>

-----------------------------------------------------------------------------
(* Login: verify_otp, one transaction that ends with the request.          *)

MatchCode(r) ==
    /\ req[r].step = "match"
    /\ IF otp[req[r].who] = req[r].code THEN To(r, "delete") ELSE End(r)
    /\ UNCHANGED <<row, users, login, caches, listener, orders, exposed>>

\* Whatever code is there by now.
DeleteCode(r) ==
    /\ req[r].step = "delete"
    /\ otp' = [otp EXCEPT ![req[r].who] = 0]
    /\ To(r, "find")
    /\ UNCHANGED <<row, users, attempts, ticking, codes, issued, cut, caches, listener, orders,
                   exposed>>

HasAccount(t) == \E n \in Tenants : <<t, n>> \in users

\* A returning trader is logged in; without a row there is nobody to log in.
FindUser(r) ==
    /\ req[r].step = "find"
    /\ IF HasAccount(req[r].who) \/ row[req[r].who] = Absent THEN End(r) ELSE To(r, "insert")
    /\ UNCHANGED <<row, users, login, caches, listener, orders, exposed>>

Spent == {u[2] : u \in users} \cup {req[r].tenant : r \in Requests}

\* Mutant: phone numbers of users are not unique.
CreateUserTwice(r) ==
    /\ req[r].step = "insert"
    /\ Tenants \ Spent # {}
    /\ req' = [req EXCEPT ![r].step = "migrate",
                          ![r].tenant = CHOOSE n \in Tenants : n \notin Spent]
    /\ Touch(req[r].who)
    /\ UNCHANGED <<row, users, login, caches, listener, orders>>

\* create_user, create_tenant, create_user_tenant.  The unique phone number makes the
\* INSERT wait for another one that is not committed, and fail after one that is.
CreateUser(r) ==
    /\ req[r].step = "insert"
    /\ LET t == req[r].who IN
          /\ \A s \in Requests \ {r} : ~(req[s].who = t /\ req[s].step \in Inserted)
          /\ IF HasAccount(t) THEN End(r) /\ UNCHANGED exposed
             ELSE /\ \E n \in Tenants \ Spent :
                        req' = [req EXCEPT ![r].step = "migrate", ![r].tenant = n]
                  /\ Touch(t)
    /\ UNCHANGED <<row, users, login, caches, listener, orders>>

OldTenant(t) == IF row[t] = NoTenant THEN Platform ELSE row[t]

\* migrate_trader_orders_to_tenant: the orders that are committed by now.
MigrateOrders(r) ==
    /\ req[r].step = "migrate"
    /\ LET t == req[r].who
           mine == {o \in orders : o.store = t /\ o.tenant = OldTenant(t)}
       IN req' = [req EXCEPT ![r].step = "bust", ![r].moves = {o.id : o \in mine}]
    /\ UNCHANGED <<row, users, login, caches, listener, orders, exposed>>

\* Mutant: the record cached by store link is forgotten.
BustCachesNotSlug(r) ==
    /\ req[r].step = "bust"
    /\ phoneCache' = [phoneCache EXCEPT ![req[r].who] = Miss]
    /\ tenantCache' = IF OldTenant(req[r].who) = Platform THEN Miss ELSE tenantCache
    /\ To(r, "commit")
    /\ UNCHANGED <<row, users, login, slugCache, listener, orders, exposed>>

\* _bust_trader_caches.
BustCaches(r) ==
    /\ req[r].step = "bust"
    /\ LET t == req[r].who IN
          /\ phoneCache' = [phoneCache EXCEPT ![t] = Miss]
          /\ slugCache' = [slugCache EXCEPT ![t] = Miss]
          /\ tenantCache' = IF OldTenant(t) = Platform THEN Miss ELSE tenantCache
    /\ To(r, "commit")
    /\ UNCHANGED <<row, users, login, listener, orders, exposed>>

\* get_db commits when the handler has returned.
CommitLogin(r) ==
    /\ req[r].step = "commit"
    /\ LET t == req[r].who
           n == req[r].tenant
       IN /\ users' = users \cup {<<t, n>>}
          /\ row' = [row EXCEPT ![t] = n]
          /\ orders' = {IF o.id \in req[r].moves THEN [o EXCEPT !.tenant = n] ELSE o : o \in orders}
    /\ End(r)
    /\ UNCHANGED <<login, caches, listener, exposed>>

\* A request raises or the process stops: its transaction is rolled back.
RequestDies(r) ==
    /\ req[r].step # "idle"
    /\ cut' = IF req[r].step = "expire" THEN cut \cup {req[r].who} ELSE cut
    /\ exposed' = IF req[r].step = "cache" THEN exposed \cup {req[r].who} ELSE exposed
    /\ End(r)
    /\ UNCHANGED <<row, users, otp, attempts, ticking, codes, issued, caches, listener, orders>>

-----------------------------------------------------------------------------
(* Redis: every key but the counter of a request cut off has a TTL.        *)

CodeExpires(t) ==
    /\ otp[t] # 0
    /\ otp' = [otp EXCEPT ![t] = 0]
    /\ UNCHANGED <<row, users, attempts, ticking, codes, issued, cut, caches, listener, orders, req,
                   exposed>>

WindowEnds(t) ==
    /\ ticking[t]
    /\ attempts' = [attempts EXCEPT ![t] = 0]
    /\ ticking' = [ticking EXCEPT ![t] = FALSE]
    /\ issued' = [issued EXCEPT ![t] = 0]
    /\ UNCHANGED <<row, users, otp, codes, cut, caches, listener, orders, req, exposed>>

PhoneExpires(t) ==
    /\ phoneCache[t] # Miss
    /\ phoneCache' = [phoneCache EXCEPT ![t] = Miss]
    /\ UNCHANGED <<row, users, login, slugCache, tenantCache, listener, orders, req, exposed>>

SlugExpires(t) ==
    /\ slugCache[t] # Miss
    /\ slugCache' = [slugCache EXCEPT ![t] = Miss]
    /\ UNCHANGED <<row, users, login, phoneCache, tenantCache, listener, orders, req, exposed>>

TenantExpires ==
    /\ tenantCache # Miss
    /\ tenantCache' = Miss
    /\ UNCHANGED <<row, users, login, phoneCache, slugCache, listener, orders, req, exposed>>

RoutingExpires(c) ==
    /\ routing[c] # NoRoute
    /\ routing' = [routing EXCEPT ![c] = NoRoute]
    /\ UNCHANGED <<row, users, login, caches, route, job, orders, req, exposed>>

-----------------------------------------------------------------------------
Arrive ==
    \/ "command" \in world.open /\ \E t \in Traders : TraderWrites(t)
    \/ "cart" \in world.open /\ \E c \in Customers, t \in Traders : CartArrives(c, t)
    \/ "text" \in world.open /\ \E c \in Customers : CustomerWrites(c)

Route ==
    \/ FindByPhone \/ FillPhone \/ Command \/ FindBySlug \/ FillSlug \/ TakeStore \/ SaveRoute
    \/ FollowSession \/ FindByTenant \/ FillTenant \/ FollowRoute \/ FileOrder

Call(r) ==
    \E t \in Traders :
        \/ "otp" \in world.open /\ RequestOtp(r, t)
        \/ "sign up" \in world.open /\ SignUpPhone(r, t)
        \/ "verify" \in world.open /\ \E code \in 1..codes : VerifyOtp(r, t, code)

Serve(r) ==
    \/ CheckLimit(r) \/ SetCode(r) \/ CountAttempt(r) \/ SetWindow(r) \/ SendCode(r)
    \/ CreateTrader(r) \/ CacheTrader(r)
    \/ MatchCode(r) \/ DeleteCode(r) \/ FindUser(r) \/ CreateUser(r) \/ MigrateOrders(r)
    \/ BustCaches(r) \/ CommitLogin(r)

TimePasses ==
    \/ \E t \in Traders : CodeExpires(t) \/ WindowEnds(t) \/ PhoneExpires(t) \/ SlugExpires(t)
    \/ \E c \in Customers : RoutingExpires(c)
    \/ TenantExpires

AccountsNext ==
    /\ \/ Arrive \/ Route \/ JobDies
       \/ \E r \in world.requests : Call(r) \/ Serve(r) \/ RequestDies(r)
       \/ TimePasses
    /\ UNCHANGED world

\* The listener and the requests go on, and what has a TTL expires.
Fairness ==
    /\ WF_accountsVars(Route /\ UNCHANGED world)
    /\ \A r \in Requests : WF_accountsVars(Serve(r) /\ UNCHANGED world)
    /\ \A t \in Traders :
          /\ WF_accountsVars(WindowEnds(t) /\ UNCHANGED world)
          /\ WF_accountsVars(SlugExpires(t) /\ UNCHANGED world)
    /\ \A c \in Customers : WF_accountsVars(RoutingExpires(c) /\ UNCHANGED world)

AccountsSpec == AccountsInit /\ [][AccountsNext]_accountsVars /\ Fairness

-----------------------------------------------------------------------------
(* Properties.                                                             *)

\* All variables keep their types.
AccountsTypeOK ==
    /\ world \in Worlds
    /\ row \in [Traders -> Owned \cup {Absent}]
    /\ users \in SUBSET (Traders \X Tenants)
    /\ otp \in [Traders -> Nat] /\ attempts \in [Traders -> Nat]
    /\ ticking \in [Traders -> BOOLEAN]
    /\ codes \in Nat
    /\ phoneCache \in [Traders -> Owned \cup {Nobody, Miss}]
    /\ slugCache \in [Traders -> Owned \cup {Nobody, Miss}]
    /\ tenantCache \in Traders \cup {Nobody, Miss}
    /\ routing \in [Customers -> Routing \cup {NoRoute}]
    /\ route \in [Customers -> Traders \cup {None}]
    /\ orders \in SUBSET Order
    /\ job \in Job
    /\ req \in [Requests -> Request]
    /\ issued \in [Traders -> Nat]
    /\ cut \in SUBSET Traders /\ exposed \in SUBSET Traders

\* However many logins with one code overlap, a trader gets one account and one tenant,
\* and whoever logs in sees the store: the account's tenant is the one of the trader's
\* row, whatever sign-ups and other logins ran at the same time (verify_otp).
\* All variables keep their types.
AccountOwnsTheStore ==
    /\ AccountsTypeOK
    /\ \A u \in users :
           /\ row[u[1]] = u[2]
           /\ \A v \in users : v[1] = u[1] => v = u

\* Where a first login did not overlap with the listener, nothing of the trader stays
\* behind at the platform: her commands run under her own tenant, and every order is
\* filed there, except those of customers with a routing session of before the login
\* (verify_otp, _bust_trader_caches, migrate_trader_orders_to_tenant).
OrdersFollowTheOwner ==
    /\ job.step = "command" /\ job.store \notin exposed => job.got = Cached(row[job.store])
    /\ \A o \in orders : o.store \in exposed \/ o.via = "session" \/ o.tenant = row[o.store]

\* Requests that overlap can pass the limit together, each once, and what a request has
\* counted in one window it may send in the next: never are more than Limit codes sent in
\* one window, plus two for every request but one for the last (request_otp).
CodesWithinLimit ==
    \A t \in Traders : issued[t] <= Limit + 2 * Cardinality(world.requests) - 1

\* A number that used up its codes may ask again some time later, unless a request died
\* before its counter had a TTL (request_otp).
LockoutEnds ==
    \A t \in Traders : attempts[t] >= Limit ~> attempts[t] < Limit \/ t \in cut

\* In the end no customer is routed to a tenant that her trader has left: sessions of
\* before the first login and cached records that the login missed expire, and the stored
\* routing looks the tenant up again (handle_order_intent).
RoutingSettles ==
    <>[](\A c \in Customers :
            routing[c] = NoRoute \/ routing[c].tenant = row[routing[c].store])
=============================================================================
