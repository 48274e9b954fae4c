-------------------------------- MODULE Inbox --------------------------------
(***************************************************************************)
(* The dashboard of one tenant.  A team that grows by invitation shares    *)
(* an inbox: its members open conversations, reply, react and assign them  *)
(* to each other, connect the tenant's WhatsApp number, page through the   *)
(* lists, and watch each other's changes over WebSockets.  Requests run    *)
(* next to each other and next to the listener that files the customers'   *)
(* messages; transactions are READ COMMITTED, an UPDATE or a colliding     *)
(* INSERT waits for the transaction that holds the row, and an UPDATE      *)
(* writes the columns that differ from what its session had loaded.        *)
(***************************************************************************)
EXTENDS Naturals, Sequences, FiniteSets

CONSTANTS
    Staff,          \* those who are on the team from the start
    Newcomers,      \* people, by their e-mail address, who may be invited
    Invites,
    Customers,
    Rows,           \* ids of conversations and of messages, numbers for their order
    Wamids,         \* ids of messages that WhatsApp delivers
    Exts,           \* ids that the dashboard gives its replies
    Emojis,
    Phones,         \* numbers that may be connected
    Sockets,
    Requests,       \* requests, and the message listener, that may be under way together
    PageSize,
    MaxClock,       \* bound: timestamps
    Worlds          \* bounds: the operations that happen, who acts, number of requests

Operations == {"team", "signup", "assign", "react", "reply", "start", "inbound", "connect", "list",
               "watch", "crash"}

Users == Staff \cup Newcomers

None == "none"

ASSUME PageAssumption == PageSize \in Nat \ {0}
ASSUME BoundsAssumption ==
    /\ MaxClock \in Nat /\ Rows \subseteq Nat \ {0}
    /\ Worlds \subseteq [open : SUBSET Operations, customers : SUBSET Customers,
                         people : SUBSET Users, requests : SUBSET Requests, clicks : Nat,
                         clock : 0..MaxClock]
ASSUME RowsAssumption ==
    /\ IsFiniteSet(Rows)
    /\ \E f \in [Customers -> Rows] : \A c, d \in Customers : c # d => f[c] # f[d]
ASSUME NamesAssumption == None \notin Wamids /\ Wamids \cap Exts = {}

VARIABLES
    world,          \* one of Worlds
    clock,          \* now(), as coarse as ties demand
    members,        \* user_tenants
    accounts,       \* e-mail addresses that have an account
    founders,       \* those who own a workspace of their own
    invites,        \* per invite: its state
    convs,          \* the conversations, all of them active
    messages,
    reactions,      \* <<member, emoji>> on one message
    channel,        \* tenant_channels
    subscribed,     \* numbers whose webhook Meta has
    listener,       \* the realtime listener: starting, subscribed, or dead
    queue,          \* events that it has not taken yet
    cast,           \* the event that it is sending
    sockets,        \* ConnectionManager._connections
    gone,           \* sockets whose client is not there
    view,           \* per socket and topic: what the client shows
    pager,          \* the list that a client reads page by page
    req,            \* per request: what it is about to do
    clicks,         \* number of requests so far
    admitted,       \* per invite: who joined with it
    sends,          \* per message: number of attempts to deliver it
    excused         \* what two requests at once worked on, what a request had committed,
                    \* but not sent or published, when it died, and what was published
                    \* to nobody

team == <<members, accounts, founders, invites, admitted>>
threads == <<convs, messages, sends>>
number == <<channel, subscribed>>
live == <<listener, queue, cast, sockets, gone, view>>
vars == <<world, clock, team, threads, reactions, number, live, pager, req, clicks, excused>>

-----------------------------------------------------------------------------
Conversation == [id : Rows, customer : Customers, created : 0..MaxClock, updated : 0..MaxClock,
                 assignee : Users \cup {None}]

Message == [id : Rows, conv : Rows, ext : Wamids \cup Exts \cup {None}, reply : BOOLEAN,
            created : 0..MaxClock]

\* What the screens show live: who has a conversation, and the reactions on the message.
Topics == ({"conversation"} \X Rows) \cup {<<"reactions", 0>>}

Subjects ==
    Topics \cup ({"thread", "sent"} \X Rows) \cup {<<"channel", 0>>, <<"nothing", 0>>}
    \cup ({"invite"} \X Invites) \cup ({"customer"} \X Customers) \cup ({"member"} \X Users)

\* The assignee, without an emoji, or the reactions.
Shown == (Users \cup {None}) \X (Emojis \cup {None})

\* on: what the request works on; who, word: its arguments; at: now() of its transaction;
\* row: what it found or made; plan: what it will write; shown: what it will publish.
Request ==
    [op : {"none", "accept", "signup", "remove", "assign", "react", "reply", "start",
           "inbound", "connect"},
     step : {"idle", "read", "again", "write", "register", "lock", "commit", "fetch", "after"},
     on : Subjects, who : Users \cup {None},
     word : Wamids \cup Exts \cup Emojis \cup Phones \cup {None},
     at : 0..MaxClock, row : Rows \cup {0},
     plan : {None, "insert", "update", "update all", "mark", "delete", "rename", "skip"},
     shown : SUBSET Shown]

Free == [op |-> "none", step |-> "idle", on |-> <<"nothing", 0>>, who |-> None, word |-> None,
         at |-> 0, row |-> 0, plan |-> None, shown |-> {}]

NoChannel == [phone |-> None, registered |-> FALSE]

NoCast == [topic |-> <<"nothing", 0>>, shown |-> {}, left |-> {}, stale |-> {}]

NoList == [of |-> 0, state |-> "closed", cursor |-> <<0, 0>>, seen |-> [x \in Rows |-> 0],
           owed |-> {}]

\* The owner of the workspace.
Owner == CHOOSE u \in Staff : TRUE

\* Ids of the conversations that are there already, if there are any.
Home == CHOOSE f \in [Customers -> Rows] : \A c, d \in Customers : c # d => f[c] # f[d]

Init ==
    /\ world \in Worlds
    /\ convs \in {{}, {[id |-> Home[c], customer |-> c, created |-> 0, updated |-> 0,
                        assignee |-> None] : c \in world.customers}}
    /\ clock = 0 /\ clicks = 0
    /\ members = Staff /\ accounts = {} /\ founders = {}
    /\ invites = [i \in Invites |-> "none"]
    /\ admitted = [i \in Invites |-> {}]
    /\ messages = {}
    /\ sends = [m \in Rows |-> 0]
    /\ reactions = {}
    /\ channel = NoChannel /\ subscribed = {}
    /\ listener = "subscribed" /\ queue = <<>> /\ cast = NoCast
    /\ sockets = {} /\ gone = Sockets
    /\ view = [s \in Sockets |-> [t \in Topics |-> {}]]
    /\ pager = NoList
    /\ req = [r \in Requests |-> Free]
    /\ excused = {}

-----------------------------------------------------------------------------
(* A request: it begins, takes its steps, and ends.                        *)

Begin(r, op, on, who, word) ==
    /\ req[r].step = "idle" /\ clicks < world.clicks
    /\ req' = [req EXCEPT ![r] = [Free EXCEPT !.op = op, !.step = "read", !.on = on, !.who = who,
                                              !.word = word, !.at = clock]]
    /\ clicks' = clicks + 1
    /\ excused' = IF \E q \in Requests : req[q].on = on THEN excused \cup {on} ELSE excused
    /\ UNCHANGED <<team, threads, reactions, number, live, pager>>

At(r, op, step) == req[r].op = op /\ req[r].step = step

To(r, step) == req' = [req EXCEPT ![r].step = step]

Plan(r, step, plan) == req' = [req EXCEPT ![r].step = step, ![r].plan = plan]

End(r) == req' = [req EXCEPT ![r] = Free]

\* Only the request moves on.
Quiet == UNCHANGED <<team, threads, reactions, number, live, pager, clicks, excused>>

\* Does another transaction hold the row that this one wants to write?
Held(r, steps, by(_)) ==
    \E q \in Requests \ {r} : req[q].op = req[r].op /\ req[q].step \in steps /\ by(req[q])

-----------------------------------------------------------------------------
(* The team: POST /staff/invite, .../accept, DELETE /staff/{user_id}.      *)

CreateInvite(i) ==
    /\ invites[i] = "none"
    /\ invites' = [invites EXCEPT ![i] = "open"]
    /\ UNCHANGED <<members, accounts, founders, admitted, threads, reactions, number, live, pager, req,
                   clicks, excused>>

InviteExpires(i) ==
    /\ invites[i] = "open"
    /\ invites' = [invites EXCEPT ![i] = "expired"]
    /\ UNCHANGED <<members, accounts, founders, admitted, threads, reactions, number, live, pager, req,
                   clicks, excused>>

AcceptInvite(r, i, n) == Begin(r, "accept", <<"invite", i>>, n, None)

\* _load_valid_invite.
LoadInvite(r) ==
    /\ At(r, "accept", "read")
    /\ IF invites[req[r].on[2]] = "open" THEN To(r, "again") ELSE End(r)
    /\ Quiet

FindEmail(r) ==
    /\ At(r, "accept", "again")
    /\ IF req[r].who \in accounts THEN End(r) ELSE To(r, "write")
    /\ Quiet

\* POST /auth/signup/email and .../google: a person without an invite.
SignUp(r, n) == Begin(r, "signup", <<"member", n>>, n, None)

\* An address that is taken: a conflict, or with Google's word a login.
FindAccount(r) ==
    /\ At(r, "signup", "read")
    /\ IF req[r].who \in accounts THEN End(r) ELSE To(r, "write")
    /\ Quiet

HoldsAddress(q, n) ==
    q.who = n /\ q.op \in {"accept", "signup"} /\ q.step \in {"lock", "commit"}

\* The INSERT of the account waits for another one with the same address, and fails if
\* that one commits.
CreateAccount(r) ==
    /\ req[r].op \in {"accept", "signup"} /\ req[r].step = "write"
    /\ ~ \E q \in Requests : HoldsAddress(req[q], req[r].who)
    /\ IF req[r].who \in accounts THEN End(r)
       ELSE To(r, IF req[r].op = "accept" THEN "lock" ELSE "commit")
    /\ Quiet

\* The account, a tenant and the membership of its owner, committed together.
CommitSignUp(r) ==
    /\ At(r, "signup", "commit")
    /\ accounts' = accounts \cup {req[r].who}
    /\ founders' = founders \cup {req[r].who}
    /\ End(r)
    /\ UNCHANGED <<members, invites, admitted, threads, reactions, number, live, pager, clicks,
                   excused>>

\* invite.used_at is set; the account and the membership are there already.
ConsumeInvite(r) ==
    /\ At(r, "accept", "lock")
    /\ ~ Held(r, {"commit"}, LAMBDA q : q.on = req[r].on)
    /\ To(r, "commit")
    /\ Quiet

\* Mutant: the invite is not consumed.
KeepInvite(r) ==
    /\ At(r, "accept", "commit")
    /\ LET i == req[r].on[2]
           n == req[r].who
       IN /\ accounts' = accounts \cup {n}
          /\ members' = members \cup {n}
          /\ admitted' = [admitted EXCEPT ![i] = @ \cup {n}]
    /\ End(r)
    /\ UNCHANGED <<founders, invites, threads, reactions, number, live, pager, clicks, excused>>

CommitAccept(r) ==
    /\ At(r, "accept", "commit")
    /\ LET i == req[r].on[2]
           n == req[r].who
       IN /\ accounts' = accounts \cup {n}
          /\ members' = members \cup {n}
          /\ invites' = [invites EXCEPT ![i] = "used"]
          /\ admitted' = [admitted EXCEPT ![i] = @ \cup {n}]
    /\ End(r)
    /\ UNCHANGED <<founders, threads, reactions, number, live, pager, clicks, excused>>

RemoveMember(r, u) == Begin(r, "remove", <<"member", u>>, u, None)

LoadMembership(r) ==
    /\ At(r, "remove", "read")
    /\ IF req[r].who \in members \ {Owner} THEN To(r, "commit") ELSE End(r)
    /\ Quiet

\* Conversations of the one who leaves stay assigned to her.
CommitRemove(r) ==
    /\ At(r, "remove", "commit")
    /\ members' = members \ {req[r].who}
    /\ End(r)
    /\ UNCHANGED <<accounts, founders, invites, admitted, threads, reactions, number, live, pager,
                   clicks, excused>>

-----------------------------------------------------------------------------
(* PATCH /conversations/{id}/assign: assign_conversation.                  *)

AssignConversation(r, c, u) == Begin(r, "assign", <<"conversation", c.id>>, u, None)

CheckAssignee(r) ==
    /\ At(r, "assign", "read")
    /\ IF req[r].who \in members \cup {None} THEN To(r, "again") ELSE End(r)
    /\ Quiet

Row(id) == CHOOSE c \in convs : c.id = id

\* The conversation is loaded; what does not change it, is not written.
LoadConversation(r) ==
    /\ At(r, "assign", "again")
    /\ Plan(r, "write", IF Row(req[r].on[2]).assignee = req[r].who THEN "skip" ELSE "update")
    /\ Quiet

\* An inbound message with a new name of the customer, and one that is stored already.
Renames(q) == q.plan \in {"update", "rename"}
Repeats(q) == q.plan \in {"skip", "rename"}

\* A conversation is held by whoever assigns it and by the listener that renames it.
HoldsConversation(q, id) ==
    /\ q.step = "commit"
    /\ \/ q.op = "assign" /\ q.plan = "update" /\ q.on[2] = id
       \/ q.op = "inbound" /\ Renames(q) /\ q.row = id

WriteAssignee(r) ==
    /\ At(r, "assign", "write")
    /\ req[r].plan = "update" => \A q \in Requests : ~ HoldsConversation(req[q], req[r].on[2])
    /\ To(r, "commit")
    /\ Quiet

\* A list that is being read owes nothing of what moved in its order.
Moved(id) == pager' = IF pager.of = 0 THEN [pager EXCEPT !.owed = @ \ {id}] ELSE pager

CommitAssignment(r) ==
    /\ At(r, "assign", "commit")
    /\ LET id == req[r].on[2]
       IN IF req[r].plan = "update"
            THEN /\ convs' = {IF c.id = id THEN [c EXCEPT !.assignee = req[r].who,
                                                          !.updated = req[r].at] ELSE c : c \in convs}
                 /\ Moved(id)
            ELSE UNCHANGED <<convs, pager>>
    /\ req' = [req EXCEPT ![r].step = "after", ![r].shown = {<<req[r].who, None>>}]
    /\ UNCHANGED <<team, messages, sends, reactions, number, live, clicks, excused>>

-----------------------------------------------------------------------------
(* POST .../messages/{id}/reactions: react_to_message.                     *)

ReactToMessage(r, u, e) == Begin(r, "react", <<"reactions", 0>>, u, e)

Reacted(u) == {x \in reactions : x[1] = u}

\* get_reaction: the same emoji again takes it back.
ReadReaction(r) ==
    /\ At(r, "react", "read")
    /\ Plan(r, "again", IF <<req[r].who, req[r].word>> \in reactions THEN "delete" ELSE "insert")
    /\ Quiet

\* upsert_reaction and delete_reaction look again.
ReadReactionAgain(r) ==
    /\ At(r, "react", "again")
    /\ Plan(r, "write",
            CASE req[r].plan = "delete" /\ Reacted(req[r].who) = {} -> "skip"
              [] req[r].plan = "insert" /\ Reacted(req[r].who) # {} -> "update"
              [] OTHER -> req[r].plan)
    /\ Quiet

\* An INSERT next to a row that came up, or an UPDATE of a row that went away, raises.
WriteReaction(r) ==
    /\ At(r, "react", "write")
    /\ req[r].plan # "skip" =>
          ~ Held(r, {"commit"}, LAMBDA q : q.who = req[r].who /\ q.plan # "skip")
    /\ IF \/ req[r].plan = "insert" /\ Reacted(req[r].who) # {}
          \/ req[r].plan = "update" /\ Reacted(req[r].who) = {}
         THEN End(r)
         ELSE To(r, "commit")
    /\ Quiet

CommitReaction(r) ==
    /\ At(r, "react", "commit")
    /\ reactions' = (IF req[r].plan = "skip" THEN reactions ELSE reactions \ Reacted(req[r].who))
                    \cup (IF req[r].plan \in {"insert", "update"}
                            THEN {<<req[r].who, req[r].word>>} ELSE {})
    /\ To(r, "fetch")
    /\ UNCHANGED <<team, threads, number, live, pager, clicks, excused>>

FetchReactions(r) ==
    /\ At(r, "react", "fetch")
    /\ req' = [req EXCEPT ![r].step = "after", ![r].shown = reactions]
    /\ Quiet

\* publish_event, after the commit: Redis drops what nobody is subscribed to.
Publish(r) ==
    /\ req[r].op \in {"assign", "react"} /\ req[r].step = "after"
    /\ \/ /\ listener = "subscribed"
          /\ queue' = Append(queue, [topic |-> req[r].on, shown |-> req[r].shown])
          /\ UNCHANGED excused
       \/ /\ listener # "subscribed"
          /\ excused' = excused \cup {req[r].on}
          /\ UNCHANGED queue
    /\ End(r)
    /\ UNCHANGED <<team, threads, reactions, number, listener, cast, sockets, gone, view, pager,
                   clicks>>

-----------------------------------------------------------------------------
(* POST /conversations, the listener's handle_inbound, and POST            *)
(* /conversations/{id}/messages.                                           *)

StartConversation(r, c) == Begin(r, "start", <<"customer", c>>, None, None)

\* The listener takes one message at a time, some of them more than once.
HandleInbound(r, c, x) ==
    /\ \A q \in Requests : req[q].op # "inbound"
    /\ Begin(r, "inbound", <<"customer", c>>, None, x)

AddMessage(r, c, x) == Begin(r, "reply", <<"thread", c.id>>, None, x)

\* get_conversation_by_sender: the newest conversation, if there is one.
Newest(c) ==
    LET of == {v \in convs : v.customer = c}
    IN {v \in of : \A w \in of : w.created <= v.created}

FindConversation(r) ==
    /\ req[r].op \in {"start", "inbound"} /\ req[r].step = "read"
    /\ \/ /\ Newest(req[r].on[2]) = {}
          /\ To(r, IF req[r].op = "start" THEN "commit" ELSE "write")
       \/ \E v \in Newest(req[r].on[2]) :
             IF req[r].op = "start" THEN End(r)
                ELSE req' = [req EXCEPT ![r].step = "write", ![r].row = v.id]
    /\ Quiet

Stored(conv, x) == x # None /\ \E m \in messages : m.conv = conv /\ m.ext = x

\* Mutant: the listener does not look for the message.
SaveAgain(r) ==
    /\ At(r, "inbound", "write")
    /\ Plan(r, "commit", "insert")
    /\ Quiet

\* handle_inbound: a new name of the customer updates a conversation that was there before,
\* whether the message is a new one or not; a message that is stored already is dropped.
SaveInbound(r) ==
    /\ At(r, "inbound", "write")
    /\ LET id == req[r].row
           stored == Stored(id, req[r].word)
       IN \/ Plan(r, "commit", IF stored THEN "skip" ELSE "insert")
          \/ /\ id # 0
             /\ \A q \in Requests : ~ HoldsConversation(req[q], id)
             /\ Plan(r, "commit", IF stored THEN "rename" ELSE "update")
    /\ Quiet

NewConversation(r, id) ==
    [id |-> id, customer |-> req[r].on[2], created |-> req[r].at, updated |-> req[r].at,
     assignee |-> None]

NewMessage(r, id, conv) ==
    [id |-> id, conv |-> conv, ext |-> req[r].word, reply |-> req[r].op = "reply",
     created |-> req[r].at]

FreeRows(rows) == Rows \ {x.id : x \in rows}

CommitStart(r) ==
    /\ At(r, "start", "commit")
    /\ \E id \in FreeRows(convs) : convs' = convs \cup {NewConversation(r, id)}
    /\ End(r)
    /\ UNCHANGED <<team, messages, sends, reactions, number, live, pager, clicks, excused>>

CommitInbound(r) ==
    /\ At(r, "inbound", "commit")
    /\ \E id \in IF req[r].row = 0 THEN FreeRows(convs) ELSE {req[r].row},
          m \in FreeRows(messages) :
          /\ convs' = IF req[r].row = 0 THEN convs \cup {NewConversation(r, id)}
                      ELSE IF Renames(req[r])
                      THEN {IF c.id = id THEN [c EXCEPT !.updated = req[r].at] ELSE c : c \in convs}
                      ELSE convs
          /\ IF Renames(req[r]) THEN Moved(id) ELSE UNCHANGED pager
          /\ messages' = IF Repeats(req[r]) THEN messages
                         ELSE messages \cup {NewMessage(r, m, id)}
    /\ End(r)
    /\ UNCHANGED <<team, sends, reactions, number, live, clicks, excused>>

\* Mutant: the reply goes out before it is looked up.
SendFirst(r) ==
    /\ At(r, "reply", "read")
    /\ \E m \in Rows : sends' = [sends EXCEPT ![m] = @ + 1]
    /\ IF Stored(req[r].on[2], req[r].word) THEN End(r) ELSE To(r, "write")
    /\ UNCHANGED <<team, convs, messages, reactions, number, live, pager, clicks, excused>>

\* A reply that is stored already is returned, and not sent again.
FindReply(r) ==
    /\ At(r, "reply", "read")
    /\ IF Stored(req[r].on[2], req[r].word) THEN End(r) ELSE To(r, "write")
    /\ Quiet

\* The INSERT waits for the same external id, and fails if that one commits.
SaveReply(r) ==
    /\ At(r, "reply", "write")
    /\ req[r].word # None =>
          ~ Held(r, {"commit"}, LAMBDA q : q.on = req[r].on /\ q.word = req[r].word)
    /\ IF Stored(req[r].on[2], req[r].word) THEN End(r) ELSE To(r, "commit")
    /\ Quiet

CommitReply(r) ==
    /\ At(r, "reply", "commit")
    /\ \E m \in FreeRows(messages) :
          /\ messages' = messages \cup {NewMessage(r, m, req[r].on[2])}
          /\ req' = [req EXCEPT ![r].step = "after", ![r].row = m]
    /\ UNCHANGED <<team, convs, sends, reactions, number, live, pager, clicks, excused>>

\* _dispatch_reply: what goes wrong is logged.
DispatchReply(r) ==
    /\ At(r, "reply", "after")
    /\ sends' = [sends EXCEPT ![req[r].row] = @ + 1]
    /\ End(r)
    /\ UNCHANGED <<team, convs, messages, reactions, number, live, pager, clicks, excused>>

-----------------------------------------------------------------------------
(* POST /channels/whatsapp/connect.                                        *)

ConnectWhatsApp(r, p) == Begin(r, "connect", <<"channel", 0>>, None, p)

\* upsert: "update" leaves the flag alone, as it was FALSE when it was loaded.
LoadChannel(r) ==
    /\ At(r, "connect", "read")
    /\ Plan(r, "write", CASE channel = NoChannel -> "insert"
                          [] channel.registered -> "update all"
                          [] OTHER -> "update")
    /\ Quiet

WriteChannel(r) ==
    /\ At(r, "connect", "write")
    /\ ~ Held(r, {"register", "commit"}, LAMBDA q : TRUE)
    /\ IF req[r].plan = "insert" /\ channel # NoChannel THEN End(r) ELSE To(r, "register")
    /\ Quiet

\* _register_webhook, with the row held: each attempt may get through, get an answer, or
\* neither; then mark_webhook_registered.
RegisterWebhook(r) ==
    /\ At(r, "connect", "register")
    /\ \/ /\ subscribed' = subscribed \cup {req[r].word}
          /\ Plan(r, "commit", "mark")
       \/ /\ subscribed' \in {subscribed, subscribed \cup {req[r].word}}
          /\ To(r, "commit")
    /\ UNCHANGED <<team, threads, reactions, channel, live, pager, clicks, excused>>

\* Mutant: the upsert does not reset the flag.
KeepFlag(r) ==
    /\ At(r, "connect", "commit")
    /\ channel' = [phone |-> req[r].word,
                   registered |-> req[r].plan = "mark" \/ channel.registered]
    /\ End(r)
    /\ UNCHANGED <<team, threads, reactions, subscribed, live, pager, clicks, excused>>

CommitChannel(r) ==
    /\ At(r, "connect", "commit")
    /\ channel' = [phone |-> req[r].word,
                   registered |-> \/ req[r].plan = "mark"
                                  \/ req[r].plan = "update" /\ channel.registered]
    /\ End(r)
    /\ UNCHANGED <<team, threads, reactions, subscribed, live, pager, clicks, excused>>

-----------------------------------------------------------------------------
(* The lists: GET /conversations, newest change first, and GET             *)
(* /conversations/{id}/messages, oldest first.                             *)

\* of: 0 for the conversations, or the conversation whose messages are listed.  One list is
\* followed in a behaviour.
Keys(of) ==
    IF of = 0 THEN {<<c.updated, c.id>> : c \in convs}
    ELSE {<<m.created, m.id>> : m \in {x \in messages : x.conv = of}}

Less(j, k) == j[1] < k[1] \/ (j[1] = k[1] /\ j[2] < k[2])

Comes(of, j, k) == IF of = 0 THEN Less(k, j) ELSE Less(j, k)

OpenList(of) ==
    /\ pager.state = "closed"
    /\ pager' = [NoList EXCEPT !.of = of, !.state = "first", !.owed = {k[2] : k \in Keys(of)}]
    /\ UNCHANGED <<team, threads, reactions, number, live, req, clicks, excused>>

\* Mutant: only the timestamp counts.
AfterTime(of, cursor) ==
    {k \in Keys(of) : IF of = 0 THEN k[1] < cursor[1] ELSE k[1] > cursor[1]}

\* The rows that come after the cursor.
After(of, cursor) == {k \in Keys(of) : Comes(of, cursor, k)}

\* One more row than a page is read, to see whether there is another page.
NextPage ==
    /\ pager.state \in {"first", "next"}
    /\ LET rest == IF pager.state = "first" THEN Keys(pager.of) ELSE After(pager.of, pager.cursor)
           page == {k \in rest : Cardinality({j \in rest : Comes(pager.of, j, k)}) < PageSize}
           seen == [x \in Rows |-> pager.seen[x] + Cardinality({k \in page : k[2] = x})]
       IN IF rest = page
            THEN pager' = [pager EXCEPT !.state = "end", !.seen = seen]
            ELSE \E last \in page :
                    /\ \A k \in page : k = last \/ Comes(pager.of, k, last)
                    /\ pager' = [pager EXCEPT !.state = "next", !.seen = seen, !.cursor = last]
    /\ UNCHANGED <<team, threads, reactions, number, live, req, clicks, excused>>

-----------------------------------------------------------------------------
(* Realtime: ConnectionManager, and the one task that serves it.           *)

Truth(t) ==
    IF t[1] = "reactions" THEN reactions
    ELSE {<<IF \E c \in convs : c.id = t[2] THEN Row(t[2]).assignee ELSE None, None>>}

\* The page loads what it shows when its socket opens.
OpenSocket(s) ==
    /\ s \notin sockets \cup cast.left \cup cast.stale
    /\ sockets' = sockets \cup {s}
    /\ gone' = gone \ {s}
    /\ view' = [view EXCEPT ![s] = [t \in Topics |-> Truth(t)]]
    /\ UNCHANGED <<team, threads, reactions, number, listener, queue, cast, pager, req, clicks, excused>>

ClientLeaves(s) ==
    /\ s \notin gone
    /\ gone' = gone \cup {s}
    /\ UNCHANGED <<team, threads, reactions, number, listener, queue, cast, sockets, view, pager, req,
                   clicks, excused>>

\* disconnect, by the endpoint: its receive loop ends.
Disconnect(s) ==
    /\ s \in sockets \cap gone
    /\ sockets' = sockets \ {s}
    /\ UNCHANGED <<team, threads, reactions, number, listener, queue, cast, gone, view, pager, req,
                   clicks, excused>>

\* _listen_and_broadcast takes an event, and sends it to the sockets of that moment.
TakeEvent ==
    /\ queue # <<>> /\ cast = NoCast
    /\ queue' = Tail(queue)
    /\ cast' = IF sockets = {} THEN NoCast
               ELSE [topic |-> Head(queue).topic, shown |-> Head(queue).shown, left |-> sockets,
                     stale |-> {}]
    /\ UNCHANGED <<team, threads, reactions, number, listener, sockets, gone, view, pager, req,
                   clicks, excused>>

\* Mutant: a socket that fails ends the broadcast.
StopAtFailure(s) ==
    /\ s \in cast.left
    /\ view' = IF s \in gone THEN view ELSE [view EXCEPT ![s][cast.topic] = cast.shown]
    /\ cast' = IF s \in gone \/ cast.left = {s} THEN NoCast ELSE [cast EXCEPT !.left = @ \ {s}]
    /\ sockets' = IF s \in gone THEN sockets \ {s} ELSE sockets
    /\ UNCHANGED <<team, threads, reactions, number, listener, queue, gone, pager, req, clicks,
                   excused>>

\* send_text raises or is lost where the client has left; the sockets that raised are
\* removed at the end.
SendText(s) ==
    /\ s \in cast.left
    /\ \E stale \in {cast.stale} \cup (IF s \in gone THEN {cast.stale \cup {s}} ELSE {}) :
          IF cast.left = {s}
            THEN cast' = NoCast /\ sockets' = sockets \ stale
            ELSE cast' = [cast EXCEPT !.left = @ \ {s}, !.stale = stale] /\ UNCHANGED sockets
    /\ view' = IF s \in gone THEN view ELSE [view EXCEPT ![s][cast.topic] = cast.shown]
    /\ UNCHANGED <<team, threads, reactions, number, listener, queue, gone, pager, req, clicks,
                   excused>>

-----------------------------------------------------------------------------
(* Failures and time.                                                      *)

\* What a request leaves behind if it dies now: its transaction is rolled back, or it was
\* committed already.
Leftover(q) ==
    CASE q.op = "reply" /\ q.step = "after" -> {<<"sent", q.row>>}
      [] q.op \in {"assign", "react"} /\ q.step \in {"fetch", "after"} -> {q.on}
      [] OTHER -> {}

RequestDies(r) ==
    /\ req[r].step # "idle"
    /\ excused' = excused \cup Leftover(req[r])
    /\ End(r)
    /\ UNCHANGED <<team, threads, reactions, number, live, pager, clicks>>

\* The connection of the realtime listener breaks while it waits for the next event: its
\* task is over until the process restarts.
LoseConnection ==
    /\ listener # "dead" /\ cast = NoCast
    /\ listener' = "dead"
    /\ excused' = excused \cup {queue[k].topic : k \in 1..Len(queue)}
    /\ queue' = <<>>
    /\ UNCHANGED <<team, threads, reactions, number, cast, sockets, gone, view, pager, req,
                   clicks>>

\* Its PSUBSCRIBE goes through.
Subscribe ==
    /\ listener = "starting"
    /\ listener' = "subscribed"
    /\ UNCHANGED <<team, threads, reactions, number, queue, cast, sockets, gone, view, pager,
                   req, clicks, excused>>

\* The process starts again: what Redis had for the subscriber is lost, too.
Restart ==
    /\ excused' = excused \cup UNION {Leftover(req[r]) : r \in Requests}
    /\ req' = [r \in Requests |-> Free]
    /\ listener' = "starting" /\ queue' = <<>> /\ cast' = NoCast
    /\ sockets' = {} /\ gone' = Sockets
    /\ UNCHANGED <<team, threads, reactions, number, view, pager, clicks>>

Tick ==
    /\ clock < world.clock
    /\ clock' = clock + 1
    /\ UNCHANGED <<team, threads, reactions, number, live, pager, req, clicks, excused>>

-----------------------------------------------------------------------------
Open(op) == op \in world.open

Call(r) ==
    \/ /\ Open("team")
       /\ \/ \E i \in Invites, n \in Newcomers \cap world.people : AcceptInvite(r, i, n)
          \/ \E u \in world.people : RemoveMember(r, u)
    \/ Open("signup") /\ \E n \in Newcomers \cap world.people : SignUp(r, n)
    \/ Open("assign") /\ \E c \in convs, u \in world.people \cup {None} : AssignConversation(r, c, u)
    \/ Open("react") /\ \E u \in Staff \cap world.people, e \in Emojis : ReactToMessage(r, u, e)
    \/ Open("start") /\ \E c \in world.customers : StartConversation(r, c)
    \/ Open("inbound") /\ \E c \in world.customers, x \in Wamids : HandleInbound(r, c, x)
    \/ Open("reply") /\ \E c \in convs, x \in Exts \cup {None} : AddMessage(r, c, x)
    \/ Open("connect") /\ \E p \in Phones : ConnectWhatsApp(r, p)

Serve(r) ==
    \/ LoadInvite(r) \/ FindEmail(r) \/ FindAccount(r) \/ CreateAccount(r) \/ ConsumeInvite(r)
    \/ CommitAccept(r) \/ CommitSignUp(r)
    \/ LoadMembership(r) \/ CommitRemove(r)
    \/ CheckAssignee(r) \/ LoadConversation(r) \/ WriteAssignee(r) \/ CommitAssignment(r)
    \/ ReadReaction(r) \/ ReadReactionAgain(r) \/ WriteReaction(r) \/ CommitReaction(r)
    \/ FetchReactions(r) \/ Publish(r)
    \/ FindConversation(r) \/ CommitStart(r) \/ SaveInbound(r) \/ CommitInbound(r)
    \/ FindReply(r) \/ SaveReply(r) \/ CommitReply(r) \/ DispatchReply(r)
    \/ LoadChannel(r) \/ WriteChannel(r) \/ RegisterWebhook(r) \/ CommitChannel(r)

Broadcast == Subscribe \/ TakeEvent \/ \E s \in Sockets : SendText(s)

Client ==
    \/ Open("team") /\ \E i \in Invites : CreateInvite(i) \/ InviteExpires(i)
    \/ Open("watch") /\ \E s \in Sockets : OpenSocket(s) \/ ClientLeaves(s) \/ Disconnect(s)
    \/ Open("list") /\ (NextPage \/ \E of \in {0} \cup {c.id : c \in convs} : OpenList(of))

Fail ==
    /\ Open("crash")
    /\ \/ Restart \/ \E r \in world.requests : RequestDies(r)
       \/ Open("watch") /\ LoseConnection

Next ==
    /\ UNCHANGED world
    /\ \/ Tick
       \/ /\ \/ Client \/ Fail \/ Broadcast
             \/ \E r \in world.requests : Call(r) \/ Serve(r)
          /\ UNCHANGED clock

Spec == Init /\ [][Next]_vars

-----------------------------------------------------------------------------
(* Properties.                                                             *)

\* All variables keep their types.
TypeOK ==
    /\ world \in Worlds /\ clock \in 0..MaxClock /\ clicks \in 0..world.clicks
    /\ members \subseteq Users /\ accounts \subseteq Newcomers /\ founders \subseteq accounts
    /\ invites \in [Invites -> {"none", "open", "used", "expired"}]
    /\ admitted \in [Invites -> SUBSET Newcomers]
    /\ convs \subseteq Conversation /\ messages \subseteq Message
    /\ sends \in [Rows -> Nat]
    /\ reactions \subseteq Staff \X Emojis
    /\ channel \in [phone : Phones \cup {None}, registered : BOOLEAN]
    /\ subscribed \subseteq Phones
    /\ listener \in {"starting", "subscribed", "dead"}
    /\ \A k \in 1..Len(queue) : queue[k].topic \in Topics
    /\ sockets \subseteq Sockets /\ gone \subseteq Sockets
    /\ cast.left \subseteq Sockets /\ cast.stale \subseteq Sockets
    /\ req \in [Requests -> Request]
    /\ pager.of \in Rows \cup {0} /\ pager.owed \subseteq Rows
    /\ excused \subseteq Subjects

\* An invite lets one person in, and no more than one unless two accepted it at the same
\* moment; and an address has one account, by one invite or by signing up, whatever
\* overlaps (accept_invite, "single-use"; email_signup, google_signup).
InviteAdmitsOne ==
    \A i \in Invites :
        /\ Cardinality(admitted[i]) <= 1 \/ <<"invite", i>> \in excused
        /\ \A j \in Invites \ {i} : admitted[i] \cap admitted[j] = {}
        /\ admitted[i] \cap founders = {}

\* A customer has one active conversation, in which every message of hers is stored once,
\* however often it is delivered, unless the dashboard opened a conversation with her in
\* the very moment in which she wrote or another member did the same
\* (get_or_create_conversation, save_message).  All variables keep their types.
OneThreadPerCustomer ==
    /\ TypeOK
    /\ \A c \in Customers :
           \/ <<"customer", c>> \in excused
           \/ /\ Cardinality({v \in convs : v.customer = c}) <= 1
              /\ \A x \in Wamids :
                    Cardinality({m \in messages : m.ext = x /\ Row(m.conv).customer = c}) <= 1

\* A reply goes out at most once, when it is stored, and a reply that is stored goes out
\* or has a request that will send it, unless this request died: posting it again, at the
\* same time or later, changes neither (add_message, _dispatch_reply).
ReplyGoesOutOnce ==
    /\ \A m \in Rows : sends[m] > 0 => sends[m] = 1 /\ \E x \in messages : x.id = m /\ x.reply
    /\ \A m \in messages :
          \/ ~ m.reply \/ sends[m.id] = 1 \/ <<"sent", m.id>> \in excused
          \/ \E r \in Requests : At(r, "reply", "after") /\ req[r].row = m.id
    /\ \A m, n \in messages : m.conv = n.conv /\ m.ext = n.ext /\ m.ext # None => m = n

\* If the dashboard says that the webhook is registered, Meta has a subscription of the
\* number that is stored, unless two requests connected numbers at the same time
\* (connect, upsert, mark_webhook_registered).
RegisteredIsSubscribed ==
    channel.registered => channel.phone \in subscribed \/ <<"channel", 0>> \in excused

\* Whoever reads a list to its end has seen every row that was there when she began and
\* did not move meanwhile, and nobody sees such a row twice (list_conversations,
\* list_messages).
PagesMissNothing ==
    \A x \in pager.owed : pager.seen[x] <= 1 /\ (pager.state = "end" => pager.seen[x] = 1)

\* A screen that is connected shows what is stored as soon as no event about it is on its
\* way any more, whatever sockets came, left or failed meanwhile, unless two requests
\* changed the same thing at once, one died before it published, or the listener was not
\* there to take the event (assign_conversation, react_to_message, broadcast).
ScreensAreCurrent ==
    \A s \in sockets \ gone, t \in Topics \ excused :
        \/ view[s][t] = Truth(t)
        \/ \E r \in Requests : req[r].on = t /\ req[r].step \in {"fetch", "after"}
        \/ \E k \in 1..Len(queue) : queue[k].topic = t
        \/ cast.topic = t /\ s \in cast.left
=============================================================================
