------------------------------- MODULE MCInbox -------------------------------
(* Eight kinds of behaviours: people joining and leaving the team, people    *)
(* signing up, reactions and assignments that are watched, the threads of    *)
(* one customer, connecting a number, and lists of conversations and of      *)
(* messages that are read while they change.                                 *)
EXTENDS Inbox

CONSTANTS u1, u2, n1, n2, c1, c2, c3, r1, r2

World(open, people, customers, requests, calls, ticks) ==
    [open |-> open, people |-> people, customers |-> customers, requests |-> requests,
     clicks |-> calls, clock |-> ticks]

MCWorlds == {
    World({"team", "assign"}, {u2, n1, n2}, {c1}, {r1, r2}, 3, 0),
    World({"team", "signup"}, {n1, n2}, {}, {r1, r2}, 3, 0),
    World({"react", "watch"}, {u1, u2}, {}, {r1, r2}, 2, 0),
    World({"assign", "watch", "crash"}, {u1}, {c1}, {r1, r2}, 2, 0),
    World({"start", "inbound", "reply", "crash"}, {}, {c1}, {r1, r2}, 3, 1),
    World({"connect", "crash"}, {}, {}, {r1, r2}, 3, 0),
    World({"assign", "list"}, {u1}, {c1, c2, c3}, {r1}, 3, 1),
    World({"reply", "list"}, {}, {c1}, {r1}, 3, 1)}
=============================================================================
