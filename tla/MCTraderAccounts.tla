-------------------------- MODULE MCTraderAccounts --------------------------
(* Three kinds of behaviours: requests for codes at the limit, one after    *)
(* the other and overlapping; a sign-up and a first login among the         *)
(* trader's own messages; and a first login among those of customers.       *)
EXTENDS TraderAccounts

CONSTANTS r1, r2

MCWorlds == {
    [open |-> {"otp"}, requests |-> {r1}, codes |-> 6],
    [open |-> {"otp"}, requests |-> {r1, r2}, codes |-> 6],
    [open |-> {"sign up", "verify", "command"}, requests |-> {r1, r2}, codes |-> 1],
    [open |-> {"otp", "verify", "cart", "text"}, requests |-> {r1}, codes |-> 1]}
=============================================================================
