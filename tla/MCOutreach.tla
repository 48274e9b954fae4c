----------------------------- MODULE MCOutreach -----------------------------
(* The kinds of work share no state but the process that runs them: a       *)
(* behaviour has orders to remind of, or debts, or events, or broadcasts,   *)
(* or scheduled messages, or a weekly report.                               *)
EXTENDS Outreach

MCWorlds == {{"orders"}, {"debts", "by hand"}, {"followups"}, {"messages"}, Broadcasts,
             {"weekly", "trigger", "settings"}}
=============================================================================
