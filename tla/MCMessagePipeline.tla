------------------------- MODULE MCMessagePipeline -------------------------
(* Small instances of MessagePipeline for TLC.                             *)
EXTENDS MessagePipeline

CONSTANTS m1, m2

TwoMessages == {m1, m2}

\* A greeting, which Meta delivers twice, and anything else.
Greeting == [m \in Messages |-> IF m = m1 THEN "trigger" ELSE "other"]
GreetingTwice == [m \in Messages |-> IF m = m1 THEN 2 ELSE 1]
=============================================================================
