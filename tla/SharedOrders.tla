--------------------------- MODULE SharedOrders ---------------------------
(***************************************************************************)
(* What the transactions of app/modules/orders/service.py promise when     *)
(* several of them are open on one order: OrderStateMachine, as long as    *)
(* they do not overlap, and moves from a state loaded meanwhile where they *)
(* do.  A transaction is known by the state it loaded, its view.           *)
(***************************************************************************)
EXTENDS OrderStateMachine

VARIABLES
    views,          \* per order: the states that its open transactions loaded
    overlapped      \* orders on which a transaction opened beside another

SharedInit ==
    /\ Init
    /\ views = [o \in Orders |-> {}]
    /\ overlapped = {}

\* A transaction loads the order as it is committed now.
Load(o) ==
    /\ views' = [views EXCEPT ![o] = @ \cup {state[o]}]
    /\ overlapped' = IF views[o] = {} THEN overlapped ELSE overlapped \cup {o}
    /\ UNCHANGED state

\* A transaction ends; others may hold the same view.
Close(o) ==
    /\ \E kept \in SUBSET views[o] : views' = [views EXCEPT ![o] = kept]
    /\ UNCHANGED overlapped

\* The move of the table, by a transaction that knows the committed state.
Move(o) ==
    /\ state[o] \in views[o]
    /\ Create(o) \/ \E to \in OrderState : Transition(o, to)
    /\ Close(o)

\* The move of a transaction whose view others have overtaken: it was valid when
\* loaded and overwrites what they committed.
StaleMove(o, to) ==
    /\ o \in overlapped
    /\ \E from \in views[o] : ValidTransition(from, to)
    /\ state' = [state EXCEPT ![o] = to]
    /\ Close(o)

SharedNext ==
    \E o \in Orders :
        \/ Load(o)
        \/ Close(o) /\ UNCHANGED state
        \/ Move(o)
        \/ \E to \in OrderState : StaleMove(o, to)

SharedSpec == SharedInit /\ [][SharedNext]_<<state, views, overlapped>>
=============================================================================
