------------------------- MODULE OrderStateMachine -------------------------
(***************************************************************************)
(* What app/modules/orders/state_machine.py promises about an order: it is *)
(* created as an inquiry and then only moves along the transition table;   *)
(* paid and failed are final.  SharedOrders builds the abstract            *)
(* specification of the transactions on it; the modules that only need the *)
(* table use it as it is.                                                  *)
(***************************************************************************)
CONSTANT Orders                   \* order ids

VARIABLE state                    \* the state of every order, as committed

Absent == "absent"                \* no row with this id

OrderState == {"inquiry", "confirmed", "paid", "failed"}

Terminal == {"paid", "failed"}

\* _VALID_TRANSITIONS: the states an order may move to from each state.
ValidTransitions ==
    [from \in OrderState |->
        CASE from = "inquiry"   -> {"confirmed", "failed"}
          [] from = "confirmed" -> {"paid", "failed"}
          [] OTHER              -> {}]

\* validate_transition returns without raising.  An unknown or absent state
\* is not a key of the table.
ValidTransition(from, to) ==
    /\ from \in OrderState
    /\ to \in ValidTransitions[from]

Init == state = [o \in Orders |-> Absent]

Create(o) ==
    /\ state[o] = Absent
    /\ state' = [state EXCEPT ![o] = "inquiry"]

Transition(o, to) ==
    /\ ValidTransition(state[o], to)
    /\ state' = [state EXCEPT ![o] = to]
=============================================================================
