------------------------- MODULE OrderStateMachine -------------------------
(***************************************************************************)
(* The broker-neutral order lifecycle table of                             *)
(* domain/order/state_machine.py: the statuses, the terminal ones, and     *)
(* which transition validate_transition lets through.                      *)
(***************************************************************************)

TerminalStates == {"FILLED", "CANCELLED", "REJECTED", "EXPIRED", "ERROR"}

LiveStates == {"CREATED", "SUBMITTED", "TRANSIT", "ACKNOWLEDGED", "PENDING",
               "PARTIALLY_FILLED", "CANCEL_REQUESTED"}

OrderStatus == LiveStates \union TerminalStates

AllowedTransitions == [s \in OrderStatus |->
  CASE s = "CREATED"          -> {"SUBMITTED", "ERROR"}
    [] s = "SUBMITTED"        -> {"TRANSIT", "REJECTED", "ERROR"}
    [] s = "TRANSIT"          -> {"ACKNOWLEDGED", "REJECTED", "ERROR"}
    [] s = "ACKNOWLEDGED"     -> {"PENDING", "REJECTED", "ERROR"}
    [] s = "PENDING"          -> {"PARTIALLY_FILLED", "FILLED", "CANCEL_REQUESTED",
                                  "REJECTED", "EXPIRED", "ERROR"}
    [] s = "PARTIALLY_FILLED" -> {"PARTIALLY_FILLED", "FILLED", "CANCEL_REQUESTED",
                                  "EXPIRED", "ERROR"}
    [] s = "CANCEL_REQUESTED" -> {"CANCELLED", "PARTIALLY_FILLED", "FILLED", "ERROR"}
    [] OTHER                  -> {}]

\* validate_transition raises InvalidOrderTransitionError exactly when this is false.
MayTransition(from, to) == to \in AllowedTransitions[from]

IsTerminal(s) == s \in TerminalStates

\* The statuses record_price and force_expire_end_of_session look for.
RestingStates == {"PENDING", "PARTIALLY_FILLED"}
=============================================================================
