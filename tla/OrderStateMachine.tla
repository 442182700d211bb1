------------------------- MODULE OrderStateMachine -------------------------
(***************************************************************************)
(* The order status machine of src/src/orders/orderStateMachine.js: which  *)
(* status an order may be moved to, as decided by canTransition and        *)
(* enforced by assertTransition.  Pure operators, used by every module     *)
(* that moves an order.                                                    *)
(***************************************************************************)

OrderStatus == {"pending", "processing", "paid", "payment_failed",
                "refunded", "cancelled", "expired"}

\* VALID_TRANSITIONS: the statuses each status may be left for.
ValidTransitions ==
  [s \in OrderStatus |->
     CASE s = "pending"        -> {"processing", "cancelled", "expired"}
       [] s = "processing"     -> {"paid", "payment_failed", "cancelled"}
       [] s = "payment_failed" -> {"pending"}
       [] s = "paid"           -> {"refunded"}
       [] OTHER                -> {}]

\* canTransition: staying put is always allowed.  assertTransition throws a
\* 409 exactly when this is false.
CanTransition(from, to) == from = to \/ to \in ValidTransitions[from]
=============================================================================
