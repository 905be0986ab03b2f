---------------------------- MODULE PaymentLedger ----------------------------
(***************************************************************************)
(* What the order pipeline promises about money, order by order: a         *)
(* purchase is authorised for one executor at a time, a confirmed purchase *)
(* is confirmed once, and nothing is authorised after it.  This is the     *)
(* docstring of execute_order (src/app/services/orders.py:252-256) as a    *)
(* state machine; OrderLifecycle implements it as long as sweeps do not    *)
(* overlap.                                                                *)
(***************************************************************************)
EXTENDS Naturals

CONSTANT Orders

VARIABLES
  open, \* an executor holds the authority to call the provider
  paid  \* the purchase is confirmed

Init ==
  /\ open = [o \in Orders |-> FALSE]
  /\ paid = [o \in Orders |-> FALSE]

Authorise(o) ==
  /\ ~open[o] /\ ~paid[o]
  /\ open' = [open EXCEPT ![o] = TRUE]
  /\ UNCHANGED paid

Confirm(o) ==
  /\ open[o]
  /\ open' = [open EXCEPT ![o] = FALSE]
  /\ paid' = [paid EXCEPT ![o] = TRUE]

\* Refused, failed, or its executor is gone.
GiveUp(o) ==
  /\ open[o]
  /\ open' = [open EXCEPT ![o] = FALSE]
  /\ UNCHANGED paid

Next == \E o \in Orders : Authorise(o) \/ Confirm(o) \/ GiveUp(o)

Spec == Init /\ [][Next]_<<open, paid>>
==============================================================================
