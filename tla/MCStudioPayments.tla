-------------------------- MODULE MCStudioPayments --------------------------
(***************************************************************************)
(* Two looks at one appointment's payments: three attempts to collect,     *)
(* with tips and two requests at a time, and two attempts with refunds     *)
(* from the studio and at Stripe.  focus says which.  Attempts differ in   *)
(* name only, so the first is reserved first.                              *)
(***************************************************************************)
EXTENDS StudioPayments

CONSTANTS p1, p2, p3, c2

VARIABLE focus

FocusInit == focus \in {"collect", "refund"} /\ Init

InFocus ==
    CASE focus = "collect" -> refund' = refund /\ \A p \in Attempts : payment'[p].status \notin RefundStatuses
      [] focus = "refund" -> /\ payment'[p3].status = "NONE" /\ request'[c2] = {}
                             /\ \A p \in Attempts : payment'[p].tip = 0

Made(p) == payment'[p].status # "NONE"
InTurn == (Made(p2) => Made(p1)) /\ (Made(p3) => Made(p2))

FocusNext == UNCHANGED focus /\ Next /\ InTurn /\ InFocus

FocusSpec ==
    /\ FocusInit /\ [][FocusNext]_<<focus, vars>>
    /\ \A p \in Attempts : WF_vars(ConnectCompleted(p)) /\ WF_vars(TerminalEvent(p))
=============================================================================
