-------------------------- MODULE PaymentContract --------------------------
(***************************************************************************)
(* What collecting money for one appointment promises the client: at any   *)
(* time there is at most one payment to make, it asks for the deposit or   *)
(* for exactly what is left of the price, and what was collected once is   *)
(* never asked for again.  Tips come on top and are not counted.           *)
(***************************************************************************)
EXTENDS Integers, Functions

CONSTANTS Attempts, Price, Deposit

VARIABLES
    stage,   \* of each payment: new, asked, collected or lapsed
    service  \* the part of the price it asks for

ContractInit ==
    /\ stage = [p \in Attempts |-> "new"]
    /\ service = [p \in Attempts |-> 0]

At(s) == {p \in Attempts : stage[p] = s}
Collected == SumFunctionOnSet(service, At("collected"))

Move(p, from, to) == p \in At(from) /\ stage' = [stage EXCEPT ![p] = to]

Ask(p, amount) ==
    /\ At("asked") = {} /\ Move(p, "new", "asked")
    /\ \/ amount = Deposit /\ At("collected") = {}
       \/ amount = Price - Collected
    /\ service' = [service EXCEPT ![p] = amount]

Collect(p) == Move(p, "asked", "collected") /\ UNCHANGED service
Lapse(p) == Move(p, "asked", "lapsed") /\ UNCHANGED service

ContractNext ==
    \E p \in Attempts : Collect(p) \/ Lapse(p) \/ \E amount \in 1 .. (Price + Deposit) : Ask(p, amount)

ContractSpec == ContractInit /\ [][ContractNext]_<<stage, service>>
=============================================================================
