---------------------------- MODULE ReplyContract ----------------------------
(***************************************************************************)
(* What the reply queue promises, whatever its workers do: a reply goes    *)
(* out only for an inbound version that was queued, and the provider is    *)
(* given at most one delivery attempt that it may have carried out for     *)
(* each version.                                                           *)
(***************************************************************************)
CONSTANT Versions

VARIABLES
    offered,   \* versions that were queued for an answer
    answered   \* how many deliveries of a reply to each version may have happened

vars == <<offered, answered>>

Init == offered = {} /\ answered = [v \in Versions |-> 0]

Offer(v) ==
    /\ v \notin offered
    /\ offered' = offered \cup {v}
    /\ UNCHANGED answered

Answer(v) ==
    /\ v \in offered /\ answered[v] = 0
    /\ answered' = [answered EXCEPT ![v] = 1]
    /\ UNCHANGED offered

Next == \E v \in Versions : Offer(v) \/ Answer(v)

Spec == Init /\ [][Next]_vars
=============================================================================
