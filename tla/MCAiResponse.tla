---------------------------- MODULE MCAiResponse ----------------------------
(***************************************************************************)
(* Two looks at the reply queue: two workers, and one worker while staff   *)
(* act on the conversation.  focus says which.  The schedule calls the     *)
(* endpoint for every worker that the focus has.                           *)
(***************************************************************************)
EXTENDS AiResponse

CONSTANTS w1, w2

VARIABLE focus

Active(w) == focus = "pair" \/ w = w1

\* STOP and START, a webhook that dies and a third claim are part of the first
\* look only.
InFocus ==
    IF focus = "pair" THEN started' = started
    ELSE /\ worker'[w2] = worker[w2] /\ claims' <= 2
         /\ \A v \in Versions : handler'[v] \in {"none", "decide", "enqueue", "queued", "done"}

FocusNext == UNCHANGED focus /\ Next /\ InFocus

FocusInit == focus \in {"pair", "staff"} /\ Init

FocusSpec ==
    /\ FocusInit
    /\ [][FocusNext]_<<focus, vars>>
    /\ \A w \in Workers : /\ WF_vars(Active(w) /\ Claim(w)) /\ WF_vars(Active(w) /\ Sweep(w))
                          /\ WF_vars(WorkerStep(w))
    /\ WF_vars(LeaseExpires)
=============================================================================
