---------------------------- MODULE MCFrontDesk ----------------------------
(***************************************************************************)
(* The front desk's small parts, checked one by one in one run: control of *)
(* the conversation, consent to text, drafts of replies, quotes, and the   *)
(* turns of the receptionist.                                              *)
(*                                                                         *)
(* focus names the part that runs; the others stay where they begin.  The  *)
(* view of a state is therefore the focus and the variables of its part.   *)
(***************************************************************************)
EXTENDS ConversationControl, SmsConsent, ReplyDrafts, QuoteTerms, AgentTurn, TLC

CONSTANTS n1, n2, q1, q2, p1, p2

VARIABLE focus

Interchangeable == Permutations({q1, q2}) \cup Permutations({p1, p2})

\* The first number asks clients to fill in a form, the second to text YES.
LineForms == (n1 :> "HOSTED") @@ (n2 :> "CONFIRMATION")

Desks4(a, b, c, d) == [x \in {"d1", "d2", "d3", "d4"} |->
    CASE x = "d1" -> a [] x = "d2" -> b [] x = "d3" -> c [] x = "d4" -> d]

DeskScenarios == {
    Desks4("job", "send", "send", "none"),
    Desks4("prepare", "send", "edit", "none"),
    Desks4("prepare", "send", "discard", "none"),
    Desks4("job", "edit", "write", "none"),
    Desks4("prepare", "prepare", "send", "send")}

\* Two turns answer messages, one prepares a draft.
TurnScenarios == {("u1" :> "message") @@ ("u2" :> "message") @@ ("u3" :> "prepare")}

Pick(value, from) == value = CHOOSE x \in from : TRUE

FrontInit ==
    /\ focus \in {"control", "consent", "drafts", "quotes", "turns"}
    /\ ControlInit /\ DraftInit /\ QuoteInit /\ TurnInit
    /\ ConsentInit /\ (focus # "consent" => \A t \in Texts : Pick(inbound[t].line, Lines) /\ Pick(inbound[t].word, Words))

FrontNext ==
    /\ UNCHANGED focus
    /\ \/ focus = "control" /\ ControlNext
          /\ UNCHANGED <<consentVars, draftVars, quoteVars, turnVars>>
       \/ focus = "consent" /\ ConsentNext /\ UNCHANGED <<controlVars, draftVars, quoteVars, turnVars>>
       \/ focus = "drafts" /\ DraftNext /\ UNCHANGED <<controlVars, consentVars, quoteVars, turnVars>>
       \/ focus = "quotes" /\ QuoteNext /\ UNCHANGED <<controlVars, consentVars, draftVars, turnVars>>
       \/ focus = "turns" /\ TurnNext /\ UNCHANGED <<controlVars, consentVars, draftVars, quoteVars>>

FrontSpec == FrontInit /\ [][FrontNext]_<<focus, controlVars, consentVars, draftVars, quoteVars, turnVars>>

FrontView ==
    CASE focus = "control" -> <<focus, controlVars>>
      [] focus = "consent" -> <<focus, consentVars>>
      [] focus = "drafts" -> <<focus, draftVars>>
      [] focus = "quotes" -> <<focus, quoteVars>>
      [] focus = "turns" -> <<focus, turnVars>>
=============================================================================
