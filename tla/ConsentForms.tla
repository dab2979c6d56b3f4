---------------------------- MODULE ConsentForms ----------------------------
(***************************************************************************)
(* The consent forms of one appointment: choosing a form, issuing a link   *)
(* (staff by text or as a copied link, the assistant), the client's        *)
(* signature on a hosted form, Jotform's completion webhook, the staff's   *)
(* decisions, and the studio editing its forms while links are out.        *)
(*                                                                         *)
(* A form is a record of who it is for; the appointment asks for one       *)
(* artist, one service and an age.  Tokens, answers, the signature itself, *)
(* its hash and the photo are abstracted to the submission they end up in. *)
(* A hand that takes no further step is a process that died.               *)
(***************************************************************************)
EXTENDS Integers, Sequences, FiniteSets

CONSTANTS FormIds,     \* the studio's forms
          FormSets,    \* their definitions: provider, artist, service, audience, rank
          Visit,       \* the appointment: artist, service and age group
          LinkCount,   \* links that can be issued
          FormHands,   \* processes, each doing one thing
          FormPlans    \* what each does: [does, link, form]

ASSUME FormBounds ==
    /\ LinkCount \in Nat
    /\ \A s \in FormSets : s = [f \in FormIds |-> s[f]] /\ \A f \in FormIds :
           s[f] \in [provider : {"MAIA", "JOTFORM", "CUSTOM"}, artist : {s[f].artist},
                    service : {s[f].service}, audience : {"ANY", "ADULT", "MINOR"}, rank : 0 .. 1000]
    /\ \A p \in FormPlans : DOMAIN p = FormHands /\ \A h \in FormHands :
           /\ p[h].does \in {"send", "copy", "assistant", "sign", "complete", "review", "void",
                             "jotform", "edit"}
           /\ p[h].link \in Nat
           /\ p[h].does = "edit" => p[h].form \in FormIds

VARIABLES forms,    \* the rows of external_waiver_forms
          active,   \* the forms that are active
          visit,    \* "open", or "closed": cancelled, missed or long past
          links,    \* the assignments, in order of creation
          signed,   \* hosted submissions stored for each
          reminder, \* the appointment's waiver reminder: "none", "due", "cancelled"
          formHand, \* the processes
          overwrote \* links whose final status a sender's write replaced

fvars == <<forms, active, visit, links, signed, reminder, formHand, overwrote>>

Hosted(a) == forms[links[a].form].provider = "MAIA"
Final == {"COMPLETED", "REVIEWED", "VOID"}

FormInit ==
    /\ forms \in FormSets
    /\ active \in SUBSET FormIds
    /\ visit = "open"
    /\ links = <<>>
    /\ signed = [a \in 1 .. LinkCount |-> 0]
    /\ reminder = "none"
    /\ \E p \in FormPlans :
           formHand = [h \in FormHands |-> [does |-> p[h].does, link |-> p[h].link,
                                            form |-> p[h].form, pc |-> "start"]]
    /\ overwrote = {}

Finish(h, pc) == formHand' = [formHand EXCEPT ![h].pc = pc]
Doing(h, what, pc) == formHand[h].does \in what /\ formHand[h].pc = pc
LinkOf(h) == formHand[h].link

-----------------------------------------------------------------------------
\* selectWaiverForm: the candidates, scored; rank is the form's priority, 0 .. 1000,
\* and scores are in thousandths.
Applies(f) ==
    /\ f \in active
    /\ forms[f].artist \in {"any", Visit.artist}
    /\ forms[f].service \in {"any", Visit.service}
    /\ forms[f].audience \in IF Visit.age = "unknown" THEN {"ANY"} ELSE {"ANY", Visit.age}
If(present, n) == IF present THEN n ELSE 0
\* Faulty variant: the priority is not scaled down.
RawScore(f) == If(forms[f].service # "any", 100) + If(forms[f].artist # "any", 20)
               + If(forms[f].audience # "ANY", 10) - forms[f].rank
Score(f) == 1000 * (If(forms[f].service # "any", 100) + If(forms[f].artist # "any", 20)
                    + If(forms[f].audience # "ANY", 10)) - forms[f].rank
Best == {f \in FormIds : Applies(f) /\ \A g \in FormIds : Applies(g) => Score(f) >= Score(g)}

\* Staff may pick a form by hand: any active one that is not another artist's.
Pickable(h) ==
    IF formHand[h].form = "auto" THEN Best
    ELSE {f \in active : f = formHand[h].form /\ forms[f].artist \in {"any", Visit.artist}}

Issue(h, how, status, next) ==
    /\ Doing(h, {how}, "start") /\ Len(links) < LinkCount
    /\ \E f \in Pickable(h) :
           /\ links' = Append(links, [form |-> f, status |-> status, delivered |-> how # "send",
                                      submission |-> "none",
                                      auto |-> formHand[h].form = "auto"])
           /\ formHand' = [formHand EXCEPT ![h].pc = next, ![h].link = Len(links) + 1]
    /\ UNCHANGED <<forms, active, visit, signed, reminder, overwrote>>

IssueAndText(h) == Issue(h, "send", "PENDING", "texting")
CopyLink(h) == Issue(h, "copy", "PENDING", "done")
AssistantLink(h) == Issue(h, "assistant", "LINK_CREATED", "done")

\* sendStudioSms takes the text or fails.
TextLink(h) ==
    /\ Doing(h, {"send"}, "texting")
    /\ \/ links' = [links EXCEPT ![LinkOf(h)].delivered = TRUE] /\ Finish(h, "texted")
       \/ UNCHANGED links /\ Finish(h, "failed")
    /\ UNCHANGED <<forms, active, visit, signed, reminder, overwrote>>

SetStatus(h, status) ==
    /\ links' = [links EXCEPT ![LinkOf(h)].status = status]
    /\ overwrote' = IF links[LinkOf(h)].status \in Final
                    THEN overwrote \cup {LinkOf(h)} ELSE overwrote

RecordSent(h) ==
    /\ Doing(h, {"send"}, "texted")
    /\ SetStatus(h, "SENT") /\ Finish(h, "recorded")
    /\ UNCHANGED <<forms, active, visit, signed, reminder>>

\* The conversation is updated, then a reminder is queued unless the visit is near; an
\* error on the way, like a failed text, is noted as a failed delivery.
QueueReminder(h) ==
    /\ Doing(h, {"send"}, "recorded")
    /\ reminder' \in {reminder, "due"}
    /\ Finish(h, "done")
    /\ UNCHANGED <<forms, active, visit, links, signed, overwrote>>

NoteFailure(h) ==
    /\ Doing(h, {"send"}, "failed") \/ Doing(h, {"send"}, "recorded")
    /\ SetStatus(h, "DELIVERY_FAILED") /\ Finish(h, "done")
    /\ UNCHANGED <<forms, active, visit, signed, reminder>>

-----------------------------------------------------------------------------
Out(h) == LinkOf(h) \in DOMAIN links /\ links[LinkOf(h)].delivered
DropReminder == reminder' = IF reminder = "due" THEN "cancelled" ELSE reminder

\* resolve: the link still leads to a form that can be signed.
Open(a) == /\ Hosted(a) /\ links[a].status # "VOID"
           /\ links[a].form \in active /\ visit = "open"

\* The client opens the link and sends the signature; reading the photo takes a while.
OpenForm(h) ==
    /\ Doing(h, {"sign"}, "start") /\ Out(h)
    /\ Finish(h, IF Open(LinkOf(h)) /\ links[LinkOf(h)].status \notin {"COMPLETED", "REVIEWED"}
                 THEN "signing" ELSE "done")
    /\ UNCHANGED <<forms, active, visit, links, signed, reminder, overwrote>>

\* Under the lock the assignment must still be unsigned and its link good.
StillUnsigned(a) == links[a].status \notin {"COMPLETED", "REVIEWED"} /\ Open(a)

StoreSignature(h) ==
    LET a == LinkOf(h)
    IN  /\ Doing(h, {"sign"}, "signing")
        /\ IF StillUnsigned(a)
           THEN /\ signed' = [signed EXCEPT ![a] = @ + 1]
                /\ links' = [links EXCEPT ![a].status = "COMPLETED"]
                /\ DropReminder
           ELSE UNCHANGED <<signed, links, reminder>>
        /\ Finish(h, "done")
        /\ UNCHANGED <<forms, active, visit, overwrote>>

-----------------------------------------------------------------------------
\* Staff decide on an assignment they read a moment ago.
MayComplete(a) == ~Hosted(a)

ReadLink(h) ==
    LET a == LinkOf(h)
        does == formHand[h].does
    IN  /\ Doing(h, {"complete", "review", "void"}, "start") /\ a \in DOMAIN links
        /\ Finish(h, IF \/ does = "complete" /\ ~MayComplete(a)
                        \/ does = "review" /\ links[a].status \notin {"COMPLETED", "REVIEWED"}
                     THEN "done" ELSE "deciding")
        /\ UNCHANGED <<forms, active, visit, links, signed, reminder, overwrote>>

DecideLink(h) ==
    /\ Doing(h, {"complete", "review", "void"}, "deciding")
    /\ links' = [links EXCEPT ![LinkOf(h)].status =
           CASE formHand[h].does = "void" -> "VOID"
             [] formHand[h].does = "review" -> "REVIEWED"
             [] OTHER -> "COMPLETED"]
    /\ DropReminder
    /\ Finish(h, "done")
    /\ UNCHANGED <<forms, active, visit, signed, overwrote>>

\* Jotform reports a submission, perhaps again; the report is checked against what the
\* assignment says now and written later.
CheckSubmission(h) ==
    LET a == LinkOf(h)
    IN  /\ Doing(h, {"jotform"}, "start") /\ Out(h)
        /\ Finish(h, IF \/ forms[links[a].form].provider # "JOTFORM"
                        \/ links[a].status = "COMPLETED" /\ links[a].submission = formHand[h].form
                     THEN "done" ELSE "completing")
        /\ UNCHANGED <<forms, active, visit, links, signed, reminder, overwrote>>

CompleteSubmission(h) ==
    /\ Doing(h, {"jotform"}, "completing")
    /\ links' = [links EXCEPT ![LinkOf(h)].status = "COMPLETED",
                              ![LinkOf(h)].submission = formHand[h].form]
    /\ DropReminder
    /\ Finish(h, "done")
    /\ UNCHANGED <<forms, active, visit, signed, overwrote>>

-----------------------------------------------------------------------------
\* UPDATE_FORM changes who a form is for and whether it is active.
EditForm(h) ==
    /\ Doing(h, {"edit"}, "start")
    /\ \E changed \in FormSets :
           forms' = [forms EXCEPT ![formHand[h].form] =
                         [changed[formHand[h].form] EXCEPT !.provider = forms[formHand[h].form].provider]]
    /\ active' \in {active \cup {formHand[h].form}, active \ {formHand[h].form}}
    /\ Finish(h, "done")
    /\ UNCHANGED <<visit, links, signed, reminder, overwrote>>

VisitEnds ==
    /\ visit = "open" /\ visit' = "closed"
    /\ UNCHANGED <<forms, active, links, signed, reminder, formHand, overwrote>>

FormStep(h) == \/ IssueAndText(h) \/ CopyLink(h) \/ AssistantLink(h)
               \/ TextLink(h) \/ RecordSent(h) \/ QueueReminder(h) \/ NoteFailure(h)
               \/ OpenForm(h) \/ StoreSignature(h)
               \/ ReadLink(h) \/ DecideLink(h)
               \/ CheckSubmission(h) \/ CompleteSubmission(h) \/ EditForm(h)

FormNext == VisitEnds \/ \E h \in FormHands : FormStep(h)

FormSpec == FormInit /\ [][FormNext]_fvars

-----------------------------------------------------------------------------
FormTypeOK ==
    /\ active \subseteq FormIds /\ visit \in {"open", "closed"}
    /\ reminder \in {"none", "due", "cancelled"} /\ overwrote \subseteq DOMAIN links
    /\ \A a \in DOMAIN links : /\ links[a].form \in FormIds
                               /\ links[a].status \in Final \cup
                                      {"PENDING", "SENT", "LINK_CREATED", "DELIVERY_FAILED"}
    /\ \A h \in FormHands : formHand[h].pc \in
           {"start", "texting", "texted", "failed", "recorded", "signing", "deciding",
            "completing", "done"}

\* However often and from however many devices a hosted form is submitted, one signature
\* is stored, unless a sender's late write reopened the link (native/route.ts:59-69).
SignedOnce == \A a \in DOMAIN links : a \notin overwrote => signed[a] <= 1

\* A hosted form counts as completed or reviewed only with the client's own signature,
\* whatever staff and webhooks do around it (waiver-assignments/[id]/route.ts:22-26).
CompletedMeansSigned ==
    \A a \in DOMAIN links :
        Hosted(a) /\ links[a].status \in {"COMPLETED", "REVIEWED"} => signed[a] >= 1

\* The form chosen for the client suited the visit, and no suitable form was more
\* specific: its service first, then its artist, then its audience, and the priority
\* only among equals (selection.ts:21-29).  Forms edited since are left aside.
Narrow(f) == <<If(forms[f].service # "any", 1), If(forms[f].artist # "any", 1),
               If(forms[f].audience # "ANY", 1), 1000 - forms[f].rank>>
Above(s, t) == \E i \in 1 .. 4 : s[i] > t[i] /\ \A j \in 1 .. i - 1 : s[j] = t[j]
MostSpecificForm ==
    [][\A a \in DOMAIN links' \ DOMAIN links :
           LET chosen == links'[a]
           IN  chosen.auto => /\ Applies(chosen.form)
                              /\ ~\E g \in FormIds : Applies(g) /\ Above(Narrow(g), Narrow(chosen.form))]_fvars

\* What the run checks of forms: the right one, signed once, signed if complete.
FormsSafe == []FormTypeOK /\ []SignedOnce /\ []CompletedMeansSigned /\ MostSpecificForm
=============================================================================
