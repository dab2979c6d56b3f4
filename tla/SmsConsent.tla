----------------------------- MODULE SmsConsent -----------------------------
(***************************************************************************)
(* May the studio text this client?  One client's telephone number, the    *)
(* studio's numbers (one per artist), the keywords the client texts to     *)
(* them, and the studio's public forms.                                    *)
(*                                                                         *)
(* Each inbound webhook reads the client, corrects its status, records the *)
(* message and then revokes or grants consent in steps that other handlers *)
(* interleave with.  A handler that stops before it stored the message is  *)
(* one that has not read yet, for the provider repeats the message; after  *)
(* that it is one that takes no more steps.  The public form is one        *)
(* transaction under the same lock as a grant and a revocation.            *)
(***************************************************************************)
EXTENDS Naturals, Sequences, SequencesExt

CONSTANTS
    Lines,       \* the studio's numbers, one for each artist
    FormOf,      \* the consent form of each number
    Texts,       \* messages of the client: each is handled by one webhook at a time
    FormLimit    \* public submissions accepted in one window

Words == {"STOP", "START", "YES", "TEXT"}

ASSUME ConsentModes ==
    /\ FormOf \in [Lines -> {"HOSTED", "EXTERNAL", "CONFIRMATION", "NONE"}]
    /\ FormLimit \in Nat

VARIABLES
    client,     \* the client's row: smsOptIn and smsConsentStatus
    rows,       \* STOP messages and consent evidence in the order of their timestamps
    asked,      \* PENDING confirmation requests of each number
    inbound,    \* the handler of each message
    stored,     \* messages already in the database
    intake      \* submissions counted in the current window of each form

consentVars == <<client, rows, asked, inbound, stored, intake>>

NoClient == [opt |-> FALSE, status |-> "NONE"]
Clients == [opt : BOOLEAN, status : {"NONE", "INBOUND_ONLY", "OPTED_IN", "OPTED_OUT", "DECLINED"}]
Stop == <<"STOP", "all">>
Evidence(n) == <<"CONSENT", n>>
Fresh ==
    [pc : {"wait"}, line : Lines, word : Words, copy : {NoClient}, in : {FALSE}, out : {FALSE}]

\* Every row has its type, and the client's row exists from the first message on.
ConsentTypeOK ==
    /\ client \in Clients
    /\ \A i \in 1..Len(rows) : rows[i] \in {Stop} \cup {Evidence(n) : n \in Lines}
    /\ asked \in [Lines -> 0..2]
    /\ inbound \in [Texts -> [pc : {"wait", "read", "amend", "store", "revoke", "unask", "grant", "ask",
                                    "reply", "done"},
                              line : Lines, word : Words, copy : Clients, in : BOOLEAN, out : BOOLEAN]]
    /\ stored \subseteq Texts /\ intake \in [Lines -> 0..FormLimit + 1]
    /\ stored # {} => client.status # "NONE"

ConsentInit ==
    /\ client = NoClient /\ rows = <<>> /\ asked = [n \in Lines |-> 0]
    /\ inbound \in [Texts -> Fresh]
    /\ stored = {} /\ intake = [n \in Lines |-> 0]

-----------------------------------------------------------------------------
(* Reads.                                                                   *)

Ready(n) == FormOf[n] # "NONE"

\* Faulty variant: any evidence counts, however old.
Unrevoked(i) == TRUE

\* No STOP message of the client is as recent as the evidence.
After(i) == \A j \in i..Len(rows) : rows[j] # Stop

\* hasScopedSmsConsent
Consented(n) ==
    /\ client.opt /\ client.status = "OPTED_IN"
    /\ \E i \in 1..Len(rows) : rows[i] = Evidence(n) /\ After(i)

\* hasStudioSmsOptOutHistory
EverStopped == \E i \in 1..Len(rows) : rows[i] = Stop

\* inboundConsentDecision
Decision(h, pending) ==
    LET word == inbound[h].word
        n    == inbound[h].line
    IN  CASE word = "STOP" -> "STOP"
          [] word = "START" -> IF inbound[h].in \/ Ready(n) THEN "START" ELSE "REJECT_START"
          [] word = "YES" /\ ~inbound[h].in ->
                IF pending /\ ~inbound[h].out THEN "CONFIRM_YES" ELSE "REJECT_YES"
          [] OTHER ->
                IF inbound[h].out THEN "SUPPRESS"
                ELSE IF FormOf[n] = "CONFIRMATION" /\ ~inbound[h].in
                     THEN IF pending THEN "WAIT_FOR_YES" ELSE "REQUEST_YES"
                     ELSE "CONTEXTUAL_REPLY"

\* A pending request is valid until it expires.
ValidPending(n) == {FALSE, FormOf[n] = "CONFIRMATION" /\ asked[n] > 0}

-----------------------------------------------------------------------------
(* The inbound webhook.                                                     *)

Goes(h, pc) == inbound' = [inbound EXCEPT ![h].pc = pc]

ReadText(h) ==
    /\ inbound[h].pc = "wait"
    /\ client' = IF client.status = "NONE" THEN [NoClient EXCEPT !.status = "INBOUND_ONLY"] ELSE client
    /\ inbound' = [inbound EXCEPT ![h].pc = "read", ![h].copy = client']
    /\ UNCHANGED <<rows, asked, stored, intake>>

JudgeText(h) ==
    /\ inbound[h].pc = "read"
    /\ LET in == Consented(inbound[h].line)
       IN  inbound' = [inbound EXCEPT ![h].pc = "amend", ![h].in = in,
                         ![h].out = inbound[h].copy.status = "OPTED_OUT" \/ (~in /\ EverStopped)]
    /\ UNCHANGED <<client, rows, asked, stored, intake>>

\* A client who never agreed is marked as having only texted: decided on the copy,
\* written without a condition.
AmendClient(h) ==
    /\ inbound[h].pc = "amend"
    /\ client' = IF ~inbound[h].copy.opt /\ inbound[h].copy.status = "DECLINED"
                 THEN [client EXCEPT !.status = "INBOUND_ONLY"] ELSE client
    /\ Goes(h, "store")
    /\ UNCHANGED <<rows, asked, stored, intake>>

\* The message is stored; what follows depends on the decision.
StoreText(h) ==
    /\ inbound[h].pc = "store" /\ h \notin stored
    /\ stored' = stored \cup {h}
    /\ rows' = IF inbound[h].word = "STOP" THEN Append(rows, Stop) ELSE rows
    /\ \E pending \in ValidPending(inbound[h].line) :
         LET d == Decision(h, pending)
         IN  /\ Goes(h, CASE d = "STOP" -> "revoke"
                          [] d = "START" -> "unask"
                          [] d = "CONFIRM_YES" -> "grant"
                          [] d = "REQUEST_YES" -> "ask"
                          [] d = "CONTEXTUAL_REPLY" -> "reply"
                          [] OTHER -> "done")
             /\ asked' = IF d = "CONFIRM_YES" THEN [asked EXCEPT ![inbound[h].line] = @ - 1] ELSE asked
    /\ UNCHANGED <<client, intake>>

\* revokeStudioSmsConsent
Revoke(h) ==
    /\ inbound[h].pc = "revoke"
    /\ client' = [opt |-> FALSE, status |-> "OPTED_OUT"]
    /\ Goes(h, "unask")
    /\ UNCHANGED <<rows, asked, stored, intake>>

\* The latest pending request is cancelled.
Unask(h) ==
    /\ inbound[h].pc = "unask"
    /\ asked' = [asked EXCEPT ![inbound[h].line] = IF @ > 0 THEN @ - 1 ELSE 0]
    /\ Goes(h, IF inbound[h].word = "START" /\ Ready(inbound[h].line) THEN "grant" ELSE "done")
    /\ UNCHANGED <<client, rows, stored, intake>>

\* grantVerifiedInboundConsent
Grant(h) ==
    /\ inbound[h].pc = "grant"
    /\ client' = [opt |-> TRUE, status |-> "OPTED_IN"]
    /\ rows' = Append(rows, Evidence(inbound[h].line))
    /\ Goes(h, "done")
    /\ UNCHANGED <<asked, stored, intake>>

\* The request for a YES is inserted and sent; a failed send marks it FAILED.
AskForYes(h) ==
    /\ inbound[h].pc = "ask" /\ asked[inbound[h].line] < 2
    /\ asked' \in {asked, [asked EXCEPT ![inbound[h].line] = @ + 1]}
    /\ Goes(h, "done")
    /\ UNCHANGED <<client, rows, stored, intake>>

\* The reply is generated, and sent when the client may still be answered.
ReplyToText(h) ==
    /\ inbound[h].pc = "reply"
    /\ Goes(h, "done")
    /\ UNCHANGED <<client, rows, asked, stored, intake>>

-----------------------------------------------------------------------------
(* The public forms.                                                        *)

\* resolvePublicIntakeClient: only a client that is new to the studio is taken at its word.
IntakeClient(consents) ==
    IF client.status # "NONE" THEN client
    ELSE [opt |-> consents, status |-> IF consents THEN "OPTED_IN" ELSE "DECLINED"]

\* One counted submission, in one transaction; evidence of a known client says no.
SubmitForm(n) ==
    /\ FormOf[n] \in {"HOSTED", "EXTERNAL"} /\ intake[n] <= FormLimit
    /\ intake' = [intake EXCEPT ![n] = @ + 1]
    /\ \E consents \in BOOLEAN :
         IF intake'[n] > FormLimit THEN UNCHANGED <<client, rows>>
         ELSE /\ client' = IntakeClient(consents)
              /\ rows' = IF consents /\ (client.status = "NONE" \/ client' # client)
                         THEN Append(rows, Evidence(n)) ELSE rows
    /\ UNCHANGED <<asked, inbound, stored>>

ConsentStep(h) ==
    \/ ReadText(h) \/ JudgeText(h) \/ AmendClient(h) \/ StoreText(h) \/ Revoke(h) \/ Unask(h)
    \/ Grant(h) \/ AskForYes(h) \/ ReplyToText(h)

ConsentNext == (\E h \in Texts : ConsentStep(h)) \/ (\E n \in Lines : SubmitForm(n))

ConsentSpec == ConsentInit /\ [][ConsentNext]_consentVars

-----------------------------------------------------------------------------
(* Properties.                                                              *)

\* No artist's earlier consent comes back: after the client's STOP is stored, a number
\* may text the client only once the client has texted START or YES to that same
\* number; neither a START for another artist, nor a public form, nor a handler that
\* stopped before it revoked the consent is enough.
NoResurrection ==
    \A n \in Lines : EverStopped /\ Consented(n) =>
        \E i \in 1..Len(rows) : /\ rows[i] = Evidence(n)
                                /\ \A j \in i..Len(rows) : rows[j] # Stop
                                /\ \E h \in stored : inbound[h].line = n /\ inbound[h].word \in {"START", "YES"}

\* What the run checks of consent: its types, and that a STOP is not undone.
ConsentSafe == ConsentTypeOK /\ NoResurrection
=============================================================================
