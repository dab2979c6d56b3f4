------------------------- MODULE ConversationControl -------------------------
(***************************************************************************)
(* Who is answering a conversation: the receptionist or a person.          *)
(*                                                                         *)
(* One row of the table "conversations" is shared by every party that may  *)
(* answer a client: staff through the inbox routes, the webhook that       *)
(* records client messages, and the workers that send generated replies.   *)
(* A staff request reads the row, computes the whole next control state    *)
(* from what it read, and writes it back in a later statement, so two      *)
(* requests, or a request and a worker, interleave between the two.        *)
(*                                                                         *)
(* The inbound version counts what makes an unsent reply obsolete: client  *)
(* messages, manual replies and changes of the reply mode.                 *)
(***************************************************************************)
EXTENDS Integers

CONSTANTS
    Staff,        \* staff sessions that may have one request in flight each
    MaxVersion,   \* bound: highest inbound version reached
    MaxRequests   \* bound: number of staff requests ever started

ASSUME ControlBounds == MaxVersion \in Nat /\ MaxRequests \in Nat

InboxActions == {"TAKE_OVER", "RETURN_TO_AI", "MARK_READ", "CLOSE", "REOPEN"}
Statuses     == {"OPEN", "CLOSED", "AWAITING_QUOTE", "ESCALATED"}
Modes        == {"AI", "HUMAN", "CLOSED"}
Versions     == 1 .. MaxVersion

(***************************************************************************)
(* A handler is the webhook request that recorded the message of a         *)
(* version: it still has to decide, to queue, or to carry out a keyword.   *)
(***************************************************************************)
HandlerStates == {"none", "decide", "enqueue", "queued", "stopCancel",
                  "stopRevoke", "startGrant", "done", "lost"}

VARIABLES
    conv,        \* the conversation row: [version, aiEnabled, status, draft]
    closeEvent,  \* the last CLOSE event: [mode before it, version at it]
    handler,     \* progress of the request that recorded each version
    req,         \* the staff requests: [pc, action, aiEnabled, status]
    started      \* how many staff requests were started

controlVars == <<conv, closeEvent, handler, req, started>>

Idle == [pc |-> "idle", action |-> "MARK_READ", aiEnabled |-> FALSE, status |-> "OPEN"]

ControlTypeOK ==
    /\ conv \in [version : Nat, aiEnabled : BOOLEAN, status : Statuses, draft : BOOLEAN]
    /\ closeEvent \in [mode : Modes \cup {"NONE"}, version : Nat]
    /\ handler \in [Versions -> HandlerStates]
    /\ req \in [Staff -> [pc : {"idle", "write", "cancel", "event"},
                          action : InboxActions \cup {"REPLY"},
                          aiEnabled : BOOLEAN, status : Statuses]]
    /\ started \in Nat

(***************************************************************************)
(* The control state, as a function of the two columns that hold it.       *)
(***************************************************************************)
ShouldRunAi(c) == c.aiEnabled /\ c.status \notin {"CLOSED", "AWAITING_QUOTE"}

ConversationMode(c) ==
    IF c.status = "CLOSED" THEN "CLOSED" ELSE IF c.aiEnabled THEN "AI" ELSE "HUMAN"

\* What an inbox action makes of the control state it read.
ApplyInboxAction(c, action) ==
    CASE action = "TAKE_OVER" ->
           [aiEnabled |-> FALSE, status |-> IF c.status = "CLOSED" THEN "OPEN" ELSE c.status]
      [] action = "RETURN_TO_AI" -> [aiEnabled |-> TRUE, status |-> "OPEN"]
      [] action = "MARK_READ"    -> [aiEnabled |-> c.aiEnabled, status |-> c.status]
      [] action = "CLOSE"        -> [aiEnabled |-> FALSE, status |-> "CLOSED"]
      [] action = "REOPEN"       -> [aiEnabled |-> c.aiEnabled, status |-> "OPEN"]

ControlInit ==
    /\ conv = [version |-> 0, aiEnabled |-> TRUE, status |-> "OPEN", draft |-> FALSE]
    /\ closeEvent = [mode |-> "NONE", version |-> 0]
    /\ handler = [v \in Versions |-> "none"]
    /\ req = [s \in Staff |-> Idle]
    /\ started = 0

-----------------------------------------------------------------------------
(* The webhook: a recorded message bumps the version.                       *)

RecordInbound(next) ==
    /\ conv.version < MaxVersion
    /\ conv' = [conv EXCEPT !.version = @ + 1]
    /\ handler' = [handler EXCEPT ![conv.version + 1] = next]
    /\ UNCHANGED <<closeEvent, req, started>>

\* The conversation was closed after the message: it stays closed.
ClosedAfter(v) == closeEvent.mode # "NONE" /\ v <= closeEvent.version

\* Faulty variants: the switch always comes back on; the newest message before
\* the close reopens.
ReopenedAlwaysOn(v) ==
    IF conv.status # "CLOSED" \/ ClosedAfter(v) THEN conv
    ELSE [conv EXCEPT !.status = "OPEN", !.aiEnabled = TRUE]

ReopenedByLastBefore(v) ==
    IF conv.status # "CLOSED" \/ (ClosedAfter(v) /\ v < closeEvent.version) THEN conv
    ELSE [conv EXCEPT !.status = "OPEN", !.aiEnabled = (closeEvent.mode = "AI")]

(***************************************************************************)
(* A client message reopens a closed conversation, unless the conversation *)
(* was closed after the message, and restores the AI switch to what it was *)
(* when the conversation was closed.  The request then goes on to queue a  *)
(* reply if the receptionist may run.                                      *)
(***************************************************************************)
Reopened(v) ==
    IF conv.status # "CLOSED" \/ ClosedAfter(v) THEN conv
    ELSE [conv EXCEPT !.status = "OPEN", !.aiEnabled = (closeEvent.mode = "AI")]

DecideInbound(v) ==
    /\ handler[v] = "decide"
    /\ conv' = Reopened(v)
    /\ handler' = [handler EXCEPT ![v] = IF ShouldRunAi(Reopened(v)) THEN "enqueue" ELSE "done"]
    /\ UNCHANGED <<closeEvent, req, started>>

-----------------------------------------------------------------------------
(* Staff requests: read, write, cancel undelivered replies, log the event.  *)

\* The route authorises the request and reads the row; a closed conversation
\* accepts no manual reply.
StaffRead(s, action) ==
    /\ req[s].pc = "idle" /\ started < MaxRequests
    /\ action = "REPLY" => conv.status # "CLOSED" /\ conv.version < MaxVersion
    /\ req' = [req EXCEPT ![s] = [pc |-> "write", action |-> action,
                                  aiEnabled |-> conv.aiEnabled, status |-> conv.status]]
    /\ started' = started + 1
    /\ UNCHANGED <<conv, closeEvent, handler>>

\* The row is overwritten with what the action makes of the state it read.
StaffWrite(s) ==
    /\ req[s].pc = "write" /\ req[s].action # "REPLY"
    /\ LET next == ApplyInboxAction(req[s], req[s].action)
       IN  /\ conv' = [conv EXCEPT !.aiEnabled = next.aiEnabled, !.status = next.status]
           /\ req' = [req EXCEPT ![s].pc =
                        IF ~next.aiEnabled \/ next.status = "CLOSED" THEN "cancel" ELSE "event"]
    /\ UNCHANGED <<closeEvent, handler, started>>

\* A manual reply was handed to the provider: it makes pending replies obsolete.
StaffReplied(s) ==
    /\ req[s].pc = "write" /\ req[s].action = "REPLY"
    /\ conv.version < MaxVersion
    /\ conv' = [conv EXCEPT !.version = @ + 1]
    /\ req' = [req EXCEPT ![s].pc = "cancel"]
    /\ UNCHANGED <<closeEvent, handler, started>>

\* The statement that cancels the undelivered replies; its effect on the queue
\* belongs to the module that owns the queue.
StaffCancel(s) ==
    /\ req[s].pc = "cancel"
    /\ req' = [req EXCEPT ![s].pc = "event"]
    /\ UNCHANGED <<conv, closeEvent, handler, started>>

\* The event row is inserted last; only CLOSE events of an open conversation
\* are looked up again.
StaffEvent(s) ==
    /\ req[s].pc = "event"
    /\ req' = [req EXCEPT ![s] = Idle]
    /\ closeEvent' = IF req[s].action = "CLOSE" /\ req[s].status # "CLOSED"
                     THEN [mode |-> ConversationMode(req[s]), version |-> conv.version]
                     ELSE closeEvent
    /\ UNCHANGED <<conv, handler, started>>

\* One transaction changes the reply mode and makes pending replies obsolete.
SetReplyMode(draft) ==
    /\ conv.version < MaxVersion /\ started < MaxRequests
    /\ conv' = [conv EXCEPT !.draft = draft, !.version = @ + 1]
    /\ started' = started + 1
    /\ UNCHANGED <<closeEvent, handler, req>>

-----------------------------------------------------------------------------
(* What the workers do to the row.                                          *)

\* The agent's escalation tool.
Escalated(c) == [c EXCEPT !.status = "ESCALATED", !.aiEnabled = FALSE]

\* After an acknowledgment that promises a quote was accepted by the provider.
HandedOff(c) ==
    IF c.aiEnabled /\ c.status = "OPEN"
    THEN [c EXCEPT !.status = "AWAITING_QUOTE", !.aiEnabled = FALSE]
    ELSE c

Escalate ==
    /\ ShouldRunAi(conv)
    /\ conv' = Escalated(conv)
    /\ UNCHANGED <<closeEvent, handler, req, started>>

FinalizeQuoteHandoff ==
    /\ HandedOff(conv) # conv
    /\ conv' = HandedOff(conv)
    /\ UNCHANGED <<closeEvent, handler, req, started>>

-----------------------------------------------------------------------------

StaffNext ==
    \E s \in Staff :
        \/ \E action \in InboxActions \cup {"REPLY"} : StaffRead(s, action)
        \/ StaffWrite(s) \/ StaffReplied(s) \/ StaffCancel(s) \/ StaffEvent(s)

ControlNext ==
    \/ RecordInbound("decide")
    \/ \E v \in Versions : DecideInbound(v)
    \/ StaffNext
    \/ \E draft \in BOOLEAN : SetReplyMode(draft)
    \/ Escalate
    \/ FinalizeQuoteHandoff

ControlSpec == ControlInit /\ [][ControlNext]_controlVars

\* A staff request that was read is carried through unless its process dies.
ControlFairSpec == ControlSpec /\ WF_controlVars(StaffNext)

-----------------------------------------------------------------------------
(* Properties.                                                              *)

\* A closed conversation never has its AI switch on, whatever requests, client
\* messages and workers overlap: every writer sets the two columns as a pair.
ClosedMeansPaused == conv.status = "CLOSED" => ~conv.aiEnabled

Resumes == ~conv.aiEnabled /\ conv'.aiEnabled

Finishes(s, action) ==
    req[s].pc = "write" /\ req'[s].pc # "write" /\ req[s].action = action

\* The receptionist is switched on again only by Return to AI, by a client
\* message that restores the mode a close had ended, or by a request that read
\* the switch while it was still on (a stale write).  In particular Reopen and
\* Mark read, when they read the row after the pause, keep it.
ResumeNeedsWarrant ==
    [][Resumes =>
         \/ \E s \in Staff : Finishes(s, "RETURN_TO_AI")
         \/ \E s \in Staff : req[s].pc = "write" /\ req[s].aiEnabled /\ req'[s].pc # "write"
         \/ \E v \in Versions : handler[v] = "decide" /\ handler'[v] # "decide"
                                /\ closeEvent.mode = "AI" /\ closeEvent.version < v]_controlVars

\* A conversation that staff closed after a client message is never reopened by
\* the late processing of that message.
CloseOutlivesOlderMessages ==
    [][\A v \in Versions :
         /\ handler[v] = "decide" /\ handler'[v] # "decide"
         /\ conv.status = "CLOSED" /\ ClosedAfter(v)
         => conv'.status = "CLOSED"]_controlVars

\* "strict AI suppression while a conversation is human-controlled": once a
\* person has taken over, only Return to AI or a client message that reopens a
\* closed conversation gives the conversation back to the receptionist.
TakeoverHolds ==
    [][Resumes =>
         \/ \E s \in Staff : Finishes(s, "RETURN_TO_AI")
         \/ \E v \in Versions : handler[v] = "decide" /\ handler'[v] # "decide"]_controlVars
=============================================================================
