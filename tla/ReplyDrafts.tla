----------------------------- MODULE ReplyDrafts -----------------------------
(***************************************************************************)
(* Draft replies of one conversation.  The receptionist or a member of the *)
(* studio prepares a reply that nobody has sent yet; the studio edits,     *)
(* discards or sends it.  A draft answers one client message under one     *)
(* inbound version: both change under it while it is composed, approved    *)
(* and delivered.                                                          *)
(*                                                                         *)
(* Requests run concurrently, each taking one step at a time.  A process   *)
(* that stops is one that takes no more steps: a draft it was delivering   *)
(* stays SENDING.                                                          *)
(***************************************************************************)
EXTENDS Naturals, Sequences, FiniteSets, SequencesExt

CONSTANTS
    Desks,        \* requests of the studio and runs of the receptionist
    DeskKinds,    \* what the requests of a scenario are for
    LastMessage,  \* bound on the messages of the thread
    LastDraft,    \* bound on the drafts
    LastSwitch    \* bound on changes of the reply mode or of the status

ASSUME DraftBounds == LastMessage \in Nat /\ LastDraft \in Nat /\ LastSwitch \in Nat

\* The requests in flight are finitely many; "none" is one that never comes.
ASSUME DeskRequests ==
    /\ IsFiniteSet(Desks)
    /\ DeskKinds \subseteq [Desks -> {"job", "prepare", "edit", "discard", "send", "write", "none"}]

VARIABLES
    talk,     \* the conversation's row; owed: messages stored but not yet counted
    thread,   \* who wrote each message
    drafts,   \* AI_DRAFT_CREATED events; wire counts deliveries of the draft
    desk      \* the requests

draftVars == <<talk, thread, drafts, desk>>

DraftStatus == {"PENDING", "SENDING", "SENT", "DISCARDED", "REVIEW_REQUIRED"}
NewDraft(d) == [version |-> desk[d].version, source |-> desk[d].source, status |-> "PENDING",
                job |-> desk[d].kind = "job", wire |-> 0]

\* Every row has its type, and only drafts that were approved have been on the wire.
DraftTypeOK ==
    /\ talk \in [version : 0..(LastMessage + LastSwitch), mode : {"DRAFT", "ASSISTED"},
                 closed : BOOLEAN, owed : 0..LastMessage, switches : 0..LastSwitch]
    /\ thread \in Seq({"user", "assistant"}) /\ Len(thread) <= LastMessage
    /\ Len(drafts) <= LastDraft
    /\ \A i \in 1..Len(drafts) :
        /\ drafts[i].status \in DraftStatus
        /\ drafts[i].source \in 1..Len(thread) /\ thread[drafts[i].source] = "user"
        /\ drafts[i].status = "PENDING" => drafts[i].wire = 0
    /\ \A d \in Desks : desk[d].draft \in 0..Len(drafts)

DraftInit ==
    /\ talk = [version |-> 0, mode |-> "DRAFT", closed |-> FALSE, owed |-> 0, switches |-> 0]
    /\ thread = <<>> /\ drafts = <<>>
    /\ \E kinds \in DeskKinds :
        desk = [d \in Desks |-> [kind |-> kinds[d], pc |-> "idle", draft |-> 0, version |-> 0, source |-> 0]]

Goto(d, pc) == desk' = [desk EXCEPT ![d].pc = pc]

-----------------------------------------------------------------------------
(* The thread.                                                              *)

\* Faulty variant: the approval does not lock the conversation.
NeverLocked == TRUE

\* The row lock of an approval keeps out new messages, counts, drafts and modes.
RowFree == \A d \in Desks : desk[d].pc # "claim"

LastIsClients == thread # <<>> /\ Last(thread) = "user"
Unanswered(source) == LastIsClients /\ source = Len(thread)

\* i is the client's latest message; 0 when the client has written nothing.
LatestOfClient(i) ==
    /\ i # 0 => thread[i] = "user"
    /\ \A j \in (i + 1)..Len(thread) : thread[j] # "user"

ClientSays ==
    /\ RowFree /\ Len(thread) < LastMessage
    /\ thread' = Append(thread, "user") /\ talk' = [talk EXCEPT !.owed = @ + 1]
    /\ UNCHANGED <<drafts, desk>>

\* recordInbound's second write; a message reopens a closed conversation.
ClientCounted ==
    /\ RowFree /\ talk.owed > 0
    /\ talk' = [talk EXCEPT !.owed = @ - 1, !.version = @ + 1, !.closed = FALSE]
    /\ UNCHANGED <<thread, drafts, desk>>

\* SET_REPLY_MODE, or supervision of the artist switched: every draft is out of date.
SwitchMode ==
    /\ RowFree /\ talk.switches < LastSwitch
    /\ talk' = [talk EXCEPT !.mode = IF @ = "DRAFT" THEN "ASSISTED" ELSE "DRAFT",
                            !.version = @ + 1, !.switches = @ + 1]
    /\ UNCHANGED <<thread, drafts, desk>>

CloseTalk ==
    /\ RowFree /\ talk.switches < LastSwitch
    /\ talk' = [talk EXCEPT !.closed = TRUE, !.switches = @ + 1]
    /\ UNCHANGED <<thread, drafts, desk>>

-----------------------------------------------------------------------------
(* Preparing and editing.                                                   *)

\* reviewableDraft: the newest event, still PENDING, of the current version.
Reviewable(i, version) ==
    /\ i # 0 /\ i = Len(drafts) /\ talk.mode = "DRAFT"
    /\ drafts[i].status = "PENDING" /\ drafts[i].version = version

\* The mode and the version are read; the reply is composed before the source is.
Compose(d) ==
    /\ desk[d].pc = "idle" /\ desk[d].kind \in {"job", "prepare"}
    /\ talk.mode = "DRAFT" /\ ~talk.closed /\ LastIsClients
    /\ desk' = [desk EXCEPT ![d].pc = "source", ![d].version = talk.version]
    /\ UNCHANGED <<talk, thread, drafts>>

\* deliverReply reads the client's latest message.
ReadSource(d) ==
    /\ desk[d].pc = "source"
    /\ \E i \in 0..Len(thread) :
        LatestOfClient(i) /\ desk' = [desk EXCEPT ![d].pc = "save", ![d].source = i]
    /\ UNCHANGED <<talk, thread, drafts>>

\* The studio saves its own text for the draft it has on the screen.
EditDraft(d) ==
    /\ desk[d].pc = "idle" /\ desk[d].kind = "edit"
    /\ Reviewable(Len(drafts), talk.version) /\ LastIsClients
    /\ desk' = [desk EXCEPT ![d].pc = "save", ![d].version = talk.version, ![d].source = Len(thread)]
    /\ UNCHANGED <<talk, thread, drafts>>

\* A draft of this version is being delivered, or nobody knows whether it was.
DeliveryOpen(version) ==
    /\ drafts # <<>> /\ Last(drafts).version = version
    /\ Last(drafts).status \in {"SENDING", "REVIEW_REQUIRED"}

\* A run of the same job finds the draft its earlier run saved.
SavedBefore(d) ==
    /\ desk[d].kind = "job" /\ drafts # <<>>
    /\ Last(drafts).job /\ Last(drafts).version = desk[d].version

\* saveReplyDraft, under the lock of the conversation.
SaveDraft(d) ==
    /\ desk[d].pc = "save" /\ RowFree /\ Goto(d, "done")
    /\ IF /\ talk.mode = "DRAFT" /\ ~talk.closed /\ talk.version = desk[d].version
          /\ Unanswered(desk[d].source) /\ ~DeliveryOpen(desk[d].version) /\ ~SavedBefore(d)
       THEN Len(drafts) < LastDraft /\ drafts' = Append(drafts, NewDraft(d))
       ELSE UNCHANGED drafts
    /\ UNCHANGED <<talk, thread>>

\* The lease of a job expired before the job was completed: it runs again.
RunAgain(d) ==
    /\ desk[d].pc = "done" /\ desk[d].kind = "job" /\ drafts # <<>> /\ Last(drafts).job
    /\ Goto(d, "idle") /\ UNCHANGED <<talk, thread, drafts>>

\* One UPDATE, outside the conversation's lock.
DiscardDraft(d) ==
    /\ desk[d].pc = "idle" /\ desk[d].kind = "discard" /\ Goto(d, "done")
    /\ \E i \in 1..Len(drafts) :
        drafts[i].status = "PENDING" /\ drafts' = [drafts EXCEPT ![i].status = "DISCARDED"]
    /\ UNCHANGED <<talk, thread>>

-----------------------------------------------------------------------------
(* Sending.                                                                 *)

\* A reply is sent from a draft on the screen, or without one.
PressSend(d) ==
    /\ desk[d].pc = "idle" /\ ~talk.closed
    /\ \/ /\ desk[d].kind = "send"
          /\ \E i \in 1..Len(drafts) : desk' = [desk EXCEPT ![d].pc = "approve", ![d].draft = i]
       \/ desk[d].kind = "write" /\ Goto(d, "check")
    /\ UNCHANGED <<talk, thread, drafts>>

\* claimReplyDraft: the reads, under the lock ...
ReadClaim(d) ==
    /\ desk[d].pc = "approve" /\ RowFree
    /\ LET i == desk[d].draft IN
        IF /\ ~talk.closed /\ Reviewable(i, talk.version) /\ Unanswered(drafts[i].source)
        THEN Goto(d, "claim") ELSE Goto(d, "done")
    /\ UNCHANGED <<talk, thread, drafts>>

\* ... and the write, whatever happened to the draft's own row meanwhile.
WriteClaim(d) ==
    /\ desk[d].pc = "claim" /\ Goto(d, "check")
    /\ drafts' = [drafts EXCEPT ![desk[d].draft].status = "SENDING"]
    /\ UNCHANGED <<talk, thread>>

\* finishReplyDraft
Finished(d, status) ==
    IF desk[d].draft # 0 /\ drafts[desk[d].draft].status = "SENDING"
    THEN [drafts EXCEPT ![desk[d].draft].status = status] ELSE drafts

\* Consent, number, connection or reply window: refused before anything was sent.
RefuseReply(d) ==
    /\ desk[d].pc = "check" /\ Goto(d, "done")
    /\ drafts' = Finished(d, "PENDING") /\ UNCHANGED <<talk, thread>>

\* The provider takes the reply; its answer may be lost.
CallProvider(d) ==
    /\ desk[d].pc = "check"
    /\ LET i == desk[d].draft
           wired == IF i = 0 THEN drafts ELSE [drafts EXCEPT ![i].wire = @ + 1] IN
        \/ Goto(d, "record") /\ drafts' = wired
        \/ Goto(d, "failed") /\ drafts' = wired
        \/ Goto(d, "failed") /\ UNCHANGED drafts
    /\ UNCHANGED <<talk, thread>>

RecordReply(d) ==
    /\ desk[d].pc = "record" /\ RowFree /\ Len(thread) < LastMessage
    /\ thread' = Append(thread, "assistant") /\ Goto(d, "count")
    /\ UNCHANGED <<talk, drafts>>

CountReply(d) ==
    /\ desk[d].pc = "count" /\ RowFree
    /\ talk' = [talk EXCEPT !.version = @ + 1] /\ Goto(d, "finish")
    /\ UNCHANGED <<thread, drafts>>

FinishReply(d) ==
    /\ desk[d].pc = "finish" /\ Goto(d, "done")
    /\ drafts' = Finished(d, "SENT") /\ UNCHANGED <<talk, thread>>

\* The finally block after the provider failed, or a later write did.
LeaveForReview(d) ==
    /\ desk[d].pc \in {"failed", "record", "count", "finish"} /\ Goto(d, "done")
    /\ drafts' = Finished(d, "REVIEW_REQUIRED") /\ UNCHANGED <<talk, thread>>

DraftStep(d) ==
    \/ Compose(d) \/ ReadSource(d) \/ EditDraft(d) \/ SaveDraft(d) \/ RunAgain(d) \/ DiscardDraft(d)
    \/ PressSend(d) \/ ReadClaim(d) \/ WriteClaim(d) \/ RefuseReply(d) \/ CallProvider(d)
    \/ RecordReply(d) \/ CountReply(d) \/ FinishReply(d) \/ LeaveForReview(d)

DraftNext == ClientSays \/ ClientCounted \/ SwitchMode \/ CloseTalk \/ \E d \in Desks : DraftStep(d)

DraftSpec == DraftInit /\ [][DraftNext]_draftVars

-----------------------------------------------------------------------------
(* Two approvals of one draft, a delivery nobody heard the answer of, or a *)
(* second draft prepared while the first is on its way: under one inbound  *)
(* version the client gets the studio's draft once at most.                *)
DraftSentOnce ==
    \A i, j \in 1..Len(drafts) :
        /\ drafts[i].wire <= 1
        /\ drafts[i].wire > 0 /\ drafts[j].wire > 0 /\ drafts[i].version = drafts[j].version => i = j

(* Whatever the thread and the mode did while the studio was reading, a    *)
(* draft is approved only as the answer to the last message, under the     *)
(* mode and the version it was prepared for.                               *)
ApprovedIsCurrent ==
    [][\A d \in Desks : desk[d].pc = "claim" /\ desk'[d].pc = "check" =>
        /\ talk.mode = "DRAFT" /\ ~talk.closed
        /\ drafts[desk[d].draft].version = talk.version /\ Unanswered(drafts[desk[d].draft].source)]_draftVars

\* What the run checks of drafts: sent once, and only as the current answer.
DraftsSafe == []DraftTypeOK /\ []DraftSentOnce /\ ApprovedIsCurrent
=============================================================================
