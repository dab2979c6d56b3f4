-------------------------- MODULE AiResponseProofs --------------------------
(***************************************************************************)
(* Proofs about the automatic reply, for any number of workers, staff      *)
(* sessions, messages and attempts.  What they need of the conversation's  *)
(* control state comes first, with the theorems about ConversationControl. *)
(***************************************************************************)
EXTENDS AiResponse, FiniteSetTheorems, TLAPS

-----------------------------------------------------------------------------
(* The control state of a conversation.                                     *)

\* What staff requests carry between their read and their write is as sound as
\* the row they read it from.
ReadsSound == \A s \in Staff : req[s].status = "CLOSED" => ~req[s].aiEnabled

ControlInv == ControlTypeOK /\ ClosedMeansPaused /\ ReadsSound

\* An inbox action preserves the soundness of the pair of columns.
LEMMA ActionSound ==
    ASSUME NEW c, NEW action \in InboxActions,
           c.aiEnabled \in BOOLEAN, c.status \in Statuses,
           c.status = "CLOSED" => ~c.aiEnabled
    PROVE  /\ ApplyInboxAction(c, action).aiEnabled \in BOOLEAN
           /\ ApplyInboxAction(c, action).status \in Statuses
           /\ ApplyInboxAction(c, action).status = "CLOSED"
                => ~ApplyInboxAction(c, action).aiEnabled
BY DEF ApplyInboxAction, InboxActions, Statuses

\* The initial row is open and nothing is in flight.
LEMMA ControlInitInv == ControlInit => ControlInv
BY DEF ControlInit, ControlInv, ControlTypeOK, ClosedMeansPaused, ReadsSound, Idle,
       Statuses, Modes, HandlerStates, InboxActions, Versions

\* Recording a client message preserves the invariant, whatever it leads to.
LEMMA RecordKeeps ==
    ASSUME ControlInv, NEW next \in HandlerStates, RecordInbound(next) PROVE ControlInv'
<1> USE DEF ControlInv, ControlTypeOK, ClosedMeansPaused, ReadsSound
<1>1. conv.version + 1 \in Nat
  OBVIOUS
<1>2. /\ conv' \in [version : Nat, aiEnabled : BOOLEAN, status : Statuses, draft : BOOLEAN]
      /\ conv'.aiEnabled = conv.aiEnabled /\ conv'.status = conv.status
  BY <1>1 DEF RecordInbound
<1>3. handler' \in [Versions -> HandlerStates]
  BY DEF RecordInbound
<1> QED BY <1>2, <1>3 DEF RecordInbound

\* Deciding about a recorded message preserves it, reopening included.
LEMMA DecideKeeps ==
    ASSUME ControlInv, NEW v \in Versions, DecideInbound(v) PROVE ControlInv'
<1> USE DEF ControlInv, ControlTypeOK, ClosedMeansPaused, ReadsSound
<1>1. /\ Reopened(v) \in [version : Nat, aiEnabled : BOOLEAN, status : Statuses, draft : BOOLEAN]
      /\ Reopened(v).status = "CLOSED" => ~Reopened(v).aiEnabled
  BY DEF Reopened, Statuses
<1> QED BY <1>1 DEF DecideInbound, HandlerStates

\* The progress of a webhook request does not touch the row.
LEMMA HandlerKeeps ==
    ASSUME ControlInv, NEW v \in Versions, NEW to \in HandlerStates,
           handler' = [handler EXCEPT ![v] = to], UNCHANGED <<conv, closeEvent, req, started>>
    PROVE  ControlInv'
BY DEF ControlInv, ControlTypeOK, ClosedMeansPaused, ReadsSound

StaffSteps(s) ==
    \/ \E action \in InboxActions \cup {"REPLY"} : StaffRead(s, action)
    \/ StaffWrite(s) \/ StaffReplied(s) \/ StaffCancel(s) \/ StaffEvent(s)

\* Every statement of a staff request preserves it, stale writes included.
LEMMA StaffKeeps ==
    ASSUME ControlInv, NEW s \in Staff, StaffSteps(s) PROVE ControlInv'
<1> USE DEF ControlInv, ControlTypeOK, ClosedMeansPaused, ReadsSound
<1>1. ASSUME NEW action \in InboxActions \cup {"REPLY"}, StaffRead(s, action) PROVE ControlInv'
  BY <1>1 DEF StaffRead
<1>2. CASE StaffWrite(s)
  <2> DEFINE next == ApplyInboxAction(req[s], req[s].action)
  <2>1. req[s].action \in InboxActions
    BY <1>2 DEF StaffWrite
  <2>2. /\ next.aiEnabled \in BOOLEAN /\ next.status \in Statuses
        /\ next.status = "CLOSED" => ~next.aiEnabled
    BY <2>1, ActionSound
  <2> HIDE DEF next
  <2> QED BY <1>2, <2>2, ZenonT(40) DEF StaffWrite, next
<1>3. CASE StaffReplied(s)
  BY <1>3 DEF StaffReplied
<1>4. CASE StaffCancel(s)
  BY <1>4 DEF StaffCancel
<1>5. CASE StaffEvent(s)
  BY <1>5 DEF StaffEvent, Idle, ConversationMode, Modes, InboxActions, Statuses
<1> QED BY <1>1, <1>2, <1>3, <1>4, <1>5 DEF StaffSteps

\* A change of the reply mode preserves it.
LEMMA ModeKeeps ==
    ASSUME ControlInv, NEW draft \in BOOLEAN, SetReplyMode(draft) PROVE ControlInv'
<1> USE DEF ControlInv, ControlTypeOK, ClosedMeansPaused, ReadsSound
<1> DEFINE n == conv.version + 1
<1>1. n \in Nat
  OBVIOUS
<1>2. conv' = [conv EXCEPT !.draft = draft, !.version = n]
  BY Zenon DEF SetReplyMode
<1>3. conv'.aiEnabled = conv.aiEnabled /\ conv'.status = conv.status
  BY <1>2
<1> HIDE DEF n
<1>4. conv' \in [version : Nat, aiEnabled : BOOLEAN, status : Statuses, draft : BOOLEAN]
  BY <1>1, <1>2, Zenon
<1>5. UNCHANGED <<closeEvent, handler, req>> /\ started' \in Nat
  BY DEF SetReplyMode
<1> QED BY <1>3, <1>4, <1>5

\* A worker that escalates or hands a quote off preserves it.
LEMMA PauseKeeps ==
    ASSUME ControlInv, conv' \in {conv, Escalated(conv), HandedOff(conv)},
           UNCHANGED <<closeEvent, handler, req, started>>
    PROVE  ControlInv'
<1> USE DEF ControlInv, ControlTypeOK, ClosedMeansPaused, ReadsSound
<1>1. ASSUME NEW c, c \in {conv, Escalated(conv), HandedOff(conv)}
      PROVE  /\ c \in [version : Nat, aiEnabled : BOOLEAN, status : Statuses, draft : BOOLEAN]
             /\ c.status = "CLOSED" => ~c.aiEnabled
  BY <1>1 DEF Escalated, HandedOff, Statuses
<1> QED BY <1>1

\* Every step preserves the invariant.
LEMMA ControlStepInv == ControlInv /\ [ControlNext]_controlVars => ControlInv'
<1> SUFFICES ASSUME ControlInv, [ControlNext]_controlVars PROVE ControlInv'
  OBVIOUS
<1>1. CASE RecordInbound("decide")
  BY <1>1, RecordKeeps DEF HandlerStates
<1>2. ASSUME NEW v \in Versions, DecideInbound(v) PROVE ControlInv'
  BY <1>2, DecideKeeps
<1>3. ASSUME NEW s \in Staff, StaffSteps(s) PROVE ControlInv'
  BY <1>3, StaffKeeps
<1>4. ASSUME NEW draft \in BOOLEAN, SetReplyMode(draft) PROVE ControlInv'
  BY <1>4, ModeKeeps
<1>5. CASE Escalate \/ FinalizeQuoteHandoff
  BY <1>5, PauseKeeps DEF Escalate, FinalizeQuoteHandoff
<1>6. CASE UNCHANGED controlVars
  BY <1>6, PauseKeeps DEF controlVars
<1> QED
  BY <1>1, <1>2, <1>3, <1>4, <1>5, <1>6 DEF ControlNext, StaffNext, StaffSteps

\* The invariant holds for every number of staff sessions, requests and messages.
THEOREM ControlCorrect == ControlSpec => []ControlInv
<1>1. ControlInit => ControlInv
  BY ControlInitInv
<1>2. ControlInv /\ [ControlNext]_controlVars => ControlInv'
  BY ControlStepInv
<1> QED
  BY <1>1, <1>2, PTL DEF ControlSpec

\* The row, the requests and the handlers keep their types.
THEOREM ControlTypeCorrect == ControlSpec => []ControlTypeOK
BY ControlCorrect, PTL DEF ControlInv

\* A closed conversation never has its AI switch on, however stale the copies
\* are that staff requests write back.
THEOREM ClosedStaysPaused == ControlSpec => []ClosedMeansPaused
BY ControlCorrect, PTL DEF ControlInv

\* The handler of a message leaves the step "decide" only by deciding.
LEMMA OnlyDecides ==
    ASSUME ControlInv, ControlNext, NEW v \in Versions,
           handler[v] = "decide", handler'[v] # "decide"
    PROVE  DecideInbound(v)
<1> USE DEF ControlInv, ControlTypeOK
<1>1. CASE RecordInbound("decide")
  BY <1>1 DEF RecordInbound
<1>2. ASSUME NEW u \in Versions, DecideInbound(u) PROVE u = v
  BY <1>2 DEF DecideInbound
<1>3. ASSUME UNCHANGED handler PROVE FALSE
  BY <1>3
<1> QED
  BY <1>1, <1>2, <1>3 DEF ControlNext, StaffNext, StaffRead, StaffWrite, StaffReplied,
       StaffCancel, StaffEvent, SetReplyMode, Escalate, FinalizeQuoteHandoff

\* The late processing of a message never reopens what was closed after it.
THEOREM ClosesOutliveMessages == ControlSpec => CloseOutlivesOlderMessages
<1>1. ControlInv /\ [ControlNext]_controlVars =>
        [\A v \in Versions :
           /\ handler[v] = "decide" /\ handler'[v] # "decide"
           /\ conv.status = "CLOSED" /\ ClosedAfter(v)
           => conv'.status = "CLOSED"]_controlVars
  <2> SUFFICES ASSUME ControlInv, ControlNext, NEW v \in Versions,
                      handler[v] = "decide", handler'[v] # "decide",
                      conv.status = "CLOSED", ClosedAfter(v)
               PROVE  conv'.status = "CLOSED"
    OBVIOUS
  <2>1. DecideInbound(v)
    BY OnlyDecides
  <2> QED BY <2>1 DEF DecideInbound, Reopened
<1> QED
  BY <1>1, ControlCorrect, PTL DEF ControlSpec, CloseOutlivesOlderMessages

\* The receptionist resumes only by Return to AI, by a client message that
\* restores the mode a close had ended, or by a request that read the switch
\* while it was on.
THEOREM ResumptionsWarranted == ControlSpec => ResumeNeedsWarrant
<1> DEFINE Warrant ==
      \/ \E s \in Staff : Finishes(s, "RETURN_TO_AI")
      \/ \E s \in Staff : req[s].pc = "write" /\ req[s].aiEnabled /\ req'[s].pc # "write"
      \/ \E v \in Versions : handler[v] = "decide" /\ handler'[v] # "decide"
                             /\ closeEvent.mode = "AI" /\ closeEvent.version < v
<1>1. ControlInv /\ [ControlNext]_controlVars => [Resumes => Warrant]_controlVars
  <2> SUFFICES ASSUME ControlInv, ControlNext, ~conv.aiEnabled, conv'.aiEnabled PROVE Warrant
    BY DEF Resumes
  <2> USE DEF ControlInv, ControlTypeOK
  <2>1. CASE RecordInbound("decide")
    BY <2>1 DEF RecordInbound
  <2>2. ASSUME NEW v \in Versions, DecideInbound(v) PROVE Warrant
    <3>1. closeEvent.mode = "AI" /\ ~ClosedAfter(v)
      BY <2>2 DEF DecideInbound, Reopened
    <3>2. closeEvent.version < v
      BY <3>1 DEF ClosedAfter, Versions
    <3>3. handler[v] = "decide" /\ handler'[v] # "decide"
      BY <2>2 DEF DecideInbound
    <3> QED BY <3>1, <3>2, <3>3
  <2>3. ASSUME NEW s \in Staff, StaffWrite(s) PROVE Warrant
    <3>1. req[s].pc = "write" /\ req'[s].pc # "write"
      BY <2>3 DEF StaffWrite
    <3>2. req[s].action \in InboxActions /\ ApplyInboxAction(req[s], req[s].action).aiEnabled
      BY <2>3 DEF StaffWrite
    <3>3. req[s].action = "RETURN_TO_AI" \/ req[s].aiEnabled
      BY <3>2 DEF ApplyInboxAction, InboxActions
    <3> QED BY <3>1, <3>3 DEF Finishes
  <2>4. ASSUME UNCHANGED conv PROVE FALSE
    BY <2>4
  <2>5. ASSUME NEW s \in Staff, StaffReplied(s) PROVE FALSE
    BY <2>5 DEF StaffReplied
  <2>6. ASSUME NEW draft \in BOOLEAN, SetReplyMode(draft) PROVE FALSE
    BY <2>6 DEF SetReplyMode
  <2>7. CASE Escalate
    BY <2>7 DEF Escalate, Escalated
  <2>8. CASE FinalizeQuoteHandoff
    BY <2>8 DEF FinalizeQuoteHandoff, HandedOff
  <2> QED
    BY <2>1, <2>2, <2>3, <2>4, <2>5, <2>6, <2>7, <2>8
       DEF ControlNext, StaffNext, StaffRead, StaffCancel, StaffEvent
<1> QED
  BY <1>1, ControlCorrect, PTL DEF ControlSpec, ResumeNeedsWarrant

-----------------------------------------------------------------------------
(* Types.                                                                   *)

\* Releasing the lease of a job keeps everything but the status.
LEMMA UnlockedFields ==
    ASSUME NEW j \in Jobs, NEW status \in JobStatuses
    PROVE  /\ Unlocked(j, status) \in Jobs
           /\ Unlocked(j, status).status = status
           /\ Unlocked(j, status).token = NoToken
           /\ Unlocked(j, status).version = j.version
           /\ Unlocked(j, status).result = j.result
           /\ Unlocked(j, status).attempts = j.attempts
BY DEF Unlocked, Jobs, JobStatuses, NoToken

\* An upsert never takes the job's version back, and keeps a delivery going.
LEMMA EnqueuedFields ==
    ASSUME NEW j \in Jobs, NEW v \in Nat
    PROVE  /\ Enqueued(j, v) \in Jobs
           /\ j.version > v => Enqueued(j, v) = j
           /\ j.version <= v => Enqueued(j, v).version = v
           /\ j.version <= v /\ j.status = "SENDING" =>
                Enqueued(j, v).status = "SENDING" /\ Enqueued(j, v).token = j.token
           /\ j.version <= v /\ j.status # "SENDING" =>
                Enqueued(j, v).status = "PENDING" /\ Enqueued(j, v).token = NoToken
BY DEF Enqueued, Jobs, JobStatuses, NoToken, NoRow, Claimable

\* Cancelling touches only replies that are not being sent.
LEMMA CancelFields ==
    ASSUME NEW j \in Jobs
    PROVE  /\ CancelUndelivered(j) \in Jobs
           /\ CancelUndelivered(j).version = j.version
           /\ \/ CancelUndelivered(j) = j
              \/ /\ j.status \in Claimable \cup {"PROCESSING"}
                 /\ CancelUndelivered(j).status = "CANCELLED"
                 /\ CancelUndelivered(j).token = NoToken
BY UnlockedFields DEF CancelUndelivered, JobStatuses, Settled

\* The sweep never makes a delivery that was started due again.
LEMMA SweptFields ==
    ASSUME NEW j \in Jobs
    PROVE  /\ Swept(j) \in Jobs
           /\ Swept(j).version = j.version
           /\ \/ Swept(j) = j
              \/ /\ Swept(j).token = NoToken
                 /\ \/ j.status = "PROCESSING" /\ Swept(j).status \in {"RETRY", "FAILED"}
                    \/ j.status = "SENDING" /\ Swept(j).status = "DELIVERY_UNKNOWN"
<1> DEFINE due == IF j.attempts < MaxAttempts /\ \E r \in rows : r.version = j.version
                  THEN "RETRY" ELSE "FAILED"
<1>1. CASE j.status = "PROCESSING" /\ j.expired
  <2>1. due \in {"RETRY", "FAILED"} /\ due \in JobStatuses
    BY DEF JobStatuses, Claimable, Settled
  <2>2. Swept(j) = Unlocked(j, due)
    BY <1>1 DEF Swept
  <2> HIDE DEF due
  <2> QED BY <1>1, <2>1, <2>2, UnlockedFields
<1>2. CASE j.status = "SENDING" /\ j.expired
  <2>1. Swept(j) = Unlocked(j, "DELIVERY_UNKNOWN")
    BY <1>2 DEF Swept
  <2>2. "DELIVERY_UNKNOWN" \in JobStatuses
    BY DEF JobStatuses, Settled
  <2> QED BY <1>2, <2>1, <2>2, UnlockedFields
<1>3. CASE ~(j.status = "PROCESSING" /\ j.expired) /\ ~(j.status = "SENDING" /\ j.expired)
  BY <1>3 DEF Swept
<1> QED BY <1>1, <1>2, <1>3

\* A finished job is completed, or due again when a newer message was merged.
LEMMA FinishedFields ==
    ASSUME NEW j \in Jobs, NEW v \in Nat
    PROVE  /\ Finished(j, v) \in Jobs
           /\ Finished(j, v).version = j.version
           /\ Finished(j, v).token = NoToken
           /\ Finished(j, v).status = IF j.version > v THEN "PENDING" ELSE "COMPLETED"
<1>1. {"PENDING", "COMPLETED"} \subseteq JobStatuses
  BY DEF JobStatuses, Claimable, Settled
<1> QED BY <1>1, UnlockedFields DEF Finished, Jobs, NoRow

\* What the queue adds to the types of the conversation.
QueueTypes ==
    /\ job \in Jobs /\ rows \subseteq Rows /\ drafts \subseteq Nat /\ consent \in BOOLEAN
    /\ worker \in [Workers -> WorkerStates]
    /\ claims \in Nat
    /\ exposures \subseteq [token : Nat, version : Nat, row : Nat, text : Nat]
    /\ overrun \subseteq Nat

\* A worker that only moves on keeps its type.
LEMMA MovesTyped ==
    ASSUME QueueTypes, NEW w \in Workers,
           NEW pc \in {"idle"} \cup BeforeSend \cup SendWindow \cup AfterSend \cup GivingUp
    PROVE  /\ Goto(w, pc) => worker' \in [Workers -> WorkerStates]
           /\ \A outcome \in Settled \cup {"RETRY"} :
                GiveUp(w, pc, outcome) => worker' \in [Workers -> WorkerStates]
BY DEF QueueTypes, Goto, GiveUp, WorkerStates

\* A worker that lets go of everything is well typed.
LEMMA FreeTyped == Free \in WorkerStates
BY DEF Free, WorkerStates, BeforeSend, SendWindow, AfterSend, GivingUp, Settled, NoToken, NoRow

\* Marking, releasing and renewing a lease keep the job's type.
LEMMA JobUpdatesTyped ==
    ASSUME NEW j \in Jobs
    PROVE  /\ [j EXCEPT !.expired = FALSE] \in Jobs
           /\ [j EXCEPT !.expired = TRUE] \in Jobs
           /\ [j EXCEPT !.status = "SENDING", !.expired = FALSE] \in Jobs
           /\ \A r \in Nat : [j EXCEPT !.result = r] \in Jobs
BY DEF Jobs, JobStatuses, Leased

\* The fence leaves the job alone or writes what it is given.
LEMMA FencedTyped ==
    ASSUME NEW w \in Workers, job \in Jobs, NEW new \in Jobs, UpdateClaimed(w, new)
    PROVE  job' \in Jobs
BY DEF UpdateClaimed

\* Retagging and deleting rows keep their type.
LEMMA RowsTyped ==
    ASSUME rows \subseteq Rows, NEW id \in Nat, NEW v \in Nat
    PROVE  Retagged(id, v) \subseteq Rows /\ Without(id) \subseteq Rows
<1>1. ASSUME NEW r \in Rows PROVE [r EXCEPT !.version = v] \in Rows
  BY DEF Rows
<1> QED BY <1>1 DEF Retagged, Without

PcNames == {"check", "lookup", "agent", "save", "attach", "guard1", "mark", "guard2", "start",
            "guard3", "consent", "wire", "record", "finish", "handoff", "discard", "settle", "fail"}

LEMMA PcNamesTyped ==
    PcNames \subseteq {"idle"} \cup BeforeSend \cup SendWindow \cup AfterSend \cup GivingUp
BY DEF PcNames, BeforeSend, SendWindow, AfterSend, GivingUp

\* Each step of a worker keeps the types of the queue.
LEMMA WorkerStepTyped ==
    ASSUME QueueTypes, ControlTypeOK, NEW w \in Workers, WorkerStep(w) PROVE QueueTypes'
<1> DEFINE Ws == [Workers -> WorkerStates]
<1>0. worker[w] \in WorkerStates
  BY DEF QueueTypes
<1>1. ASSUME NEW pc \in PcNames, Goto(w, pc) PROVE worker' \in Ws
  BY <1>1, MovesTyped, PcNamesTyped
<1>2. ASSUME NEW pc \in PcNames, NEW outcome \in {"COMPLETED", "CANCELLED", "FAILED", "DELIVERY_UNKNOWN", "RETRY"},
             GiveUp(w, pc, outcome)
      PROVE  worker' \in Ws
  BY <1>2, MovesTyped, PcNamesTyped DEF Settled
<1>3. ASSUME worker' = [worker EXCEPT ![w] = Free] PROVE worker' \in Ws
  BY <1>3, FreeTyped DEF QueueTypes
<1>4. Renew(w) => job' \in Jobs
  BY JobUpdatesTyped, FencedTyped DEF Renew, QueueTypes
<1>5. ASSUME NEW status \in JobStatuses, UpdateClaimed(w, Unlocked(job, status)) PROVE job' \in Jobs
  BY <1>5, UnlockedFields, FencedTyped DEF QueueTypes
<1>6. Settled \subseteq JobStatuses /\ "RETRY" \in JobStatuses /\ "FAILED" \in Settled
  BY DEF JobStatuses, Settled, Claimable
<1>7. CASE Check(w)
  BY <1>7, <1>1, <1>2 DEF Check, PcNames, QueueTypes
<1>8. CASE Lookup(w)
  <2>1. ASSUME NEW r \in Rows,
               worker' = [worker EXCEPT ![w].pc = "guard1", ![w].result = r.id,
                                        ![w].tag = r.version, ![w].text = r.text]
        PROVE  worker' \in Ws
    <3>1. r.id \in Nat /\ r.version \in Nat /\ r.text \in Nat
      BY DEF Rows
    <3>2. [worker[w] EXCEPT !.pc = "guard1", !.result = r.id, !.tag = r.version, !.text = r.text]
            \in WorkerStates
      BY <1>0, <3>1 DEF WorkerStates, BeforeSend
    <3> QED BY <2>1, <3>2 DEF QueueTypes
  <2>2. Reusable(w) \subseteq Rows
    BY DEF Reusable, QueueTypes
  <2> QED BY <1>8, <1>1, <2>1, <2>2 DEF Lookup, PcNames, QueueTypes
<1>9. CASE AgentEscalates(w)
  BY <1>9, <1>4 DEF AgentEscalates, QueueTypes
<1>10. CASE AgentReplies(w)
  BY <1>10, <1>0, <1>1, <1>2, <1>4 DEF AgentReplies, PcNames, QueueTypes, WorkerStates
<1>11. CASE AgentStops(w)
  BY <1>11, <1>2, <1>4 DEF AgentStops, PcNames, QueueTypes
<1>12. CASE AgentThrows(w)
  BY <1>12, <1>2 DEF AgentThrows, PcNames, QueueTypes
<1>13. CASE SaveReply(w)
  <2>1. worker[w].token \in Nat /\ worker[w].version \in Nat
    BY <1>0 DEF WorkerStates
  <2>2. [worker[w] EXCEPT !.pc = "attach", !.result = worker[w].token,
                          !.tag = worker[w].version, !.text = worker[w].version] \in WorkerStates
    BY <1>0, <2>1 DEF WorkerStates, BeforeSend
  <2>3. worker' \in Ws
    BY <1>13, <2>2 DEF SaveReply, QueueTypes
  <2>4. \A quote \in BOOLEAN : [id |-> worker[w].token, version |-> worker[w].version,
                                text |-> worker[w].version, quote |-> quote] \in Rows
    BY <2>1, Zenon DEF Rows
  <2>5. rows' \subseteq Rows
    BY <1>13, <2>4, Zenon DEF SaveReply, QueueTypes
  <2> QED BY <1>13, <2>3, <2>5 DEF SaveReply, QueueTypes
<1>14. CASE AttachReply(w)
  BY <1>14, <1>0, <1>1, <1>3, JobUpdatesTyped, FencedTyped, RowsTyped
     DEF AttachReply, PcNames, QueueTypes, WorkerStates
<1>15. ASSUME NEW here, NEW next \in PcNames, Guard(w, here, next) PROVE QueueTypes'
  BY <1>15, <1>1, <1>2, <1>4 DEF Guard, PcNames, QueueTypes
<1>16. CASE MarkSending(w)
  BY <1>16, <1>1, <1>2, JobUpdatesTyped, FencedTyped DEF MarkSending, PcNames, QueueTypes
<1>17. CASE StartSend(w)
  BY <1>17, <1>0, <1>1, <1>2, RowsTyped DEF StartSend, PcNames, QueueTypes, WorkerStates
<1>18. CASE CheckConsent(w)
  BY <1>18, <1>1, <1>2 DEF CheckConsent, PcNames, QueueTypes
<1>19. CASE CallProvider(w)
  BY <1>19, <1>0, <1>1, <1>2 DEF CallProvider, Exposure, PcNames, QueueTypes, WorkerStates
<1>20. CASE RecordSent(w)
  BY <1>20, <1>0, <1>1, <1>2, RowsTyped DEF RecordSent, PcNames, QueueTypes, WorkerStates
<1>21. CASE FinishAiResponse(w)
  BY <1>21, <1>0, <1>1, FinishedFields DEF FinishAiResponse, PcNames, QueueTypes, WorkerStates
<1>22. CASE HandOffQuote(w)
  BY <1>22, <1>3 DEF HandOffQuote, QueueTypes
<1>23. CASE Discard(w)
  BY <1>23, <1>0, <1>1, RowsTyped DEF Discard, PcNames, QueueTypes, WorkerStates
<1>24. CASE Settle(w)
  BY <1>24, <1>0, <1>3, <1>5, <1>6 DEF Settle, QueueTypes, WorkerStates
<1>25. CASE Fail(w)
  <2> DEFINE status == IF worker[w].outcome = "RETRY" /\ worker[w].attempt >= MaxAttempts
                       THEN "FAILED" ELSE worker[w].outcome
  <2>1. status \in JobStatuses
    BY <1>0, <1>6 DEF WorkerStates
  <2>2. UpdateClaimed(w, Unlocked(job, status))
    BY <1>25 DEF Fail
  <2> HIDE DEF status
  <2> QED BY <1>25, <1>3, <1>5, <2>1, <2>2 DEF Fail, QueueTypes
<1> QED
  BY <1>7, <1>8, <1>9, <1>10, <1>11, <1>12, <1>13, <1>14, <1>15, <1>16, <1>17, <1>18, <1>19,
     <1>20, <1>21, <1>22, <1>23, <1>24, <1>25 DEF WorkerStep, PcNames

\* The row a claim writes is well typed.
LEMMA ClaimedTyped ==
    ASSUME NEW j \in Jobs, NEW n \in Nat
    PROVE  [j EXCEPT !.status = "PROCESSING", !.attempts = @ + 1, !.token = n + 1,
                     !.expired = FALSE] \in Jobs
<1>1. j.attempts + 1 \in Nat /\ n + 1 \in Nat /\ "PROCESSING" \in JobStatuses
  BY DEF Jobs, JobStatuses, Leased
<1> QED BY <1>1 DEF Jobs

\* Claiming, sweeping and crashing keep the types of the queue.
LEMMA ClaimTyped ==
    ASSUME QueueTypes, NEW w \in Workers, Claim(w) \/ Sweep(w) \/ Crash(w) PROVE QueueTypes'
<1>1. NoteOverrun => overrun' \subseteq Nat
  BY DEF NoteOverrun, QueueTypes, Jobs
<1>2. Swept(job) \in Jobs /\ Swept(job).version = job.version
  BY SweptFields DEF QueueTypes
<1>3. CASE Claim(w)
  <2>1. job' \in Jobs
    BY <1>2, <1>3, ClaimedTyped DEF Claim, QueueTypes
  <2>2. worker' \in [Workers -> WorkerStates]
    <3> DEFINE j == Swept(job)
    <3>1. job.version \in Nat /\ job.result \in Nat /\ j.attempts + 1 \in Nat /\ claims + 1 \in Nat
      BY <1>2 DEF Jobs, QueueTypes
    <3>2. worker' = [worker EXCEPT ![w] =
                    [pc |-> "check", token |-> claims + 1, version |-> job.version,
                     attempt |-> j.attempts + 1, result |-> job.result,
                     tag |-> 0, text |-> 0, outcome |-> "COMPLETED"]]
      BY <1>3 DEF Claim
    <3> HIDE DEF j
    <3> QED BY <3>1, <3>2 DEF QueueTypes, WorkerStates, BeforeSend, Settled
  <2> QED BY <1>1, <1>3, <2>1, <2>2 DEF Claim, QueueTypes
<1>4. CASE Sweep(w)
  BY <1>1, <1>2, <1>4 DEF Sweep, QueueTypes
<1>5. CASE Crash(w)
  BY <1>5, FreeTyped DEF Crash, QueueTypes
<1> QED BY <1>3, <1>4, <1>5

\* What runs beside the workers keeps the types of the queue.
LEMMA BesideTyped ==
    ASSUME QueueTypes, LeaseExpires \/ Webhooks \/ Inbox PROVE QueueTypes'
<1>1. CASE LeaseExpires
  BY <1>1, JobUpdatesTyped DEF LeaseExpires, QueueTypes
<1>2. CASE UNCHANGED queueVars
  BY <1>2 DEF queueVars, QueueTypes
<1>3. ASSUME NEW v \in Versions, EnqueueAiResponse(v) PROVE QueueTypes'
  BY <1>3, EnqueuedFields, SMTT(30) DEF EnqueueAiResponse, HandlerMoves, QueueTypes, Versions
<1>4. ASSUME NEW v \in Versions, StopCancels(v) PROVE QueueTypes'
  BY <1>4, CancelFields DEF StopCancels, HandlerMoves, QueueTypes
<1>5. ASSUME NEW v \in Versions, StopRevokes(v) \/ StartGrants(v) \/ HandlerDies(v) PROVE QueueTypes'
  BY <1>5 DEF StopRevokes, StartGrants, HandlerDies, HandlerMoves, QueueTypes
<1>6. ASSUME NEW s \in Staff, StaffCancels(s) PROVE QueueTypes'
  BY <1>6, CancelFields DEF StaffCancels, QueueTypes
<1>7. ASSUME NEW draft \in BOOLEAN, ChangeReplyMode(draft) PROVE QueueTypes'
  BY <1>7, CancelFields DEF ChangeReplyMode, QueueTypes
<1> QED
  BY <1>1, <1>2, <1>3, <1>4, <1>5, <1>6, <1>7
     DEF Webhooks, Inbox, ReceiveMessage, ReceiveKeyword, Decide, StaffElsewhere

\* Every step keeps the invariant of the conversation.
LEMMA ConversationKept ==
    ASSUME ControlInv, [Next]_vars PROVE ControlInv'
<1>1. ASSUME NEW w \in Workers, Claim(w) \/ Sweep(w) \/ WorkerStep(w) \/ Crash(w)
      PROVE  ControlInv'
  <2>1. conv' \in {conv, Escalated(conv), HandedOff(conv)} /\ UNCHANGED <<closeEvent, handler, req, started>>
    BY <1>1 DEF Claim, Sweep, Crash, WorkerStep, Check, Lookup, AgentEscalates, AgentReplies,
         AgentStops, AgentThrows, SaveReply, AttachReply, Guard, MarkSending, StartSend,
         CheckConsent, CallProvider, RecordSent, FinishAiResponse, HandOffQuote, Discard,
         Settle, Fail, controlVars
  <2> QED BY <2>1, PauseKeeps
<1>2. CASE LeaseExpires
  BY <1>2, PauseKeeps DEF LeaseExpires, controlVars
<1>3. ASSUME NEW next \in HandlerStates, RecordInbound(next) PROVE ControlInv'
  BY <1>3, RecordKeeps
<1>4. ASSUME NEW v \in Versions, Decide(v) PROVE ControlInv'
  BY <1>4, DecideKeeps DEF Decide
<1>5. ASSUME NEW v \in Versions,
             EnqueueAiResponse(v) \/ HandlerDies(v) \/ StopCancels(v) \/ StopRevokes(v) \/ StartGrants(v)
      PROVE  ControlInv'
  <2>1. ASSUME NEW from, NEW to \in HandlerStates, HandlerMoves(v, from, to) PROVE ControlInv'
    BY <2>1, HandlerKeeps DEF HandlerMoves
  <2> QED
    BY <1>5, <2>1 DEF EnqueueAiResponse, HandlerDies, StopCancels, StopRevokes, StartGrants, HandlerStates
<1>6. ASSUME NEW s \in Staff, StaffCancels(s) \/ StaffElsewhere(s) PROVE ControlInv'
  BY <1>6, StaffKeeps DEF StaffCancels, StaffElsewhere, StaffSteps
<1>7. ASSUME NEW draft \in BOOLEAN, ChangeReplyMode(draft) PROVE ControlInv'
  BY <1>7, ModeKeeps DEF ChangeReplyMode
<1>8. CASE UNCHANGED vars
  BY <1>8, PauseKeeps DEF vars, controlVars
<1> QED
  BY <1>1, <1>2, <1>3, <1>4, <1>5, <1>6, <1>7, <1>8
     DEF Next, Webhooks, Inbox, ReceiveMessage, ReceiveKeyword, HandlerStates

Types == ControlInv /\ QueueTypes

\* The initial state is well typed.
LEMMA InitTypes == Init => Types
<1> SUFFICES ASSUME Init PROVE Types
  OBVIOUS
<1>1. ControlInv
  BY ControlInitInv DEF Init
<1>2. QueueTypes
  BY FreeTyped DEF Init, QueueTypes, Jobs, JobStatuses, NoToken, NoRow
<1> QED BY <1>1, <1>2 DEF Types

\* Every step keeps the types.
LEMMA StepTypes == Types /\ [Next]_vars => Types'
<1> SUFFICES ASSUME Types, [Next]_vars PROVE Types'
  OBVIOUS
<1>1. ControlInv'
  BY ConversationKept DEF Types
<1>2. QueueTypes'
  <2>1. CASE UNCHANGED vars
    BY <2>1 DEF vars, queueVars, Types, QueueTypes
  <2> QED BY <2>1, ClaimTyped, WorkerStepTyped, BesideTyped DEF Next, Types, ControlInv
<1> QED BY <1>1, <1>2 DEF Types

\* The job, the saved replies and the workers keep their types, and so does the
\* conversation beside them.
THEOREM TypeCorrect == Spec => []TypeOK
<1>1. Spec => []Types
  BY InitTypes, StepTypes, PTL DEF Spec
<1>2. Types => TypeOK
  BY DEF Types, TypeOK, ControlInv, QueueTypes
<1> QED BY <1>1, <1>2, PTL

-----------------------------------------------------------------------------
(* No version is sent twice.                                                *)

Inv == Types /\ DeliveryInv /\ NeverSentTwice

\* The provider may have delivered the reply of a worker in this state.
Exposed(s) == s.pc \in AfterSend \/ (s.pc = "fail" /\ s.outcome = "DELIVERY_UNKNOWN")

\* How a worker moves, apart from claiming, marking the job and exposing a reply.
StateAdvances(old, new) ==
    /\ new.pc # "idle" =>
         /\ old.pc # "idle" /\ new.token = old.token /\ new.version = old.version
         /\ Exposed(old) => Exposed(new)
    /\ new.pc \in SendWindow => old.pc \in SendWindow
    /\ new.pc \in BeforeSend => old.pc \in BeforeSend
    /\ new.pc \in {"discard", "settle"} =>
         new.outcome \in Settled \/ (new.pc = old.pc /\ new.outcome = old.outcome)

WorkersAdvance == \A w \in Workers : StateAdvances(worker[w], worker'[w])

\* What every other party does to the progress of the webhook requests.
HandlersAdvance ==
    /\ \A v \in Versions : v > conv'.version => handler'[v] = "none"
    /\ \A v \in Versions : handler[v] = "queued" => handler'[v] = "queued"

SpentAfter(v, token) ==
    \/ job'.version > v
    \/ job'.version = v
         /\ (job'.status \in Settled \/ (job'.status = "SENDING" /\ job'.token = token))

JobKept == job'.status = job.status /\ job'.token = job.token /\ job'.version = job.version

\* The lease is released: for good, or for another attempt at a version that
\* nobody can have exposed.
JobReleased ==
    /\ job.status # "NONE" /\ job'.status # "NONE"
    /\ job'.token = NoToken /\ job'.version = job.version
    /\ \/ job'.status \in Settled
       \/ /\ \A e \in exposures : e.version # job.version
          /\ \A w \in Workers : InWindow(w) => worker[w].version # job.version

\* The sets of steps do not overlap.
LEMMA StepsApart ==
    /\ "idle" \notin BeforeSend \cup SendWindow \cup AfterSend \cup GivingUp
    /\ BeforeSend \cap SendWindow = {} /\ BeforeSend \cap AfterSend = {}
    /\ SendWindow \cap AfterSend = {}
    /\ GivingUp \cap (BeforeSend \cup SendWindow \cup AfterSend) = {}
BY DEF BeforeSend, SendWindow, AfterSend, GivingUp

\* A step that leaves status, token and version of the job alone, or releases
\* its lease, preserves the invariant as long as the workers only advance.
LEMMA AdvanceKeeps ==
    ASSUME Types, DeliveryInv, NeverSentTwice, WorkersAdvance, HandlersAdvance,
           JobKept \/ JobReleased, UNCHANGED <<claims, exposures>>
    PROVE  DeliveryInv' /\ NeverSentTwice'
<1>1. \A w \in Workers : worker'[w].pc # "idle" =>
        worker[w].pc # "idle" /\ worker'[w].token = worker[w].token
          /\ worker'[w].version = worker[w].version
  BY DEF WorkersAdvance, StateAdvances
<1>2. \A w \in Workers : worker'[w].pc \in SendWindow =>
        /\ worker[w].pc \in SendWindow /\ worker'[w].token = worker[w].token
        /\ worker'[w].version = worker[w].version
  BY <1>1, StepsApart DEF WorkersAdvance, StateAdvances
<1>3. job \in Jobs /\ claims \in Nat
  BY DEF Types, QueueTypes
<1>4. job'.version = job.version /\ (job'.token = job.token \/ job'.token = 0)
  BY DEF JobKept, JobReleased, NoToken
<1>5. TokensFresh'
  <2>1. job'.token <= claims
    BY <1>3, <1>4 DEF DeliveryInv, TokensFresh
  <2> QED BY <2>1, <1>1 DEF DeliveryInv, TokensFresh, Busy
<1>6. VersionsQueued'
  <2>1. IF job'.status = "NONE" THEN job'.version = 0
        ELSE job'.version \in Versions /\ handler'[job'.version] = "queued"
    BY <1>4 DEF JobKept, JobReleased, HandlersAdvance, DeliveryInv, VersionsQueued
  <2> QED BY <2>1, <1>1, <1>4 DEF HandlersAdvance, DeliveryInv, VersionsQueued, Busy
<1>7. LeaseAgrees'
  <2>1. CASE JobKept
    BY <2>1, <1>1, <1>2 DEF JobKept, DeliveryInv, LeaseAgrees, WorkersAdvance, StateAdvances, Holds,
         Busy, InWindow
  <2>2. CASE JobReleased
    BY <2>2 DEF JobReleased, LeaseAgrees, Holds
  <2> QED BY <2>1, <2>2
<1>8. OutcomesHonest'
  BY <1>1 DEF DeliveryInv, OutcomesHonest, WorkersAdvance, StateAdvances, Exposed, Busy
<1>9. VersionsSpent'
  <2>1. ASSUME NEW v, NEW token, Spent(v, token),
               (\E e \in exposures : e.version = v) \/ (\E w \in Workers : InWindow(w) /\ worker[w].version = v)
        PROVE  SpentAfter(v, token)
    <3>1. CASE JobKept
      BY <2>1, <3>1 DEF JobKept, Spent, SpentAfter
    <3>2. CASE JobReleased
      BY <2>1, <3>2 DEF JobReleased, Spent, SpentAfter
    <3> QED BY <3>1, <3>2
  <2>2. \A e \in exposures : SpentAfter(e.version, e.token)
    BY <2>1 DEF DeliveryInv, VersionsSpent
  <2>3. \A w \in Workers : worker'[w].pc \in SendWindow =>
          /\ SpentAfter(worker'[w].version, worker'[w].token)
          /\ \A e \in exposures : e.version # worker'[w].version
          /\ \A x \in Workers : worker'[x].pc \in SendWindow /\ worker'[x].version = worker'[w].version
                                  => x = w
    BY <1>2, <2>1 DEF InWindow, DeliveryInv, VersionsSpent
  <2> QED BY <2>2, <2>3 DEF VersionsSpent, InWindow, Spent, SpentAfter
<1> QED BY <1>5, <1>6, <1>7, <1>8, <1>9 DEF DeliveryInv, NeverSentTwice

\* It is enough to look at the worker that moved.
LEMMA OneAdvances ==
    ASSUME QueueTypes, NEW w \in Workers, NEW new, worker' = [worker EXCEPT ![w] = new],
           StateAdvances(worker[w], new)
    PROVE  WorkersAdvance
<1>1. ASSUME NEW x \in Workers PROVE StateAdvances(worker[x], worker'[x])
  <2>1. CASE x = w
    BY <2>1 DEF QueueTypes
  <2>2. CASE x # w
    BY <2>2 DEF QueueTypes, StateAdvances
  <2> QED BY <2>1, <2>2
<1> QED BY <1>1 DEF WorkersAdvance

\* A worker that lets go of everything advances.
LEMMA FreeAdvances ==
    ASSUME QueueTypes, NEW w \in Workers, worker' = [worker EXCEPT ![w] = Free]
    PROVE  WorkersAdvance
<1>1. StateAdvances(worker[w], Free)
  BY DEF StateAdvances, Free, SendWindow, BeforeSend
<1> QED BY <1>1, OneAdvances

\* A worker that goes on in its phase advances.
LEMMA GotoAdvances ==
    ASSUME QueueTypes, NEW w \in Workers, NEW pc, Goto(w, pc), worker[w].pc # "idle",
           \/ worker[w].pc \in BeforeSend /\ pc \in BeforeSend
           \/ worker[w].pc \in SendWindow /\ pc \in SendWindow
           \/ pc \in AfterSend
    PROVE  WorkersAdvance
<1> DEFINE new == [worker[w] EXCEPT !.pc = pc]
<1>1. worker[w] \in WorkerStates
  BY DEF QueueTypes
<1>2. new.pc = pc /\ new.token = worker[w].token /\ new.version = worker[w].version
  BY <1>1 DEF WorkerStates
<1>3. worker' = [worker EXCEPT ![w] = new]
  BY DEF Goto
<1> HIDE DEF new
<1>4. StateAdvances(worker[w], new)
  BY <1>2 DEF StateAdvances, Exposed, BeforeSend, SendWindow, AfterSend
<1> QED BY <1>3, <1>4, OneAdvances

\* A worker that gives up advances, if it says so when it may have exposed a reply.
LEMMA GiveUpAdvances ==
    ASSUME QueueTypes, NEW w \in Workers, NEW pc \in GivingUp, NEW outcome, GiveUp(w, pc, outcome),
           worker[w].pc # "idle",
           pc \in {"discard", "settle"} => outcome \in Settled,
           Exposed(worker[w]) => pc = "fail" /\ outcome = "DELIVERY_UNKNOWN"
    PROVE  WorkersAdvance
<1> DEFINE new == [worker[w] EXCEPT !.pc = pc, !.outcome = outcome]
<1>1. worker[w] \in WorkerStates
  BY DEF QueueTypes
<1>2. /\ new.pc = pc /\ new.token = worker[w].token /\ new.version = worker[w].version
      /\ new.outcome = outcome
  BY <1>1 DEF WorkerStates
<1>3. worker' = [worker EXCEPT ![w] = new]
  BY DEF GiveUp
<1> HIDE DEF new
<1>4. StateAdvances(worker[w], new)
  BY <1>2, StepsApart DEF StateAdvances, Exposed
<1> QED BY <1>3, <1>4, OneAdvances

\* Staff, clients and the agent do not touch the queue's requests.
LEMMA VersionGrows ==
    ASSUME ControlTypeOK, VersionsQueued, handler' = handler, conv'.version \in Nat,
           conv'.version >= conv.version
    PROVE  HandlersAdvance
BY DEF ControlTypeOK, VersionsQueued, HandlersAdvance, Versions

\* The fence lets only the holder of the lease change the job.
LEMMA RenewKeeps ==
    ASSUME job \in Jobs, NEW w \in Workers, Renew(w) PROVE JobKept
BY DEF Renew, UpdateClaimed, Jobs, JobKept

\* The holder of the lease may release it: for good, or for a retry when it has
\* not exposed anything.
LEMMA ReleaseKeeps ==
    ASSUME Types, DeliveryInv, NEW w \in Workers, NEW status \in JobStatuses \ {"NONE"},
           worker[w].pc \in {"settle", "fail"},
           UpdateClaimed(w, Unlocked(job, status)),
           \/ status \in Settled
           \/ worker[w].pc = "fail" /\ worker[w].outcome # "DELIVERY_UNKNOWN"
    PROVE  JobKept \/ JobReleased
<1>1. job \in Jobs
  BY DEF Types, QueueTypes
<1>2. CASE ~Holds(w)
  BY <1>2 DEF UpdateClaimed, JobKept
<1>3. CASE Holds(w)
  <2>1. /\ job' = Unlocked(job, status) /\ job'.status = status
        /\ job'.token = NoToken /\ job'.version = job.version
    BY <1>1, <1>3, UnlockedFields DEF UpdateClaimed
  <2>2. job.status \in Leased /\ job.status # "NONE" /\ job.token = worker[w].token
    BY <1>3 DEF Holds, Leased
  <2>3. CASE status \in Settled
    BY <2>1, <2>2, <2>3 DEF JobReleased
  <2>4. CASE worker[w].pc = "fail" /\ worker[w].outcome # "DELIVERY_UNKNOWN"
    <3>1. Busy(w) /\ ~Exposed(worker[w]) /\ ~InWindow(w)
      BY <2>4, StepsApart DEF Busy, Exposed, InWindow, GivingUp, AfterSend, SendWindow
    <3>2. \A token : Spent(job.version, token) => token = worker[w].token
      BY <1>1, <2>2 DEF Spent, Leased, Settled, Jobs
    <3>3. \A e \in exposures : e.version # job.version
      BY <3>1, <3>2 DEF DeliveryInv, VersionsSpent, OutcomesHonest, Exposed
    <3>4. ASSUME NEW x \in Workers, InWindow(x), worker[x].version = job.version PROVE FALSE
      <4>1. worker[x].token = worker[w].token
        BY <3>2, <3>4 DEF DeliveryInv, VersionsSpent
      <4>2. Busy(x)
        BY <3>4, StepsApart DEF Busy, InWindow
      <4>3. x = w
        BY <3>1, <4>1, <4>2 DEF DeliveryInv, TokensFresh
      <4> QED BY <3>1, <3>4, <4>3
    <3> QED BY <2>1, <2>2, <3>3, <3>4 DEF JobReleased
  <2> QED BY <2>3, <2>4
<1> QED BY <1>2, <1>3

\* Marking the job puts its holder, and nobody else, into the send window.
LEMMA MarkKeeps ==
    ASSUME Inv, NEW w \in Workers, MarkSending(w), Holds(w) PROVE DeliveryInv' /\ NeverSentTwice'
<1>0. QueueTypes /\ job \in Jobs /\ worker[w] \in WorkerStates
  BY DEF Inv, Types, QueueTypes
<1>1. /\ job.status = "PROCESSING" /\ worker[w].version = job.version
      /\ worker[w].token = job.token /\ Busy(w) /\ ~InWindow(w)
  BY DEF MarkSending, Inv, DeliveryInv, LeaseAgrees, Busy, BeforeSend, Holds
<1>2. job'.status = "SENDING" /\ job'.token = job.token /\ job'.version = job.version
  BY <1>0 DEF MarkSending, UpdateClaimed, Jobs
<1>3. /\ worker'[w].pc = "guard2" /\ worker'[w].token = worker[w].token
      /\ worker'[w].version = worker[w].version /\ worker'[w].outcome = worker[w].outcome
      /\ \A x \in Workers \ {w} : worker'[x] = worker[x]
  BY <1>0 DEF MarkSending, Goto, QueueTypes, WorkerStates
<1>4. UNCHANGED <<conv, handler, claims, exposures>>
  BY DEF MarkSending, controlVars
<1>5. TokensFresh'
  BY <1>1, <1>2, <1>3, <1>4 DEF Inv, DeliveryInv, TokensFresh, Busy
<1>6. VersionsQueued'
  BY <1>1, <1>2, <1>3, <1>4 DEF Inv, DeliveryInv, VersionsQueued, Busy
<1>7. LeaseAgrees'
  <2>1. ASSUME NEW x \in Workers, Busy(x)', Holds(x)' PROVE x = w
    BY <1>1, <1>2, <1>3, <2>1 DEF Inv, DeliveryInv, TokensFresh, Busy, Holds
  <2> QED BY <1>2, <1>3, <2>1 DEF LeaseAgrees, BeforeSend
<1>8. OutcomesHonest'
  <2>1. \A e \in exposures : e.token # worker[w].token
    BY <1>1 DEF MarkSending, Inv, DeliveryInv, OutcomesHonest, AfterSend
  <2> QED BY <1>3, <1>4, <2>1 DEF Inv, DeliveryInv, OutcomesHonest, Busy
<1>9. VersionsSpent'
  <2>1. \A token : ~Spent(job.version, token)
    BY <1>0, <1>1 DEF Spent, Settled, Jobs
  <2>2. ASSUME NEW v, NEW token, Spent(v, token) PROVE SpentAfter(v, token) /\ v # job.version
    BY <1>1, <1>2, <2>1, <2>2 DEF Spent, SpentAfter, Settled
  <2>3. SpentAfter(job.version, job.token)
    BY <1>2 DEF SpentAfter
  <2>4. \A e \in exposures : SpentAfter(e.version, e.token) /\ e.version # job.version
    BY <2>2 DEF Inv, DeliveryInv, VersionsSpent
  <2>5. \A x \in Workers \ {w} : worker'[x].pc \in SendWindow =>
          /\ SpentAfter(worker'[x].version, worker'[x].token) /\ worker'[x].version # job.version
          /\ \A e \in exposures : e.version # worker'[x].version
          /\ \A y \in Workers \ {w} : worker'[y].pc \in SendWindow /\ worker'[y].version = worker'[x].version
                                        => y = x
    BY <1>3, <2>2 DEF Inv, DeliveryInv, VersionsSpent, InWindow
  <2>6. \A x \in Workers : worker'[x].pc \in SendWindow =>
          /\ SpentAfter(worker'[x].version, worker'[x].token)
          /\ \A e \in exposures : e.version # worker'[x].version
          /\ \A y \in Workers : worker'[y].pc \in SendWindow /\ worker'[y].version = worker'[x].version
                                  => y = x
    BY <1>1, <1>3, <2>3, <2>4, <2>5
  <2> QED BY <1>4, <2>4, <2>6 DEF VersionsSpent, InWindow, Spent, SpentAfter
<1> QED BY <1>4, <1>5, <1>6, <1>7, <1>8, <1>9 DEF Inv, DeliveryInv, NeverSentTwice

\* A reply that is exposed is the only one of its version.
LEMMA ExposeKeeps ==
    ASSUME Inv, NEW w \in Workers, worker[w].pc = "wire",
           exposures' = exposures \cup {Exposure(w)},
           Goto(w, "record") \/ GiveUp(w, "fail", "DELIVERY_UNKNOWN"),
           UNCHANGED <<controlVars, job, claims>>
    PROVE  DeliveryInv' /\ NeverSentTwice'
<1>0. QueueTypes /\ worker[w] \in WorkerStates
  BY DEF Inv, Types, QueueTypes
<1>1. Busy(w) /\ InWindow(w)
  BY DEF Busy, InWindow, SendWindow
<1>2. /\ worker'[w].token = worker[w].token /\ worker'[w].version = worker[w].version
      /\ \/ worker'[w].pc = "record"
         \/ worker'[w].pc = "fail" /\ worker'[w].outcome = "DELIVERY_UNKNOWN"
      /\ \A x \in Workers \ {w} : worker'[x] = worker[x]
  BY <1>0 DEF Goto, GiveUp, QueueTypes, WorkerStates
<1>3. UNCHANGED <<conv, handler>>
  BY DEF controlVars
<1>4. /\ Exposure(w).token = worker[w].token /\ Exposure(w).version = worker[w].version
      /\ \A e \in exposures' : e \in exposures \/ e = Exposure(w)
  BY DEF Exposure
<1>5. TokensFresh'
  BY <1>1, <1>2, <1>4 DEF Inv, DeliveryInv, TokensFresh, Busy
<1>6. VersionsQueued'
  BY <1>1, <1>2, <1>3, <1>4 DEF Inv, DeliveryInv, VersionsQueued, Busy
<1>7. LeaseAgrees'
  BY <1>2 DEF Inv, DeliveryInv, LeaseAgrees, Busy, Holds, InWindow, BeforeSend, SendWindow
<1>8. OutcomesHonest'
  <2>1. \A e \in exposures : e.token # worker[w].token
    BY <1>1 DEF Inv, DeliveryInv, OutcomesHonest, AfterSend
  <2>2. \A x \in Workers \ {w} : Busy(x) => worker[x].token # worker[w].token
    BY <1>1 DEF Inv, DeliveryInv, TokensFresh
  <2>3. \A x \in Workers \ {w} : \A e \in exposures' : Busy(x) /\ e.token = worker[x].token => e \in exposures
    BY <1>4, <2>2
  <2>4. \A e \in exposures' : e.token = worker[w].token => e.version = worker[w].version
    BY <1>4, <2>1
  <2> QED BY <1>2, <2>3, <2>4 DEF Inv, DeliveryInv, OutcomesHonest, Busy, AfterSend
<1>9. VersionsSpent' /\ NeverSentTwice'
  <2>1. \A x \in Workers \ {w} : InWindow(x) => worker[x].version # worker[w].version
    BY <1>1 DEF Inv, DeliveryInv, VersionsSpent
  <2>2. \A e \in exposures : e.version # worker[w].version
    BY <1>1 DEF Inv, DeliveryInv, VersionsSpent
  <2>3. ~InWindow(w)'
    BY <1>2 DEF InWindow, SendWindow
  <2>4. NeverSentTwice'
    BY <1>4, <2>2 DEF Inv, NeverSentTwice
  <2>5. \A x \in Workers : InWindow(x)' => x # w /\ InWindow(x) /\ worker'[x] = worker[x]
    BY <1>2, <2>3 DEF InWindow
  <2>6. VersionsSpent'
    BY <1>1, <1>4, <2>1, <2>5 DEF Inv, DeliveryInv, VersionsSpent, Spent
  <2> QED BY <2>4, <2>6
<1> QED BY <1>5, <1>6, <1>7, <1>8, <1>9 DEF DeliveryInv

\* A claim hands out a version that is not spent under a token that is new.
LEMMA ClaimKeeps ==
    ASSUME Inv, NEW w \in Workers, Claim(w) PROVE DeliveryInv' /\ NeverSentTwice'
<1>0. QueueTypes /\ job \in Jobs /\ claims \in Nat
  BY DEF Inv, Types, QueueTypes
<1>1. Swept(job) \in Jobs /\ Swept(job).version = job.version
  BY <1>0, SweptFields
<1>2. job.status \in Claimable \cup {"PROCESSING"}
  BY <1>0, SweptFields DEF Claim, Claimable
<1>3. /\ job'.status = "PROCESSING" /\ job'.token = claims + 1 /\ job'.version = job.version
  <2> DEFINE j == Swept(job)
  <2>1. j \in Jobs /\ j.version = job.version
    BY <1>1
  <2>2. job' = [j EXCEPT !.status = "PROCESSING", !.attempts = @ + 1,
                         !.token = claims + 1, !.expired = FALSE]
    BY DEF Claim
  <2> HIDE DEF j
  <2> QED BY <2>1, <2>2 DEF Jobs
<1>4. /\ worker'[w].pc = "check" /\ worker'[w].token = claims + 1 /\ worker'[w].version = job.version
      /\ \A x \in Workers \ {w} : worker'[x] = worker[x]
  <2> DEFINE n == Swept(job).attempts + 1
  <2>1. worker' = [worker EXCEPT ![w] =
                     [pc |-> "check", token |-> claims + 1, version |-> job.version,
                      attempt |-> n, result |-> job.result,
                      tag |-> 0, text |-> 0, outcome |-> "COMPLETED"]]
    BY DEF Claim
  <2> HIDE DEF n
  <2> QED BY <1>0, <2>1 DEF QueueTypes
<1>5. UNCHANGED <<conv, handler, exposures>> /\ claims' = claims + 1
  BY DEF Claim, controlVars
<1>6. job.version \in Versions /\ handler[job.version] = "queued"
  BY <1>2 DEF Inv, DeliveryInv, VersionsQueued, Claimable
<1>7. TokensFresh'
  BY <1>0, <1>3, <1>4, <1>5 DEF Inv, DeliveryInv, TokensFresh, Busy
<1>8. VersionsQueued'
  BY <1>3, <1>4, <1>5, <1>6 DEF Inv, DeliveryInv, VersionsQueued, Busy, Versions
<1>9. LeaseAgrees'
  <2>1. ASSUME NEW x \in Workers, Busy(x)', Holds(x)' PROVE x = w
    BY <1>0, <1>3, <1>4, <2>1 DEF Inv, DeliveryInv, TokensFresh, Busy, Holds
  <2> QED BY <1>3, <1>4, <2>1 DEF LeaseAgrees, InWindow, SendWindow
<1>10. OutcomesHonest'
  <2>1. \A e \in exposures : e.token # claims + 1
    BY <1>0 DEF Inv, DeliveryInv, TokensFresh
  <2> QED BY <1>4, <1>5, <2>1 DEF Inv, DeliveryInv, OutcomesHonest, Busy
<1>11. VersionsSpent'
  <2>1. ASSUME NEW v, NEW token, Spent(v, token) PROVE SpentAfter(v, token)
    BY <1>2, <1>3, <2>1 DEF Spent, SpentAfter, Settled, Claimable
  <2>2. \A x \in Workers : InWindow(x)' => InWindow(x) /\ worker'[x] = worker[x]
    BY <1>4 DEF InWindow, SendWindow
  <2>3. \A e \in exposures : SpentAfter(e.version, e.token)
    BY <2>1 DEF Inv, DeliveryInv, VersionsSpent
  <2>4. \A x \in Workers : worker'[x].pc \in SendWindow =>
          /\ SpentAfter(worker'[x].version, worker'[x].token)
          /\ \A e \in exposures : e.version # worker'[x].version
          /\ \A y \in Workers : worker'[y].pc \in SendWindow /\ worker'[y].version = worker'[x].version
                                  => y = x
    BY <2>1, <2>2 DEF Inv, DeliveryInv, VersionsSpent, InWindow
  <2> QED BY <1>5, <2>3, <2>4 DEF VersionsSpent, InWindow, Spent, SpentAfter
<1> QED BY <1>5, <1>7, <1>8, <1>9, <1>10, <1>11 DEF Inv, DeliveryInv, NeverSentTwice

\* Every other step of a worker only advances it, and keeps or releases the job.
LEMMA WorkerKeeps ==
    ASSUME Inv, NEW w \in Workers, WorkerStep(w) PROVE DeliveryInv' /\ NeverSentTwice'
<1>0. /\ Types /\ QueueTypes /\ ControlTypeOK /\ DeliveryInv /\ NeverSentTwice
      /\ job \in Jobs /\ worker[w] \in WorkerStates
  BY DEF Inv, Types, QueueTypes, ControlInv
<1>1. conv' \in {conv, Escalated(conv), HandedOff(conv)} /\ handler' = handler /\ claims' = claims
  BY DEF WorkerStep, Check, Lookup, AgentEscalates, AgentReplies, AgentStops, AgentThrows,
         SaveReply, AttachReply, Guard, MarkSending, StartSend, CheckConsent, CallProvider,
         RecordSent, FinishAiResponse, HandOffQuote, Discard, Settle, Fail, controlVars
<1>2. HandlersAdvance
  <2>1. conv'.version = conv.version /\ conv.version \in Nat
    BY <1>0, <1>1 DEF ControlTypeOK, Escalated, HandedOff
  <2> QED BY <1>0, <1>1, <2>1, VersionGrows DEF DeliveryInv
<1>3. ASSUME WorkersAdvance, JobKept \/ JobReleased, exposures' = exposures
      PROVE  DeliveryInv' /\ NeverSentTwice'
  BY <1>0, <1>1, <1>2, <1>3, AdvanceKeeps
<1>4. job' = job => JobKept
  BY DEF JobKept
<1>5. Renew(w) => JobKept
  BY <1>0, RenewKeeps
<1>6. "CANCELLED" \in Settled /\ "COMPLETED" \in Settled /\ {"discard", "settle", "fail"} \subseteq GivingUp
  BY DEF Settled, GivingUp
<1>7. CASE Check(w)
  BY <1>7, <1>0, <1>3, <1>4, <1>6, GotoAdvances, GiveUpAdvances
     DEF Check, BeforeSend, Exposed, AfterSend
<1>8. CASE Lookup(w)
  <2>1. ASSUME NEW r,
               worker' = [worker EXCEPT ![w].pc = "guard1", ![w].result = r.id,
                                        ![w].tag = r.version, ![w].text = r.text]
        PROVE  WorkersAdvance
    <3> DEFINE new == [worker[w] EXCEPT !.pc = "guard1", !.result = r.id, !.tag = r.version,
                                        !.text = r.text]
    <3>1. new.pc = "guard1" /\ new.token = worker[w].token /\ new.version = worker[w].version
      BY <1>0 DEF WorkerStates
    <3>2. worker' = [worker EXCEPT ![w] = new]
      BY <2>1
    <3> HIDE DEF new
    <3>3. StateAdvances(worker[w], new)
      BY <1>8, <3>1 DEF Lookup, StateAdvances, Exposed, BeforeSend, SendWindow, AfterSend
    <3> QED BY <1>0, <3>2, <3>3, OneAdvances
  <2> QED BY <1>8, <1>0, <1>3, <1>4, <2>1, GotoAdvances DEF Lookup, BeforeSend
<1>9. CASE AgentEscalates(w)
  <2>1. WorkersAdvance
    BY <1>9 DEF AgentEscalates, WorkersAdvance, StateAdvances
  <2> QED BY <1>9, <1>3, <1>5, <2>1 DEF AgentEscalates
<1>10. CASE AgentReplies(w)
  BY <1>10, <1>0, <1>3, <1>5, <1>6, GotoAdvances, GiveUpAdvances
     DEF AgentReplies, BeforeSend, Exposed, AfterSend
<1>11. CASE AgentStops(w)
  BY <1>11, <1>0, <1>3, <1>5, <1>6, GiveUpAdvances DEF AgentStops, Exposed, AfterSend
<1>12. CASE AgentThrows(w)
  BY <1>12, <1>0, <1>3, <1>4, <1>6, GiveUpAdvances DEF AgentThrows, Exposed, AfterSend
<1>13. CASE SaveReply(w)
  <2> DEFINE new == [worker[w] EXCEPT !.pc = "attach", !.result = worker[w].token,
                                      !.tag = worker[w].version, !.text = worker[w].version]
  <2>1. new.pc = "attach" /\ new.token = worker[w].token /\ new.version = worker[w].version
    BY <1>0 DEF WorkerStates
  <2>2. worker' = [worker EXCEPT ![w] = new] /\ UNCHANGED <<job, exposures>>
    BY <1>13 DEF SaveReply
  <2> HIDE DEF new
  <2>3. StateAdvances(worker[w], new)
    BY <1>13, <2>1 DEF SaveReply, StateAdvances, Exposed, BeforeSend, SendWindow, AfterSend
  <2> QED BY <1>0, <1>3, <1>4, <2>2, <2>3, OneAdvances
<1>14. CASE AttachReply(w)
  <2>1. JobKept
    BY <1>14, <1>0 DEF AttachReply, UpdateClaimed, Jobs, JobKept
  <2> QED BY <1>14, <1>0, <1>3, <2>1, GotoAdvances, FreeAdvances DEF AttachReply, BeforeSend
<1>15. ASSUME NEW here, NEW next, Guard(w, here, next),
              \/ here \in BeforeSend /\ next \in BeforeSend
              \/ here \in SendWindow /\ next \in SendWindow
       PROVE  DeliveryInv' /\ NeverSentTwice'
  BY <1>15, <1>0, <1>3, <1>5, <1>6, StepsApart, GotoAdvances, GiveUpAdvances
     DEF Guard, Exposed, BeforeSend, SendWindow, AfterSend
<1>16. CASE MarkSending(w)
  <2>1. CASE Holds(w)
    BY <1>16, <2>1, MarkKeeps
  <2>2. CASE ~Holds(w)
    <3>1. JobKept
      BY <1>16, <2>2 DEF MarkSending, UpdateClaimed, JobKept
    <3> QED BY <1>16, <2>2, <1>0, <1>3, <1>6, <3>1, GiveUpAdvances DEF MarkSending, Exposed, AfterSend
  <2> QED BY <2>1, <2>2
<1>17. CASE StartSend(w)
  BY <1>17, <1>0, <1>3, <1>4, <1>6, GotoAdvances, GiveUpAdvances
     DEF StartSend, SendWindow, Exposed, AfterSend
<1>18. CASE CheckConsent(w)
  BY <1>18, <1>0, <1>3, <1>4, <1>6, GotoAdvances, GiveUpAdvances
     DEF CheckConsent, SendWindow, Exposed, AfterSend
<1>19. CASE CallProvider(w)
  <2>1. CASE exposures' = exposures
    <3>1. \E outcome \in {"RETRY", "FAILED", "DELIVERY_UNKNOWN"} :
            Goto(w, "record") \/ GiveUp(w, "fail", outcome)
      BY <1>19 DEF CallProvider
    <3> QED BY <1>19, <2>1, <3>1, <1>0, <1>3, <1>4, <1>6, GotoAdvances, GiveUpAdvances
            DEF CallProvider, Exposed, AfterSend
  <2>2. CASE exposures' # exposures
    BY <1>19, <2>2, ExposeKeeps DEF CallProvider
  <2> QED BY <2>1, <2>2
<1>20. CASE RecordSent(w)
  BY <1>20, <1>0, <1>3, <1>4, <1>6, GotoAdvances, GiveUpAdvances DEF RecordSent, AfterSend
<1>21. CASE FinishAiResponse(w)
  <2>1. WorkersAdvance
    BY <1>21, <1>0, GotoAdvances DEF FinishAiResponse, AfterSend
  <2>2. CASE Holds(w) /\ job.status = "SENDING"
    <3>1. worker[w].version \in Nat
      BY <1>0 DEF WorkerStates
    <3>2. /\ job'.token = NoToken /\ job'.version = job.version
          /\ job'.status = IF job.version > worker[w].version THEN "PENDING" ELSE "COMPLETED"
      BY <1>21, <1>0, <2>2, <3>1, FinishedFields DEF FinishAiResponse
    <3>3. CASE job.version > worker[w].version
      <4>1. Busy(w) /\ ~InWindow(w) /\ job.token = worker[w].token
        BY <1>21, <2>2 DEF FinishAiResponse, Busy, InWindow, SendWindow, Holds
      <4>2. \A token : Spent(job.version, token) => token = worker[w].token
        BY <1>0, <2>2, <4>1 DEF Spent, Settled, Jobs
      <4>3. \A e \in exposures : e.version # job.version
        BY <1>0, <3>1, <3>3, <4>1, <4>2 DEF DeliveryInv, VersionsSpent, OutcomesHonest, Jobs
      <4>4. ASSUME NEW x \in Workers, InWindow(x), worker[x].version = job.version PROVE FALSE
        <5>1. worker[x].token = worker[w].token
          BY <1>0, <4>2, <4>4 DEF DeliveryInv, VersionsSpent
        <5>2. Busy(x)
          BY <4>4, StepsApart DEF Busy, InWindow
        <5> QED BY <1>0, <4>1, <4>4, <5>1, <5>2 DEF DeliveryInv, TokensFresh
      <4> QED BY <1>21, <1>3, <2>1, <2>2, <3>2, <3>3, <4>3, <4>4 DEF FinishAiResponse, JobReleased
    <3>4. CASE ~(job.version > worker[w].version)
      BY <1>21, <1>3, <1>6, <2>1, <2>2, <3>2, <3>4 DEF FinishAiResponse, JobReleased
    <3> QED BY <3>3, <3>4
  <2>3. CASE ~(Holds(w) /\ job.status = "SENDING")
    BY <1>21, <1>3, <1>4, <2>1, <2>3 DEF FinishAiResponse
  <2> QED BY <2>2, <2>3
<1>22. CASE HandOffQuote(w)
  BY <1>22, <1>0, <1>3, <1>4, FreeAdvances DEF HandOffQuote
<1>23. CASE Discard(w)
  <2> DEFINE new == [worker[w] EXCEPT !.pc = "settle"]
  <2>1. new.pc = "settle" /\ new.token = worker[w].token /\ new.version = worker[w].version
        /\ new.outcome = worker[w].outcome
    BY <1>0 DEF WorkerStates
  <2>2. worker' = [worker EXCEPT ![w] = new] /\ UNCHANGED <<job, exposures>>
    BY <1>23 DEF Discard, Goto
  <2>3. worker[w].outcome \in Settled /\ worker[w].pc = "discard"
    BY <1>23, <1>0 DEF Discard, DeliveryInv, OutcomesHonest
  <2> HIDE DEF new
  <2>4. StateAdvances(worker[w], new)
    BY <2>1, <2>3 DEF StateAdvances, Exposed, BeforeSend, SendWindow, AfterSend
  <2> QED BY <1>0, <1>3, <1>4, <2>2, <2>4, OneAdvances
<1>24. CASE Settle(w)
  <2>1. worker[w].outcome \in Settled /\ worker[w].outcome \in JobStatuses \ {"NONE"}
    BY <1>24, <1>0 DEF Settle, DeliveryInv, OutcomesHonest, JobStatuses, Settled
  <2>2. JobKept \/ JobReleased
    BY <1>24, <1>0, <2>1, ReleaseKeeps DEF Settle
  <2> QED BY <1>24, <1>0, <1>3, <2>2, FreeAdvances DEF Settle
<1>25. CASE Fail(w)
  <2> DEFINE status == IF worker[w].outcome = "RETRY" /\ worker[w].attempt >= MaxAttempts
                       THEN "FAILED" ELSE worker[w].outcome
  <2>1. status \in JobStatuses \ {"NONE"} /\ (status \in Settled \/ worker[w].outcome = "RETRY")
    BY <1>0 DEF WorkerStates, JobStatuses, Settled, Claimable
  <2>2. UpdateClaimed(w, Unlocked(job, status)) /\ worker[w].pc = "fail"
    BY <1>25 DEF Fail
  <2> HIDE DEF status
  <2>3. JobKept \/ JobReleased
    BY <1>0, <2>1, <2>2, ReleaseKeeps
  <2> QED BY <1>25, <1>0, <1>3, <2>3, FreeAdvances DEF Fail
<1>26. Guard(w, "guard1", "mark") \/ Guard(w, "guard2", "start") \/ Guard(w, "guard3", "consent")
         => DeliveryInv' /\ NeverSentTwice'
  <2>1. {"guard1", "mark"} \subseteq BeforeSend
        /\ {"guard2", "start", "guard3", "consent"} \subseteq SendWindow
    BY DEF BeforeSend, SendWindow
  <2> QED BY <1>15, <2>1
<1> QED
  BY <1>7, <1>8, <1>9, <1>10, <1>11, <1>12, <1>13, <1>14, <1>16, <1>17, <1>18, <1>19,
     <1>20, <1>21, <1>22, <1>23, <1>24, <1>25, <1>26 DEF WorkerStep

\* Outside the workers nothing exposes, claims or moves a worker.
LEMMA WorkersStill ==
    ASSUME Inv, worker' = worker, UNCHANGED <<claims, exposures>>, HandlersAdvance,
           JobKept \/ JobReleased
    PROVE  DeliveryInv' /\ NeverSentTwice'
<1>1. WorkersAdvance
  BY DEF WorkersAdvance, StateAdvances
<1> QED BY <1>1, AdvanceKeeps DEF Inv

\* Cancelling releases a job that was not handed over, or leaves it alone.
LEMMA CancelKeeps ==
    ASSUME QueueTypes, job' = CancelUndelivered(job) PROVE JobKept \/ JobReleased
<1>1. job \in Jobs
  BY DEF QueueTypes
<1> QED BY <1>1, CancelFields DEF JobKept, JobReleased, Claimable, Settled

\* The sweep settles a delivery whose lease ran out; only generations are retried.
LEMMA SweepKeeps ==
    ASSUME Inv, NEW w \in Workers, Sweep(w) PROVE DeliveryInv' /\ NeverSentTwice'
<1>1. job \in Jobs /\ job' = Swept(job) /\ job' # job /\ job'.status \notin Claimable
  BY DEF Inv, Types, QueueTypes, Sweep
<1>2. JobReleased
  BY <1>1, SweptFields DEF JobReleased, Claimable, Settled
<1>3. HandlersAdvance /\ worker' = worker /\ UNCHANGED <<claims, exposures>>
  BY DEF Sweep, controlVars, HandlersAdvance, Inv, DeliveryInv, VersionsQueued
<1> QED BY <1>2, <1>3, WorkersStill

\* A queued message carries a version that is newer than everything it replaces.
LEMMA EnqueueKeeps ==
    ASSUME Inv, NEW v \in Versions, EnqueueAiResponse(v) PROVE DeliveryInv' /\ NeverSentTwice'
<1>0. ControlTypeOK /\ job \in Jobs /\ v \in Nat /\ job.version \in Nat /\ job.token \in Nat
  BY DEF Inv, Types, ControlInv, QueueTypes, Jobs, Versions
<1>1. UNCHANGED <<conv, worker, claims, exposures>> /\ job' = Enqueued(job, v)
  BY DEF EnqueueAiResponse, HandlerMoves
<1>2. handler' = [handler EXCEPT ![v] = "queued"] /\ handler[v] = "enqueue"
  BY DEF EnqueueAiResponse, HandlerMoves
<1>3. /\ handler'[v] = "queued"
      /\ \A u \in Versions : u > conv.version => handler'[u] = "none"
      /\ \A u \in Versions : handler[u] = "queued" => handler'[u] = "queued"
  BY <1>0, <1>2 DEF ControlTypeOK, Inv, DeliveryInv, VersionsQueued
<1>4. HandlersAdvance
  BY <1>1, <1>3 DEF HandlersAdvance
<1>5. job.version # v
  BY <1>0, <1>2 DEF Inv, DeliveryInv, VersionsQueued, Versions
<1>6. CASE job.version > v
  <2>1. JobKept
    BY <1>0, <1>1, <1>6, EnqueuedFields DEF JobKept
  <2> QED BY <1>1, <1>4, <2>1, WorkersStill
<1>7. CASE job.version < v
  <2>1. /\ job'.version = v
        /\ \/ job.status = "SENDING" /\ job'.status = "SENDING" /\ job'.token = job.token
           \/ job'.status = "PENDING" /\ job'.token = NoToken
    BY <1>0, <1>1, <1>7, EnqueuedFields
  <2>2. TokensFresh'
    BY <1>0, <1>1, <2>1 DEF Inv, Types, QueueTypes, DeliveryInv, TokensFresh, Busy, NoToken
  <2>3. VersionsQueued'
    <3>1. \A u \in 1 .. job.version : u \in 1 .. v
      BY <1>0, <1>7
    <3> QED BY <1>1, <1>3, <2>1, <3>1 DEF Inv, DeliveryInv, VersionsQueued, Busy
  <2>4. LeaseAgrees'
    <3>1. ASSUME NEW w \in Workers, Busy(w)', Holds(w)' PROVE job'.status = "SENDING" /\ worker'[w].pc \notin BeforeSend
      BY <1>1, <2>1, <3>1 DEF Inv, DeliveryInv, LeaseAgrees, Busy, Holds, Leased
    <3> QED BY <3>1 DEF LeaseAgrees
  <2>5. OutcomesHonest'
    BY <1>1 DEF Inv, DeliveryInv, OutcomesHonest, Busy
  <2>6. VersionsSpent'
    <3>1. \A u, token : Spent(u, token) => u = job.version \/ job.version > u
      BY DEF Spent
    <3>2. \A e \in exposures : e.version \in 1 .. job.version
      BY DEF Inv, DeliveryInv, VersionsQueued
    <3>3. \A w \in Workers : InWindow(w) => worker[w].version \in 1 .. job.version
      BY StepsApart DEF Inv, DeliveryInv, VersionsQueued, InWindow, Busy
    <3>4. \A u \in 1 .. job.version : \A token : SpentAfter(u, token)
      BY <1>0, <1>7, <2>1 DEF SpentAfter
    <3> QED BY <1>1, <3>2, <3>3, <3>4 DEF Inv, DeliveryInv, VersionsSpent, InWindow, Spent, SpentAfter
  <2>7. NeverSentTwice'
    BY <1>1 DEF Inv, NeverSentTwice
  <2> QED BY <2>2, <2>3, <2>4, <2>5, <2>6, <2>7 DEF DeliveryInv
<1> QED BY <1>0, <1>5, <1>6, <1>7

\* Messages, staff and passing time at most cancel what was not handed over.
LEMMA BesideKeeps ==
    ASSUME Inv, LeaseExpires \/ Webhooks \/ Inbox PROVE DeliveryInv' /\ NeverSentTwice'
<1>0. ControlTypeOK /\ QueueTypes /\ VersionsQueued /\ job \in Jobs /\ conv.version \in Nat
  BY DEF Inv, Types, ControlInv, ControlTypeOK, QueueTypes, DeliveryInv
<1>1. job' = job => JobKept
  BY DEF JobKept
<1>2. ASSUME UNCHANGED queueVars, HandlersAdvance PROVE DeliveryInv' /\ NeverSentTwice'
  BY <1>1, <1>2, WorkersStill DEF queueVars
<1>3. ASSUME handler' = handler, conv'.version \in {conv.version, conv.version + 1}
      PROVE  HandlersAdvance
  BY <1>0, <1>3, VersionGrows
<1>4. ASSUME NEW v \in Versions, NEW to, handler[v] \notin {"none", "queued"}, conv'.version = conv.version,
             handler' = [handler EXCEPT ![v] = to]
      PROVE  HandlersAdvance
  BY <1>0, <1>4 DEF ControlTypeOK, VersionsQueued, HandlersAdvance
<1>5. CASE LeaseExpires
  <2>1. JobKept
    BY <1>0, <1>5 DEF LeaseExpires, JobKept, Jobs
  <2>2. HandlersAdvance
    BY <1>3, <1>5 DEF LeaseExpires, controlVars
  <2> QED BY <1>5, <2>1, <2>2, WorkersStill DEF LeaseExpires
<1>6. ASSUME NEW next, RecordInbound(next), UNCHANGED queueVars PROVE DeliveryInv' /\ NeverSentTwice'
  <2>1. conv'.version = conv.version + 1 /\ handler' = [handler EXCEPT ![conv.version + 1] = next]
    BY <1>0, <1>6 DEF RecordInbound, ControlTypeOK
  <2>2. \A v \in Versions : v > conv.version => handler[v] = "none"
    BY <1>0 DEF VersionsQueued
  <2>3. HandlersAdvance
    BY <1>0, <2>1, <2>2 DEF ControlTypeOK, HandlersAdvance, Versions
  <2> QED BY <1>2, <1>6, <2>3
<1>7. ASSUME NEW v \in Versions, Decide(v) PROVE DeliveryInv' /\ NeverSentTwice'
  <2>1. conv'.version = conv.version
    BY <1>0, <1>7 DEF Decide, DecideInbound, Reopened, ControlTypeOK
  <2>2. HandlersAdvance
    BY <1>4, <1>7, <2>1 DEF Decide, DecideInbound
  <2> QED BY <1>2, <1>7, <2>2 DEF Decide
<1>8. ASSUME NEW v \in Versions, StopCancels(v) \/ StopRevokes(v) \/ StartGrants(v) \/ HandlerDies(v)
      PROVE  DeliveryInv' /\ NeverSentTwice'
  <2>1. /\ UNCHANGED <<conv, worker, claims, exposures>>
        /\ handler[v] \notin {"none", "queued"}
        /\ \E to : handler' = [handler EXCEPT ![v] = to]
    BY <1>8 DEF StopCancels, StopRevokes, StartGrants, HandlerDies, HandlerMoves
  <2>2. JobKept \/ JobReleased
    BY <1>0, <1>1, <1>8, CancelKeeps DEF StopCancels, StopRevokes, StartGrants, HandlerDies
  <2> QED BY <1>4, <2>1, <2>2, WorkersStill
<1>9. ASSUME NEW s \in Staff, StaffCancels(s) PROVE DeliveryInv' /\ NeverSentTwice'
  BY <1>0, <1>3, <1>9, CancelKeeps, WorkersStill DEF StaffCancels, StaffCancel
<1>10. ASSUME NEW draft \in BOOLEAN, ChangeReplyMode(draft) PROVE DeliveryInv' /\ NeverSentTwice'
  <2>1. conv'.version = conv.version + 1 /\ handler' = handler
    BY <1>0, <1>10, Zenon DEF ChangeReplyMode, SetReplyMode, ControlTypeOK
  <2> QED BY <1>0, <1>3, <1>10, <2>1, CancelKeeps, WorkersStill DEF ChangeReplyMode
<1>11. ASSUME NEW s \in Staff, StaffElsewhere(s) PROVE DeliveryInv' /\ NeverSentTwice'
  <2>1. conv'.version \in {conv.version, conv.version + 1} /\ handler' = handler
    BY <1>0, <1>11 DEF StaffElsewhere, StaffRead, StaffWrite, StaffReplied, StaffEvent, ControlTypeOK
  <2> QED BY <1>2, <1>3, <1>11, <2>1 DEF StaffElsewhere
<1> QED
  BY <1>5, <1>6, <1>7, <1>8, <1>9, <1>10, <1>11, EnqueueKeeps
     DEF Webhooks, Inbox, ReceiveMessage, ReceiveKeyword

\* A dead worker holds nothing; the job keeps its lease.
LEMMA CrashKeeps ==
    ASSUME Inv, NEW w \in Workers, Crash(w) PROVE DeliveryInv' /\ NeverSentTwice'
<1>1. WorkersAdvance /\ JobKept /\ UNCHANGED <<claims, exposures>>
  BY FreeAdvances DEF Crash, Inv, Types, JobKept
<1>2. HandlersAdvance
  BY DEF Crash, controlVars, HandlersAdvance, Inv, DeliveryInv, VersionsQueued
<1> QED BY <1>1, <1>2, AdvanceKeeps DEF Inv

\* The invariant is inductive.
LEMMA StepInv == Inv /\ [Next]_vars => Inv'
<1> SUFFICES ASSUME Inv, [Next]_vars PROVE Inv'
  OBVIOUS
<1>1. Types'
  BY StepTypes DEF Inv
<1>2. DeliveryInv' /\ NeverSentTwice'
  <2>1. CASE UNCHANGED vars
    <3>1. WorkersAdvance /\ HandlersAdvance /\ JobKept /\ UNCHANGED <<claims, exposures>>
      BY <2>1 DEF vars, queueVars, controlVars, WorkersAdvance, StateAdvances, HandlersAdvance,
           JobKept, Inv, DeliveryInv, VersionsQueued
    <3> QED BY <3>1, AdvanceKeeps DEF Inv
  <2> QED BY <2>1, ClaimKeeps, SweepKeeps, WorkerKeeps, CrashKeeps, BesideKeeps DEF Next
<1> QED BY <1>1, <1>2 DEF Inv

LEMMA InitInv == Init => Inv
<1> SUFFICES ASSUME Init PROVE Inv
  OBVIOUS
<1>1. Types
  BY InitTypes
<1>2. DeliveryInv
  BY DEF Init, ControlInit, DeliveryInv, TokensFresh, VersionsQueued, LeaseAgrees, OutcomesHonest,
       VersionsSpent, Busy, InWindow, Free, NoToken, SendWindow
<1>3. NeverSentTwice
  BY DEF Init, NeverSentTwice
<1> QED BY <1>1, <1>2, <1>3 DEF Inv

\* For every number of workers, attempts, messages and staff requests, whatever
\* crashes or expires: the provider is handed at most one reply per version that
\* it may have delivered.
THEOREM NoVersionSentTwice == Spec => []NeverSentTwice
<1>1. Spec => []Inv
  BY InitInv, StepInv, PTL DEF Spec
<1>2. Inv => NeverSentTwice
  BY DEF Inv
<1> QED BY <1>1, <1>2, PTL

\* The facts that make it so: tokens are never reused, the holder of the lease
\* and the job agree, and every version in the send window is spent.
THEOREM DeliveryInvariant == Spec => []DeliveryInv
<1>1. Spec => []Inv
  BY InitInv, StepInv, PTL DEF Spec
<1>2. Inv => DeliveryInv
  BY DEF Inv
<1> QED BY <1>1, <1>2, PTL

-----------------------------------------------------------------------------
(* The books of the queue: attempts are bounded, and a completed job was     *)
(* answered.  A worker knows the attempt it holds, that its version was      *)
(* exposed once it is past the provider, and why it settles the job.         *)

BooksOf(w) ==
    /\ Busy(w) /\ Holds(w) => worker[w].attempt = job.attempts
    /\ worker[w].pc \in AfterSend => \E e \in exposures : e.version = worker[w].version
    /\ worker[w].pc = "fail" => worker[w].outcome # "COMPLETED"
    /\ worker[w].pc = "discard" => worker[w].outcome = "CANCELLED"
    /\ worker[w].pc = "settle" /\ worker[w].outcome = "COMPLETED" =>
         worker[w].version \in drafts /\ (Holds(w) => job.status = "PROCESSING")

JobBooks ==
    /\ AttemptsBounded /\ CompletedMeansAnswered
    /\ job.status \in Claimable => job.attempts < MaxAttempts

BooksInv == JobBooks /\ \A w \in Workers : BooksOf(w)

HistoryGrows == exposures \subseteq exposures' /\ drafts \subseteq drafts'

JobHeld == /\ job'.token = job.token /\ job'.status = job.status
           /\ job'.attempts = job.attempts /\ job'.version = job.version

LEMMA HeldBooks ==
    ASSUME JobBooks, JobHeld, HistoryGrows PROVE JobBooks'
BY DEF JobBooks, JobHeld, HistoryGrows, AttemptsBounded, CompletedMeansAnswered

\* One worker moves; nobody else comes to hold the lease.
LEMMA OneBooks ==
    ASSUME BooksInv, NEW w \in Workers, \A x \in Workers \ {w} : worker'[x] = worker[x],
           \A x \in Workers \ {w} : Busy(x) /\ Holds(x)' =>
             Holds(x) /\ job'.attempts = job.attempts /\ job'.status = job.status,
           HistoryGrows, JobBooks', BooksOf(w)'
    PROVE  BooksInv'
<1> SUFFICES ASSUME NEW x \in Workers, x # w PROVE BooksOf(x)'
  BY DEF BooksInv
<1>1. worker'[x] = worker[x] /\ BooksOf(x)
  BY DEF BooksInv
<1>2. worker[x].pc = "settle" => Busy(x)
  BY DEF Busy
<1> QED BY <1>1, <1>2 DEF BooksOf, Busy, HistoryGrows

\* The lease stays where it is, or is released.
LEMMA LeaseBooks ==
    ASSUME JobHeld \/ job'.token = NoToken, NEW x \in Workers, worker'[x].token = worker[x].token,
           Holds(x)'
    PROVE  Holds(x) /\ job'.attempts = job.attempts /\ job'.status = job.status
BY DEF JobHeld, Holds

LEMMA BesideBooks ==
    ASSUME BooksInv, worker' = worker, HistoryGrows, JobBooks',
           \/ job'.token = NoToken
           \/ job'.token = job.token /\ job'.status = job.status /\ job'.attempts = job.attempts
    PROVE  BooksInv'
<1> SUFFICES ASSUME NEW x \in Workers PROVE BooksOf(x)'
  BY DEF BooksInv
<1>1. BooksOf(x) /\ (Holds(x)' => Holds(x) /\ job'.attempts = job.attempts /\ job'.status = job.status)
  BY DEF BooksInv, Holds
<1> QED BY <1>1 DEF BooksOf, Busy, HistoryGrows

\* A worker goes on with its copies, or gives up for a reason.
LEMMA MoveBooks ==
    ASSUME BooksInv, QueueTypes, JobHeld, HistoryGrows, NEW w \in Workers, Busy(w), NEW new,
           worker' = [worker EXCEPT ![w] = new],
           new.token = worker[w].token, new.version = worker[w].version,
           new.attempt = worker[w].attempt,
           new.pc \in AfterSend => \E e \in exposures' : e.version = worker[w].version,
           new.pc = "fail" => new.outcome # "COMPLETED",
           new.pc = "discard" => new.outcome = "CANCELLED",
           new.pc = "settle" /\ new.outcome = "COMPLETED" =>
             worker[w].version \in drafts' /\ (Holds(w) => job.status = "PROCESSING")
    PROVE  BooksInv'
<1>1. worker'[w] = new /\ \A x \in Workers \ {w} : worker'[x] = worker[x]
  BY DEF QueueTypes
<1>2. JobBooks'
  BY HeldBooks DEF BooksInv
<1>3. Holds(w)' => Holds(w)
  BY <1>1, LeaseBooks
<1>4. BooksOf(w) /\ job'.attempts = job.attempts /\ job'.status = job.status
  BY DEF BooksInv, JobHeld
<1>5. BooksOf(w)'
  BY <1>1, <1>3, <1>4 DEF BooksOf, Busy
<1>6. \A x \in Workers \ {w} : Holds(x)' => Holds(x) /\ job'.attempts = job.attempts /\ job'.status = job.status
  BY <1>1, LeaseBooks
<1> QED BY <1>1, <1>2, <1>5, <1>6, OneBooks

LEMMA GotoBooks ==
    ASSUME BooksInv, QueueTypes, JobHeld, HistoryGrows, NEW w \in Workers, Busy(w), NEW pc,
           Goto(w, pc), pc \notin GivingUp,
           pc \in AfterSend => \E e \in exposures' : e.version = worker[w].version
    PROVE  BooksInv'
<1> DEFINE new == [worker[w] EXCEPT !.pc = pc]
<1>1. worker' = [worker EXCEPT ![w] = new] /\ worker[w] \in WorkerStates
  BY DEF Goto, QueueTypes
<1>2. new.pc = pc /\ new.token = worker[w].token /\ new.version = worker[w].version
      /\ new.attempt = worker[w].attempt
  BY <1>1 DEF WorkerStates
<1>3. pc \notin {"fail", "discard", "settle"}
  BY DEF GivingUp
<1> HIDE DEF new
<1> QED BY <1>1, <1>2, <1>3, MoveBooks

LEMMA GiveUpBooks ==
    ASSUME BooksInv, QueueTypes, JobHeld, HistoryGrows, NEW w \in Workers, Busy(w),
           NEW pc \in GivingUp, NEW outcome, GiveUp(w, pc, outcome),
           pc = "fail" => outcome # "COMPLETED", pc = "discard" => outcome = "CANCELLED",
           pc = "settle" /\ outcome = "COMPLETED" =>
             worker[w].version \in drafts' /\ (Holds(w) => job.status = "PROCESSING")
    PROVE  BooksInv'
<1> DEFINE new == [worker[w] EXCEPT !.pc = pc, !.outcome = outcome]
<1>1. worker' = [worker EXCEPT ![w] = new] /\ worker[w] \in WorkerStates
  BY DEF GiveUp, QueueTypes
<1>2. new.pc = pc /\ new.token = worker[w].token /\ new.version = worker[w].version
      /\ new.attempt = worker[w].attempt /\ new.outcome = outcome
  BY <1>1 DEF WorkerStates
<1>3. new.pc \notin AfterSend
  BY <1>2 DEF GivingUp, AfterSend
<1> HIDE DEF new
<1> QED BY <1>1, <1>2, <1>3, MoveBooks

\* A worker lets go of everything, and of the lease if it had one.
LEMMA FreeBooks ==
    ASSUME BooksInv, QueueTypes, HistoryGrows, NEW w \in Workers,
           worker' = [worker EXCEPT ![w] = Free],
           JobHeld \/ job'.token = NoToken, JobBooks'
    PROVE  BooksInv'
<1>1. worker'[w] = Free /\ \A x \in Workers \ {w} : worker'[x] = worker[x]
  BY DEF QueueTypes
<1>2. BooksOf(w)'
  BY <1>1 DEF BooksOf, Free, Busy, AfterSend
<1>3. \A x \in Workers \ {w} : Holds(x)' => Holds(x) /\ job'.attempts = job.attempts /\ job'.status = job.status
  BY <1>1, LeaseBooks
<1> QED BY <1>1, <1>2, <1>3, OneBooks

\* The holder of a lease finishes a delivery: answered, or due for a newer message.
LEMMA FinishBooks ==
    ASSUME Inv, BooksInv, NEW w \in Workers, FinishAiResponse(w) PROVE BooksInv'
<1>0. QueueTypes /\ job \in Jobs /\ worker[w] \in WorkerStates
  BY DEF Inv, Types, QueueTypes
<1>1. Busy(w) /\ Goto(w, "handoff") /\ HistoryGrows /\ \E e \in exposures : e.version = worker[w].version
  BY DEF FinishAiResponse, Busy, HistoryGrows, BooksInv, BooksOf, AfterSend
<1>2. CASE Holds(w) /\ job.status = "SENDING"
  <2>1. /\ job' = Finished(job, worker[w].version) /\ worker[w].version \in Nat
        /\ job.version \in Nat /\ job.attempts \in Nat
    BY <1>0, <1>2 DEF FinishAiResponse, WorkerStates, Jobs
  <2>2. /\ job'.token = NoToken /\ job'.version = job.version
        /\ job'.status = IF job.version > worker[w].version THEN "PENDING" ELSE "COMPLETED"
    BY <1>0, <2>1, FinishedFields
  <2>3. job'.attempts = IF job.version > worker[w].version THEN 0 ELSE job.attempts
    BY <1>0, <2>1, UnlockedFields DEF Finished, JobStatuses, Claimable, Settled, Jobs
  <2>4. worker[w].version <= job.version
    BY <1>0, <1>1 DEF Inv, DeliveryInv, VersionsQueued
  <2>5. JobBooks'
    BY <1>1, <2>1, <2>2, <2>3, <2>4, AttemptBound
       DEF BooksInv, JobBooks, AttemptsBounded, CompletedMeansAnswered, HistoryGrows, Claimable
  <2>6. /\ worker'[w] = [worker[w] EXCEPT !.pc = "handoff"]
        /\ \A x \in Workers \ {w} : worker'[x] = worker[x]
    BY <1>0, <1>1 DEF Goto, QueueTypes
  <2>7. worker'[w].pc = "handoff" /\ worker'[w].version = worker[w].version
    BY <1>0, <2>6 DEF WorkerStates
  <2>8. \A x \in Workers : ~Holds(x)'
    BY <2>2 DEF Holds
  <2>9. BooksOf(w)'
    BY <1>1, <2>7, <2>8 DEF BooksOf, HistoryGrows
  <2> QED BY <1>1, <2>5, <2>6, <2>8, <2>9, OneBooks
<1>3. CASE ~(Holds(w) /\ job.status = "SENDING")
  <2>1. JobHeld
    BY <1>3 DEF FinishAiResponse, JobHeld
  <2>2. "handoff" \notin GivingUp
    BY DEF GivingUp
  <2> QED BY <1>0, <1>1, <2>1, <2>2, GotoBooks DEF HistoryGrows
<1> QED BY <1>2, <1>3

\* The holder writes an outcome.
LEMMA ReleaseBooks ==
    ASSUME Inv, BooksInv, NEW w \in Workers, NEW status \in JobStatuses, HistoryGrows,
           UpdateClaimed(w, Unlocked(job, status)), worker' = [worker EXCEPT ![w] = Free],
           Holds(w) /\ status = "COMPLETED" =>
             job.version \in drafts \/ \E e \in exposures : e.version = job.version,
           Holds(w) /\ status \in Claimable => job.attempts < MaxAttempts
    PROVE  BooksInv'
<1>0. QueueTypes /\ job \in Jobs
  BY DEF Inv, Types, QueueTypes
<1>1. CASE ~Holds(w)
  <2>1. JobHeld
    BY <1>1 DEF UpdateClaimed, JobHeld
  <2>2. JobBooks'
    BY <2>1, HeldBooks DEF BooksInv
  <2> QED BY <1>0, <2>1, <2>2, FreeBooks
<1>2. CASE Holds(w)
  <2>1. /\ job'.status = status /\ job'.token = NoToken
        /\ job'.version = job.version /\ job'.attempts = job.attempts
    BY <1>0, <1>2, UnlockedFields DEF UpdateClaimed
  <2>2. JobBooks'
    BY <1>2, <2>1 DEF BooksInv, JobBooks, AttemptsBounded, CompletedMeansAnswered, HistoryGrows
  <2> QED BY <1>0, <2>1, <2>2, FreeBooks
<1> QED BY <1>1, <1>2

\* The sweep hands back only what has attempts left.
LEMMA SweptBooks ==
    ASSUME job \in Jobs, JobBooks
    PROVE  /\ Swept(job).attempts = job.attempts
           /\ Swept(job).status \in Claimable => job.attempts < MaxAttempts
           /\ Swept(job).status # "COMPLETED" \/ Swept(job) = job
<1> DEFINE due == IF job.attempts < MaxAttempts /\ \E r \in rows : r.version = job.version
                  THEN "RETRY" ELSE "FAILED"
<1>1. CASE job.status = "PROCESSING" /\ job.expired
  <2>1. /\ due \in JobStatuses /\ due # "COMPLETED"
        /\ due \in Claimable => job.attempts < MaxAttempts
    BY DEF JobStatuses, Claimable, Settled
  <2>2. Swept(job) = Unlocked(job, due)
    BY <1>1 DEF Swept
  <2> HIDE DEF due
  <2> QED BY <2>1, <2>2, UnlockedFields
<1>2. CASE job.status = "SENDING" /\ job.expired
  <2>1. Swept(job) = Unlocked(job, "DELIVERY_UNKNOWN")
    BY <1>2 DEF Swept
  <2>2. "DELIVERY_UNKNOWN" \in JobStatuses /\ "DELIVERY_UNKNOWN" \notin Claimable
    BY DEF JobStatuses, Settled, Claimable
  <2> QED BY <2>1, <2>2, UnlockedFields
<1>3. CASE ~(job.status = "PROCESSING" /\ job.expired) /\ ~(job.status = "SENDING" /\ job.expired)
  BY <1>3 DEF Swept, JobBooks
<1> QED BY <1>1, <1>2, <1>3

\* A claim spends an attempt that was left, under a token nobody has.
LEMMA ClaimBooks ==
    ASSUME Inv, BooksInv, NEW w \in Workers, Claim(w) PROVE BooksInv'
<1>0. QueueTypes /\ job \in Jobs /\ claims \in Nat /\ HistoryGrows /\ JobBooks
  BY DEF Inv, Types, QueueTypes, BooksInv, Claim, HistoryGrows
<1> DEFINE j == Swept(job)
<1>1. j \in Jobs /\ j.attempts = job.attempts /\ job.attempts < MaxAttempts
  BY <1>0, SweptFields, SweptBooks DEF Claim
<1>2. job' = [j EXCEPT !.status = "PROCESSING", !.attempts = @ + 1,
                       !.token = claims + 1, !.expired = FALSE]
  BY DEF Claim
<1>3. worker' = [worker EXCEPT ![w] =
                   [pc |-> "check", token |-> claims + 1, version |-> job.version,
                    attempt |-> j.attempts + 1, result |-> job.result,
                    tag |-> 0, text |-> 0, outcome |-> "COMPLETED"]]
  BY DEF Claim
<1> HIDE DEF j
<1>4. /\ job'.status = "PROCESSING" /\ job'.token = claims + 1
      /\ job'.attempts = job.attempts + 1 /\ job.attempts \in Nat
  BY <1>0, <1>1, <1>2 DEF Jobs
<1>5. /\ worker'[w].pc = "check" /\ worker'[w].attempt = job.attempts + 1
      /\ \A x \in Workers \ {w} : worker'[x] = worker[x]
  BY <1>0, <1>1, <1>3 DEF QueueTypes
<1>6. JobBooks'
  BY <1>1, <1>4, AttemptBound DEF JobBooks, AttemptsBounded, CompletedMeansAnswered, Claimable
<1>7. BooksOf(w)'
  BY <1>4, <1>5 DEF BooksOf, AfterSend
<1>8. \A x \in Workers \ {w} : Busy(x) => ~Holds(x)'
  BY <1>0, <1>4, <1>5 DEF Inv, DeliveryInv, TokensFresh, Holds
<1> QED BY <1>0, <1>5, <1>6, <1>7, <1>8, OneBooks

LEMMA SweepBooks ==
    ASSUME Inv, BooksInv, NEW w \in Workers, Sweep(w) PROVE BooksInv'
<1>1. job \in Jobs /\ job' = Swept(job) /\ job' # job /\ job'.status \notin Claimable
      /\ worker' = worker /\ HistoryGrows /\ JobBooks
  BY DEF Inv, Types, QueueTypes, Sweep, BooksInv, HistoryGrows
<1>2. job'.token = NoToken /\ job'.attempts = job.attempts /\ job'.status # "COMPLETED"
  BY <1>1, SweptFields, SweptBooks
<1>3. JobBooks'
  BY <1>1, <1>2 DEF JobBooks, AttemptsBounded, CompletedMeansAnswered
<1> QED BY <1>1, <1>2, <1>3, BesideBooks

\* The delivery starts: the lease and the attempt stay with the worker.
LEMMA MarkBooks ==
    ASSUME Inv, BooksInv, NEW w \in Workers, MarkSending(w) PROVE BooksInv'
<1>0. QueueTypes /\ job \in Jobs /\ worker[w] \in WorkerStates /\ Busy(w) /\ HistoryGrows
  BY DEF Inv, Types, QueueTypes, MarkSending, Busy, HistoryGrows
<1>1. CASE ~Holds(w)
  <2>1. JobHeld /\ "discard" \in GivingUp
    BY <1>1 DEF MarkSending, UpdateClaimed, JobHeld, GivingUp
  <2> QED BY <1>0, <1>1, <2>1, GiveUpBooks DEF MarkSending
<1>2. CASE Holds(w)
  <2>1. /\ job'.status = "SENDING" /\ job'.token = job.token /\ job'.attempts = job.attempts
        /\ job.token = worker[w].token
    BY <1>0, <1>2 DEF MarkSending, UpdateClaimed, Jobs, Holds
  <2>2. /\ worker'[w].pc = "guard2" /\ worker'[w].attempt = worker[w].attempt
        /\ \A x \in Workers \ {w} : worker'[x] = worker[x]
    BY <1>0, <1>2 DEF MarkSending, Goto, QueueTypes, WorkerStates
  <2>3. JobBooks'
    BY <2>1 DEF BooksInv, JobBooks, AttemptsBounded, CompletedMeansAnswered, Claimable
  <2>4. BooksOf(w)'
    BY <1>0, <1>2, <2>1, <2>2 DEF BooksInv, BooksOf, AfterSend
  <2>5. \A x \in Workers \ {w} : Busy(x) => ~Holds(x)'
    BY <1>0, <2>1, <2>2 DEF Inv, DeliveryInv, TokensFresh, Holds
  <2> QED BY <1>0, <2>2, <2>3, <2>4, <2>5, OneBooks
<1> QED BY <1>1, <1>2

\* Renewing the lease changes nothing in the books.
LEMMA RenewHeld ==
    ASSUME job \in Jobs, NEW w \in Workers, Renew(w) PROVE JobHeld
BY DEF Renew, UpdateClaimed, JobHeld, Jobs

\* Each step of a worker keeps the books.
LEMMA WorkerBooks ==
    ASSUME Inv, BooksInv, NEW w \in Workers, WorkerStep(w) PROVE BooksInv'
<1>0. QueueTypes /\ job \in Jobs /\ worker[w] \in WorkerStates /\ DeliveryInv /\ BooksOf(w)
  BY DEF Inv, Types, QueueTypes, BooksInv
<1>1. /\ {"discard", "settle", "fail"} \subseteq GivingUp
      /\ \A pc \in {"lookup", "agent", "save", "attach", "guard1", "mark", "guard2", "start",
                    "guard3", "consent", "wire"} : pc \notin GivingUp /\ pc \notin AfterSend
      /\ \A pc \in {"record", "finish", "handoff"} : pc \notin GivingUp /\ pc \in AfterSend
  BY DEF GivingUp, AfterSend
<1>2. job' = job => JobHeld
  BY DEF JobHeld
<1>3. Renew(w) => JobHeld
  BY <1>0, RenewHeld
<1>4. CASE Check(w)
  <2>1. JobHeld /\ HistoryGrows /\ Busy(w)
    BY <1>2, <1>4 DEF Check, HistoryGrows, Busy
  <2> QED BY <1>0, <1>1, <1>4, <2>1, GotoBooks, GiveUpBooks DEF Check
<1>5. CASE Lookup(w)
  <2>1. JobHeld /\ HistoryGrows /\ Busy(w)
    BY <1>2, <1>5 DEF Lookup, HistoryGrows, Busy
  <2>2. ASSUME NEW r,
               worker' = [worker EXCEPT ![w].pc = "guard1", ![w].result = r.id,
                                        ![w].tag = r.version, ![w].text = r.text]
        PROVE  BooksInv'
    <3> DEFINE new == [worker[w] EXCEPT !.pc = "guard1", !.result = r.id, !.tag = r.version,
                                        !.text = r.text]
    <3>1. new.pc = "guard1" /\ new.token = worker[w].token /\ new.version = worker[w].version
          /\ new.attempt = worker[w].attempt
      BY <1>0 DEF WorkerStates
    <3>2. worker' = [worker EXCEPT ![w] = new]
      BY <2>2
    <3> HIDE DEF new
    <3> QED BY <1>0, <1>1, <2>1, <3>1, <3>2, MoveBooks
  <2> QED BY <1>0, <1>1, <1>5, <2>1, <2>2, GotoBooks DEF Lookup
<1>6. CASE AgentEscalates(w)
  <2>1. JobHeld /\ HistoryGrows /\ worker' = worker
    BY <1>3, <1>6 DEF AgentEscalates, HistoryGrows
  <2>2. JobBooks'
    BY <2>1, HeldBooks DEF BooksInv
  <2> QED BY <2>1, <2>2, BesideBooks DEF JobHeld
<1>7. CASE AgentReplies(w)
  <2>1. JobHeld /\ HistoryGrows /\ Busy(w) /\ worker[w].pc \in BeforeSend /\ Holds(w)
    BY <1>3, <1>7 DEF AgentReplies, HistoryGrows, Busy, BeforeSend, Allowed
  <2>2. job.status = "PROCESSING"
    BY <1>0, <2>1 DEF DeliveryInv, LeaseAgrees
  <2>3. CASE conv.draft
    <3>1. GiveUp(w, "settle", "COMPLETED") /\ worker[w].version \in drafts'
      BY <1>7, <2>3 DEF AgentReplies
    <3> QED BY <1>0, <1>1, <2>1, <2>2, <3>1, GiveUpBooks
  <2>4. CASE ~conv.draft
    BY <1>0, <1>1, <1>7, <2>1, <2>4, GotoBooks DEF AgentReplies
  <2> QED BY <2>3, <2>4
<1>8. CASE AgentStops(w)
  <2>1. JobHeld /\ HistoryGrows /\ Busy(w)
    BY <1>3, <1>8 DEF AgentStops, HistoryGrows, Busy
  <2> QED BY <1>0, <1>1, <1>8, <2>1, GiveUpBooks DEF AgentStops
<1>9. CASE AgentThrows(w)
  <2>1. JobHeld /\ HistoryGrows /\ Busy(w)
    BY <1>2, <1>9 DEF AgentThrows, HistoryGrows, Busy
  <2> QED BY <1>0, <1>1, <1>9, <2>1, GiveUpBooks DEF AgentThrows
<1>10. CASE SaveReply(w)
  <2> DEFINE new == [worker[w] EXCEPT !.pc = "attach", !.result = worker[w].token,
                                      !.tag = worker[w].version, !.text = worker[w].version]
  <2>1. new.pc = "attach" /\ new.token = worker[w].token /\ new.version = worker[w].version
        /\ new.attempt = worker[w].attempt
    BY <1>0 DEF WorkerStates
  <2>2. worker' = [worker EXCEPT ![w] = new] /\ JobHeld /\ HistoryGrows /\ Busy(w)
    BY <1>2, <1>10 DEF SaveReply, HistoryGrows, Busy
  <2> HIDE DEF new
  <2> QED BY <1>0, <1>1, <2>1, <2>2, MoveBooks
<1>11. CASE AttachReply(w)
  <2>1. JobHeld /\ HistoryGrows /\ Busy(w)
    BY <1>0, <1>11 DEF AttachReply, UpdateClaimed, Jobs, JobHeld, HistoryGrows, Busy
  <2>2. JobBooks'
    BY <2>1, HeldBooks DEF BooksInv
  <2> QED BY <1>0, <1>1, <1>11, <2>1, <2>2, GotoBooks, FreeBooks DEF AttachReply
<1>12. ASSUME NEW here, NEW next, Guard(w, here, next), here # "idle",
              next \notin GivingUp, next \notin AfterSend
       PROVE  BooksInv'
  <2>1. JobHeld /\ HistoryGrows /\ Busy(w)
    BY <1>3, <1>12 DEF Guard, HistoryGrows, Busy
  <2> QED BY <1>0, <1>1, <1>12, <2>1, GotoBooks, GiveUpBooks DEF Guard
<1>13. Guard(w, "guard1", "mark") \/ Guard(w, "guard2", "start") \/ Guard(w, "guard3", "consent")
         => BooksInv'
  BY <1>1, <1>12
<1>14. CASE StartSend(w)
  <2>1. JobHeld /\ HistoryGrows /\ Busy(w)
    BY <1>2, <1>14 DEF StartSend, HistoryGrows, Busy
  <2> QED BY <1>0, <1>1, <1>14, <2>1, GotoBooks, GiveUpBooks DEF StartSend
<1>15. CASE CheckConsent(w)
  <2>1. JobHeld /\ HistoryGrows /\ Busy(w)
    BY <1>2, <1>15 DEF CheckConsent, HistoryGrows, Busy
  <2> QED BY <1>0, <1>1, <1>15, <2>1, GotoBooks, GiveUpBooks DEF CheckConsent
<1>16. CASE CallProvider(w)
  <2>1. JobHeld /\ HistoryGrows /\ Busy(w)
    BY <1>2, <1>16 DEF CallProvider, HistoryGrows, Busy
  <2>2. CASE Goto(w, "record") /\ exposures' = exposures \cup {Exposure(w)}
    <3>1. Exposure(w).version = worker[w].version /\ Exposure(w) \in exposures'
      BY <2>2 DEF Exposure
    <3>2. \E e \in exposures' : e.version = worker[w].version
      BY <3>1
    <3> QED BY <1>0, <1>1, <2>1, <2>2, <3>2, GotoBooks
  <2>3. ASSUME NEW outcome \in {"RETRY", "FAILED", "DELIVERY_UNKNOWN"}, GiveUp(w, "fail", outcome)
        PROVE  BooksInv'
    BY <1>0, <1>1, <2>1, <2>3, GiveUpBooks
  <2> QED BY <1>16, <2>2, <2>3 DEF CallProvider
<1>17. CASE RecordSent(w)
  <2>1. JobHeld /\ HistoryGrows /\ Busy(w)
    BY <1>2, <1>17 DEF RecordSent, HistoryGrows, Busy
  <2>2. \E e \in exposures' : e.version = worker[w].version
    BY <1>0, <1>1, <1>17, <2>1 DEF RecordSent, BooksOf, HistoryGrows
  <2> QED BY <1>0, <1>1, <1>17, <2>1, <2>2, GotoBooks, GiveUpBooks DEF RecordSent
<1>18. CASE HandOffQuote(w)
  <2>1. JobHeld /\ HistoryGrows /\ worker' = [worker EXCEPT ![w] = Free]
    BY <1>2, <1>18 DEF HandOffQuote, HistoryGrows
  <2>2. JobBooks'
    BY <2>1, HeldBooks DEF BooksInv
  <2> QED BY <1>0, <2>1, <2>2, FreeBooks
<1>19. CASE Discard(w)
  <2> DEFINE new == [worker[w] EXCEPT !.pc = "settle"]
  <2>1. new.pc = "settle" /\ new.token = worker[w].token /\ new.version = worker[w].version
        /\ new.attempt = worker[w].attempt /\ new.outcome = worker[w].outcome
    BY <1>0 DEF WorkerStates
  <2>2. worker' = [worker EXCEPT ![w] = new] /\ JobHeld /\ HistoryGrows /\ Busy(w)
        /\ worker[w].outcome = "CANCELLED"
    BY <1>0, <1>2, <1>19 DEF Discard, Goto, HistoryGrows, Busy, BooksOf
  <2>3. "settle" \notin AfterSend
    BY DEF AfterSend
  <2> HIDE DEF new
  <2> QED BY <1>0, <2>1, <2>2, <2>3, MoveBooks
<1>20. CASE Settle(w)
  <2>1. worker[w].outcome \in Settled /\ worker[w].outcome \in JobStatuses
        /\ worker[w].outcome \notin Claimable
    BY <1>0, <1>20 DEF Settle, DeliveryInv, OutcomesHonest, JobStatuses, Settled, Claimable
  <2>2. HistoryGrows /\ UpdateClaimed(w, Unlocked(job, worker[w].outcome))
        /\ worker' = [worker EXCEPT ![w] = Free] /\ Busy(w) /\ worker[w].pc = "settle"
    BY <1>20 DEF Settle, HistoryGrows, Busy
  <2>3. Holds(w) /\ worker[w].outcome = "COMPLETED" => job.version \in drafts
    BY <1>0, <2>2 DEF BooksOf, DeliveryInv, LeaseAgrees
  <2> QED BY <2>1, <2>2, <2>3, ReleaseBooks
<1>21. CASE Fail(w)
  <2> DEFINE status == IF worker[w].outcome = "RETRY" /\ worker[w].attempt >= MaxAttempts
                       THEN "FAILED" ELSE worker[w].outcome
  <2>1. HistoryGrows /\ UpdateClaimed(w, Unlocked(job, status))
        /\ worker' = [worker EXCEPT ![w] = Free] /\ Busy(w) /\ worker[w].pc = "fail"
    BY <1>21 DEF Fail, HistoryGrows, Busy
  <2>2. status \in JobStatuses /\ status # "COMPLETED"
    BY <1>0, <2>1 DEF WorkerStates, JobStatuses, Settled, Claimable, BooksOf
  <2>3. status \in Claimable => worker[w].attempt < MaxAttempts
    BY <1>0, AttemptBound DEF Claimable, WorkerStates, Settled
  <2>4. Holds(w) => worker[w].attempt = job.attempts
    BY <1>0, <2>1 DEF BooksOf
  <2> HIDE DEF status
  <2> QED BY <2>1, <2>2, <2>3, <2>4, ReleaseBooks
<1> QED
  BY <1>4, <1>5, <1>6, <1>7, <1>8, <1>9, <1>10, <1>11, <1>13, <1>14, <1>15, <1>16, <1>17,
     <1>18, <1>19, <1>20, <1>21, MarkBooks, FinishBooks DEF WorkerStep

\* Cancelling what was not sent costs no attempt and completes nothing.
LEMMA CancelBooks ==
    ASSUME QueueTypes, BooksInv, job' = CancelUndelivered(job), worker' = worker, HistoryGrows
    PROVE  BooksInv'
<1>1. job \in Jobs /\ JobBooks
  BY DEF QueueTypes, BooksInv
<1>2. CASE job.status \in Claimable \cup {"PROCESSING"}
  <2>1. job' = Unlocked(job, "CANCELLED") /\ "CANCELLED" \in JobStatuses
    BY <1>2 DEF CancelUndelivered, JobStatuses, Settled
  <2>2. job'.status = "CANCELLED" /\ job'.token = NoToken /\ job'.attempts = job.attempts
    BY <1>1, <2>1, UnlockedFields
  <2>3. JobBooks'
    BY <1>1, <2>2 DEF JobBooks, AttemptsBounded, CompletedMeansAnswered, Claimable
  <2> QED BY <2>2, <2>3, BesideBooks
<1>3. CASE job.status \notin Claimable \cup {"PROCESSING"}
  <2>1. job' = job
    BY <1>3 DEF CancelUndelivered
  <2>2. JobBooks'
    BY <1>1, <2>1, HeldBooks DEF JobHeld
  <2> QED BY <2>1, <2>2, BesideBooks
<1> QED BY <1>2, <1>3

\* A newer message starts a new count, or is merged into the delivery.
LEMMA EnqueueBooks ==
    ASSUME QueueTypes, BooksInv, NEW v \in Versions, job' = Enqueued(job, v), worker' = worker,
           HistoryGrows
    PROVE  BooksInv'
<1>1. JobBooks
  BY DEF BooksInv
<1>2. CASE job.version > v
  <2>1. job' = job
    BY <1>2 DEF Enqueued
  <2>2. JobBooks'
    BY <1>1, <2>1, HeldBooks DEF JobHeld
  <2> QED BY <2>1, <2>2, BesideBooks
<1>3. CASE ~(job.version > v) /\ job.status = "SENDING"
  <2>1. job' = [job EXCEPT !.version = v]
    BY <1>3 DEF Enqueued
  <2>2. job'.status = "SENDING" /\ job'.token = job.token /\ job'.attempts = job.attempts
    BY <1>3, <2>1 DEF QueueTypes, Jobs
  <2>3. JobBooks'
    BY <1>1, <2>2 DEF JobBooks, AttemptsBounded, CompletedMeansAnswered, Claimable
  <2> QED BY <1>3, <2>2, <2>3, BesideBooks
<1>4. CASE ~(job.version > v) /\ job.status # "SENDING"
  <2>1. job'.status = "PENDING" /\ job'.token = NoToken /\ job'.attempts = 0
    BY <1>4 DEF Enqueued
  <2>2. JobBooks'
    BY <2>1, AttemptBound DEF JobBooks, AttemptsBounded, CompletedMeansAnswered
  <2> QED BY <2>1, <2>2, BesideBooks
<1> QED BY <1>2, <1>3, <1>4

\* What runs beside the workers keeps the books.
LEMMA OutsideBooks ==
    ASSUME Inv, BooksInv, LeaseExpires \/ Webhooks \/ Inbox PROVE BooksInv'
<1>0. QueueTypes /\ job \in Jobs /\ JobBooks
  BY DEF Inv, Types, QueueTypes, BooksInv
<1>1. CASE LeaseExpires
  <2>1. JobHeld /\ HistoryGrows /\ worker' = worker
    BY <1>0, <1>1 DEF LeaseExpires, Jobs, JobHeld, HistoryGrows
  <2> QED BY <1>0, <2>1, HeldBooks, BesideBooks DEF JobHeld
<1>2. ASSUME job' = job, worker' = worker, HistoryGrows PROVE BooksInv'
  BY <1>0, <1>2, HeldBooks, BesideBooks DEF JobHeld
<1>3. UNCHANGED queueVars => job' = job /\ worker' = worker /\ HistoryGrows
  BY DEF queueVars, HistoryGrows
<1>4. ASSUME NEW v \in Versions, EnqueueAiResponse(v) PROVE BooksInv'
  BY <1>0, <1>4, EnqueueBooks DEF EnqueueAiResponse, HandlerMoves, HistoryGrows
<1>5. ASSUME NEW v \in Versions, StopCancels(v) PROVE BooksInv'
  BY <1>0, <1>5, CancelBooks DEF StopCancels, HandlerMoves, HistoryGrows
<1>6. ASSUME NEW v \in Versions, StopRevokes(v) \/ StartGrants(v) \/ HandlerDies(v) PROVE BooksInv'
  BY <1>2, <1>6 DEF StopRevokes, StartGrants, HandlerDies, HandlerMoves, HistoryGrows
<1>7. ASSUME NEW s \in Staff, StaffCancels(s) PROVE BooksInv'
  BY <1>0, <1>7, CancelBooks DEF StaffCancels, HistoryGrows
<1>8. ASSUME NEW draft \in BOOLEAN, ChangeReplyMode(draft) PROVE BooksInv'
  BY <1>0, <1>8, CancelBooks DEF ChangeReplyMode, HistoryGrows
<1> QED
  BY <1>1, <1>2, <1>3, <1>4, <1>5, <1>6, <1>7, <1>8
     DEF Webhooks, Inbox, ReceiveMessage, ReceiveKeyword, Decide, StaffElsewhere

LEMMA BooksStep == Inv /\ BooksInv /\ [Next]_vars => BooksInv'
<1> SUFFICES ASSUME Inv, BooksInv, [Next]_vars PROVE BooksInv'
  OBVIOUS
<1>0. QueueTypes /\ JobBooks
  BY DEF Inv, Types, BooksInv
<1>1. CASE UNCHANGED vars
  <2>1. JobHeld /\ HistoryGrows /\ worker' = worker
    BY <1>1 DEF vars, queueVars, JobHeld, HistoryGrows
  <2> QED BY <1>0, <2>1, HeldBooks, BesideBooks DEF JobHeld
<1>2. ASSUME NEW w \in Workers, Crash(w) PROVE BooksInv'
  <2>1. JobHeld /\ HistoryGrows /\ worker' = [worker EXCEPT ![w] = Free]
    BY <1>2 DEF Crash, JobHeld, HistoryGrows
  <2> QED BY <1>0, <2>1, HeldBooks, FreeBooks
<1> QED BY <1>1, <1>2, ClaimBooks, SweepBooks, WorkerBooks, OutsideBooks DEF Next

LEMMA BooksInit == Init => BooksInv
BY AttemptBound DEF Init, BooksInv, JobBooks, BooksOf, AttemptsBounded, CompletedMeansAnswered,
   Busy, Free, AfterSend, Claimable

-----------------------------------------------------------------------------
(* The saved replies: which rows may still be sent, and by whom.            *)

Unsaved == {"check", "lookup", "agent", "save"}
Chosen  == {"attach", "guard1", "mark"}

\* Row ids are lock tokens; nobody knows the id of a reply that is not saved.
RowsIssued ==
    /\ \A r \in rows : r.id \in 1 .. claims /\ r.version <= job.version
    /\ \A r, s \in rows : r.id = s.id => r = s
    /\ job.result \in 0 .. claims /\ job.token \in {NoToken, claims}
    /\ \A e \in exposures : e.row \in 1 .. claims
    /\ \A w \in Workers : Busy(w) => worker[w].result \in 0 .. claims
    /\ \A w \in Workers : worker[w].pc \in Unsaved =>
         /\ \A r \in rows : r.id # worker[w].token
         /\ \A e \in exposures : e.row # worker[w].token
         /\ job.result # worker[w].token
         /\ \A x \in Workers : Busy(x) => worker[x].result # worker[w].token

\* What a worker that chose its reply knows of it.
ChoicesKnown ==
    \A w \in Workers :
        /\ worker[w].pc \in Chosen \cup SendWindow \cup AfterSend => worker[w].result # NoRow
        /\ worker[w].pc \in AfterSend => Exposure(w) \in exposures
        /\ (worker[w].pc \in SendWindow \cup {"record"} \/ (Holds(w) /\ worker[w].pc \in Chosen))
             => worker[w].tag <= worker[w].version

\* The next claim cannot be given the row.
Gone(row, token) ==
    job.result = row => job.status \in Settled \/ (job.status = "SENDING" /\ job.token = token)

RowsSpent ==
    /\ \A e \in exposures :
         /\ Gone(e.row, e.token)
         /\ \A r \in rows : r.id = e.row => r.version <= e.version
    /\ \A w \in Workers : InWindow(w) =>
         /\ Gone(worker[w].result, worker[w].token)
         /\ \A r \in rows : r.id = worker[w].result => r.version <= worker[w].version
         /\ \A e \in exposures : e.row # worker[w].result
         /\ \A x \in Workers : InWindow(x) /\ worker[x].result = worker[w].result => x = w
    /\ \A w \in Workers : Holds(w) /\ worker[w].pc \in BeforeSend =>
         /\ \A e \in exposures : e.row # worker[w].result
         /\ \A x \in Workers : InWindow(x) => worker[x].result # worker[w].result

\* A worker that lost its lease, but not because it took too long.
Behind(y) == Busy(y) /\ ~Holds(y) /\ worker[y].token \notin overrun

\* Such a worker answers an older version, and has nothing to do with the reply
\* the job points to nor with those of the version it carries.
BehindIsBehind ==
    job.status \notin Settled => \A y \in Workers : Behind(y) =>
        /\ worker[y].version < job.version
        /\ job.result # NoRow =>
             /\ worker[y].result # job.result
             /\ \A r \in rows : r.id = job.result => r.version # worker[y].version
        /\ \A r \in rows : r.version = job.version => r.id # worker[y].result

Contender(z) == \/ worker[z].pc \in SendWindow \cup {"record"}
                \/ Holds(z) /\ worker[z].pc \in BeforeSend

Late(y, token) == worker[y].token \in overrun /\ worker[y].token < token
Unfound(y, row) == worker[y].result # row /\ \A r \in rows : r.id = row => r.version # worker[y].version

\* Only a worker that took too long can come by the reply of a contender, or by
\* one that was exposed.
RivalsLate ==
    /\ \A z, y \in Workers : Contender(z) /\ Busy(y) /\ y # z =>
         \/ Late(y, worker[z].token)
         \/ /\ worker[y].version \notin {worker[z].version, worker[z].tag}
            /\ worker[z].result # NoRow => Unfound(y, worker[z].result)
    /\ \A e \in exposures : \A y \in Workers : Busy(y) /\ worker[y].token # e.token =>
         Late(y, e.token) \/ Unfound(y, e.row)

\* The reply that may be delivered is there, or was deleted by a late worker.
ReplyThere ==
    \A z \in Workers : worker[z].pc \in SendWindow \/ (Holds(z) /\ worker[z].pc \in Chosen) =>
        (\E r \in rows : r.id = worker[z].result) \/ (\E t \in overrun : t < worker[z].token)

RowsInv == /\ RowsIssued /\ ChoicesKnown /\ RowsSpent /\ BehindIsBehind /\ RivalsLate /\ ReplyThere
           /\ NoReplyReused /\ DeliveredRowKept

\* A worker stops, or goes on with the same copies and comes no closer to the wire.
QuietMove(old, new) ==
    new.pc # "idle" =>
        /\ old.pc # "idle" /\ new.token = old.token /\ new.version = old.version
        /\ new.result = old.result /\ new.tag = old.tag /\ new.text = old.text
        /\ new.pc \in Unsaved => old.pc \in Unsaved
        /\ new.pc \in Chosen => old.pc \in Chosen
        /\ new.pc \in SendWindow => old.pc \in SendWindow
        /\ new.pc \in AfterSend => old.pc \in AfterSend
        /\ new.pc = "record" => old.pc = "record"

\* Nothing is saved, claimed or exposed; nobody comes to hold the lease.
MovesQuiet ==
    /\ \A w \in Workers : QuietMove(worker[w], worker'[w])
    /\ rows' \subseteq rows /\ overrun \subseteq overrun'
    /\ exposures' = exposures /\ claims' = claims
    /\ \A w \in Workers : Busy(w)' /\ Holds(w)' => Holds(w)

RowsQuiet ==
    /\ MovesQuiet
    /\ job'.result \in {job.result, NoRow} /\ job'.token \in {job.token, NoToken}
    /\ job'.version >= job.version

GoneAfter(row, token) ==
    job'.result = row => job'.status \in Settled \/ (job'.status = "SENDING" /\ job'.token = token)

\* What cannot be claimed still cannot.
GoneKept ==
    /\ \A e \in exposures : Gone(e.row, e.token) => GoneAfter(e.row, e.token)
    /\ \A w \in Workers : worker'[w].pc \in SendWindow /\ Gone(worker[w].result, worker[w].token) =>
         GoneAfter(worker[w].result, worker[w].token)

\* Nobody falls behind while the job goes on.
BehindKept ==
    job'.status \notin Settled =>
        job.status \notin Settled /\ \A y \in Workers : Behind(y)' => Behind(y)

\* The steps before the wire: without a reply, or with one.
LEMMA BeforeSplit == BeforeSend = Unsaved \cup Chosen
BY DEF BeforeSend, Unsaved, Chosen

LEMMA StepClasses ==
    /\ Unsaved \cap (Chosen \cup SendWindow \cup AfterSend) = {}
    /\ Chosen \cap (SendWindow \cup AfterSend) = {} /\ SendWindow \cap AfterSend = {}
    /\ "idle" \notin BeforeSend \cup SendWindow \cup AfterSend /\ "record" \in AfterSend
    /\ GivingUp \cap (BeforeSend \cup SendWindow \cup AfterSend) = {}
BY DEF BeforeSend, Unsaved, Chosen, SendWindow, AfterSend, GivingUp

LEMMA QuietIssued ==
    ASSUME Inv, RowsInv, QueueTypes', RowsQuiet PROVE RowsIssued' /\ NoReplyReused'
<1>0. /\ job.version \in Nat /\ job'.version \in Nat /\ \A r \in rows : r.version \in Nat
      /\ job.result \in 0 .. claims /\ claims \in Nat
  BY DEF Inv, Types, QueueTypes, Jobs, Rows, RowsInv, RowsIssued
<1>1. \A w \in Workers : Busy(w)' => Busy(w) /\ worker'[w].result = worker[w].result
                                     /\ worker'[w].token = worker[w].token
  BY DEF RowsQuiet, MovesQuiet, QuietMove, Busy
<1>2. \A w \in Workers : worker'[w].pc \in Unsaved => worker[w].pc \in Unsaved /\ Busy(w)'
  BY DEF RowsQuiet, MovesQuiet, QuietMove, Busy, Unsaved
<1>3. \A w \in Workers : worker[w].pc \in Unsaved => worker[w].token \in 1 .. claims
  BY DEF Inv, DeliveryInv, TokensFresh, Busy, Unsaved
<1>4. \A r \in rows' : r.id \in 1 .. claims' /\ r.version <= job'.version
  <2>1. \A r \in rows : r.id \in 1 .. claims /\ r.version <= job.version
    BY DEF RowsInv, RowsIssued
  <2> QED BY <1>0, <2>1 DEF RowsQuiet, MovesQuiet
<1>5. \A w \in Workers : Busy(w)' => worker'[w].result \in 0 .. claims'
  BY <1>1 DEF RowsInv, RowsIssued, RowsQuiet, MovesQuiet
<1>6. ASSUME NEW w \in Workers, worker'[w].pc \in Unsaved
      PROVE  /\ \A r \in rows' : r.id # worker'[w].token
             /\ \A e \in exposures' : e.row # worker'[w].token
             /\ job'.result # worker'[w].token
             /\ \A x \in Workers : Busy(x)' => worker'[x].result # worker'[w].token
  <2>1. worker'[w].token = worker[w].token /\ worker[w].pc \in Unsaved /\ worker[w].token \in 1 .. claims
    BY <1>1, <1>2, <1>3, <1>6
  <2>2. /\ \A r \in rows : r.id # worker[w].token
        /\ \A e \in exposures : e.row # worker[w].token
        /\ job.result # worker[w].token
        /\ \A x \in Workers : Busy(x) => worker[x].result # worker[w].token
    BY <2>1 DEF RowsInv, RowsIssued
  <2> QED BY <1>0, <1>1, <2>1, <2>2 DEF RowsQuiet, MovesQuiet, NoRow
<1>7. job'.result \in 0 .. claims' /\ job'.token \in {NoToken, claims'}
  BY <1>0 DEF RowsQuiet, MovesQuiet, RowsInv, RowsIssued, NoRow
<1>8. \A e \in exposures' : e.row \in 1 .. claims'
  BY DEF RowsQuiet, MovesQuiet, RowsInv, RowsIssued
<1>9. \A r, q \in rows' : r.id = q.id => r = q
  BY DEF RowsQuiet, MovesQuiet, RowsInv, RowsIssued
<1> QED
  BY <1>4, <1>5, <1>6, <1>7, <1>8, <1>9 DEF RowsIssued, NoReplyReused, RowsInv, RowsQuiet, MovesQuiet

LEMMA QuietChoices ==
    ASSUME RowsInv, MovesQuiet PROVE ChoicesKnown'
<1> SUFFICES ASSUME NEW w \in Workers
             PROVE  /\ worker'[w].pc \in Chosen \cup SendWindow \cup AfterSend => worker'[w].result # NoRow
                    /\ worker'[w].pc \in AfterSend => Exposure(w)' \in exposures'
                    /\ (worker'[w].pc \in SendWindow \cup {"record"} \/ (Holds(w)' /\ worker'[w].pc \in Chosen))
                         => worker'[w].tag <= worker'[w].version
  BY DEF ChoicesKnown
<1>1. /\ worker[w].pc \in Chosen \cup SendWindow \cup AfterSend => worker[w].result # NoRow
      /\ worker[w].pc \in AfterSend => Exposure(w) \in exposures
      /\ (worker[w].pc \in SendWindow \cup {"record"} \/ (Holds(w) /\ worker[w].pc \in Chosen))
           => worker[w].tag <= worker[w].version
  BY DEF RowsInv, ChoicesKnown
<1>2. CASE worker'[w].pc = "idle"
  BY <1>2, StepClasses, BeforeSplit
<1>3. CASE worker'[w].pc # "idle"
  <2>1. /\ worker'[w].token = worker[w].token /\ worker'[w].version = worker[w].version
        /\ worker'[w].result = worker[w].result /\ worker'[w].tag = worker[w].tag
        /\ worker'[w].text = worker[w].text
        /\ worker'[w].pc \in Chosen => worker[w].pc \in Chosen
        /\ worker'[w].pc \in SendWindow => worker[w].pc \in SendWindow
        /\ worker'[w].pc \in AfterSend => worker[w].pc \in AfterSend
        /\ worker'[w].pc = "record" => worker[w].pc = "record"
        /\ Holds(w)' => Holds(w) /\ exposures' = exposures
    BY <1>3 DEF MovesQuiet, QuietMove, Busy
  <2>2. Exposure(w)' = Exposure(w) /\ exposures' = exposures
    BY <2>1 DEF Exposure, MovesQuiet
  <2> QED BY <1>1, <2>1, <2>2
<1> QED BY <1>2, <1>3

LEMMA QuietRivals ==
    ASSUME RowsInv, MovesQuiet PROVE RivalsLate'
<1>1. \A w \in Workers : Busy(w)' =>
        Busy(w) /\ worker'[w].token = worker[w].token /\ worker'[w].version = worker[w].version
        /\ worker'[w].result = worker[w].result /\ worker'[w].tag = worker[w].tag
  BY DEF MovesQuiet, QuietMove, Busy
<1>2. ASSUME NEW y \in Workers, Busy(y)' 
      PROVE  /\ \A token : worker[y].token \in overrun /\ worker[y].token < token
                             => worker'[y].token \in overrun' /\ worker'[y].token < token
             /\ \A row : worker[y].result # row /\ (\A r \in rows : r.id = row => r.version # worker[y].version)
                  => worker'[y].result # row /\ (\A r \in rows' : r.id = row => r.version # worker'[y].version)
  BY <1>1, <1>2 DEF MovesQuiet
<1>3. \A z \in Workers : Contender(z)' => Contender(z) /\ Busy(z)'
  BY BeforeSplit, StepClasses DEF MovesQuiet, QuietMove, Contender, Busy
<1>4. ASSUME NEW z \in Workers, NEW y \in Workers, Contender(z)', Busy(y)', y # z
      PROVE  \/ Late(y, worker[z].token)'
             \/ /\ worker'[y].version \notin {worker'[z].version, worker'[z].tag}
                /\ worker'[z].result # NoRow => Unfound(y, worker[z].result)'
  <2>1. \/ Late(y, worker[z].token)
        \/ /\ worker[y].version \notin {worker[z].version, worker[z].tag}
           /\ worker[z].result # NoRow => Unfound(y, worker[z].result)
    BY <1>1, <1>3, <1>4 DEF RowsInv, RivalsLate
  <2> QED BY <1>1, <1>2, <1>3, <1>4, <2>1 DEF Late, Unfound
<1>5. ASSUME NEW e \in exposures, NEW y \in Workers, Busy(y)', worker'[y].token # e.token
      PROVE  (Late(y, e.token) \/ Unfound(y, e.row))'
  <2>1. Late(y, e.token) \/ Unfound(y, e.row)
    BY <1>1, <1>5 DEF RowsInv, RivalsLate
  <2> QED BY <1>1, <1>2, <1>5, <2>1 DEF Late, Unfound
<1>6. exposures' = exposures
  BY DEF MovesQuiet
<1> QED BY <1>4, <1>5, <1>6 DEF RivalsLate

LEMMA QuietSpent ==
    ASSUME RowsInv, MovesQuiet, GoneKept PROVE RowsSpent'
<1>1. \A w \in Workers : worker'[w].pc \in SendWindow =>
        InWindow(w) /\ worker'[w].token = worker[w].token
        /\ worker'[w].result = worker[w].result /\ worker'[w].version = worker[w].version
  BY StepClasses DEF MovesQuiet, QuietMove, InWindow
<1>2. \A w \in Workers : Holds(w)' /\ worker'[w].pc \in BeforeSend =>
        Holds(w) /\ worker[w].pc \in BeforeSend /\ worker'[w].result = worker[w].result
  BY BeforeSplit, StepClasses DEF MovesQuiet, QuietMove, Busy
<1>3. ASSUME NEW e \in exposures
      PROVE  GoneAfter(e.row, e.token) /\ \A r \in rows' : r.id = e.row => r.version <= e.version
  BY <1>3 DEF RowsInv, RowsSpent, GoneKept, MovesQuiet
<1>4. ASSUME NEW w \in Workers, worker'[w].pc \in SendWindow
      PROVE  /\ GoneAfter(worker'[w].result, worker'[w].token)
             /\ \A r \in rows' : r.id = worker'[w].result => r.version <= worker'[w].version
             /\ \A e \in exposures : e.row # worker'[w].result
             /\ \A x \in Workers : worker'[x].pc \in SendWindow /\ worker'[x].result = worker'[w].result
                                     => x = w
  <2>1. /\ Gone(worker[w].result, worker[w].token)
        /\ \A r \in rows : r.id = worker[w].result => r.version <= worker[w].version
        /\ \A e \in exposures : e.row # worker[w].result
        /\ \A x \in Workers : InWindow(x) /\ worker[x].result = worker[w].result => x = w
    BY <1>1, <1>4 DEF RowsInv, RowsSpent
  <2> QED BY <1>1, <1>4, <2>1 DEF GoneKept, MovesQuiet
<1>5. ASSUME NEW w \in Workers, Holds(w)', worker'[w].pc \in BeforeSend
      PROVE  /\ \A e \in exposures : e.row # worker'[w].result
             /\ \A x \in Workers : worker'[x].pc \in SendWindow => worker'[x].result # worker'[w].result
  <2>1. /\ \A e \in exposures : e.row # worker[w].result
        /\ \A x \in Workers : InWindow(x) => worker[x].result # worker[w].result
    BY <1>2, <1>5 DEF RowsInv, RowsSpent
  <2> QED BY <1>1, <1>2, <1>5, <2>1
<1>6. exposures' = exposures
  BY DEF MovesQuiet
<1> QED BY <1>3, <1>4, <1>5, <1>6 DEF RowsSpent, Gone, GoneAfter, InWindow

LEMMA QuietBehind ==
    ASSUME Inv, RowsInv, QueueTypes', RowsQuiet, BehindKept PROVE BehindIsBehind'
<1> SUFFICES ASSUME job'.status \notin Settled, NEW y \in Workers, Behind(y)'
             PROVE  /\ worker'[y].version < job'.version
                    /\ job'.result # NoRow =>
                         /\ worker'[y].result # job'.result
                         /\ \A r \in rows' : r.id = job'.result => r.version # worker'[y].version
                    /\ \A r \in rows' : r.version = job'.version => r.id # worker'[y].result
  BY DEF BehindIsBehind
<1>1. /\ worker[y].version < job.version
      /\ job.result # NoRow =>
           /\ worker[y].result # job.result
           /\ \A r \in rows : r.id = job.result => r.version # worker[y].version
      /\ \A r \in rows : r.version = job.version => r.id # worker[y].result
  BY DEF BehindKept, RowsInv, BehindIsBehind
<1>2. worker'[y].version = worker[y].version /\ worker'[y].result = worker[y].result
  BY DEF Behind, Busy, RowsQuiet, MovesQuiet, QuietMove
<1>3. /\ job.version \in Nat /\ job'.version \in Nat /\ worker[y].version \in Nat
      /\ job'.version >= job.version /\ rows' \subseteq rows /\ job'.result \in {job.result, NoRow}
      /\ \A r \in rows : r.version \in Nat /\ r.version <= job.version
  BY DEF Inv, Types, QueueTypes, Jobs, Rows, WorkerStates, RowsQuiet, MovesQuiet, RowsInv, RowsIssued
<1>4. worker'[y].version < job'.version
  BY <1>1, <1>2, <1>3
<1>5. ASSUME NEW r \in rows', r.version = job'.version PROVE r.id # worker'[y].result
  <2>1. r \in rows /\ r.version = job.version
    BY <1>3, <1>5
  <2> QED BY <1>1, <1>2, <2>1
<1> QED BY <1>1, <1>2, <1>3, <1>4, <1>5

LEMMA QuietThere ==
    ASSUME RowsInv, MovesQuiet, rows' = rows PROVE ReplyThere' /\ DeliveredRowKept'
<1>1. ASSUME NEW z \in Workers,
             worker'[z].pc \in SendWindow \/ (Holds(z)' /\ worker'[z].pc \in Chosen)
      PROVE  (\E r \in rows' : r.id = worker'[z].result) \/ (\E t \in overrun' : t < worker'[z].token)
  <2>1. /\ worker[z].pc \in SendWindow \/ (Holds(z) /\ worker[z].pc \in Chosen)
        /\ worker'[z].token = worker[z].token /\ worker'[z].result = worker[z].result
    BY <1>1, StepClasses, BeforeSplit DEF MovesQuiet, QuietMove, Busy
  <2>2. (\E r \in rows : r.id = worker[z].result) \/ (\E t \in overrun : t < worker[z].token)
    BY <2>1 DEF RowsInv, ReplyThere
  <2>3. rows' = rows /\ overrun \subseteq overrun'
    BY DEF MovesQuiet
  <2> QED BY <2>1, <2>2, <2>3
<1>2. ASSUME NEW e \in exposures
      PROVE  (\E r \in rows' : r.id = e.row) \/ (\E t \in overrun' : t < e.token)
  <2>1. (\E r \in rows : r.id = e.row) \/ (\E t \in overrun : t < e.token)
    BY DEF RowsInv, DeliveredRowKept
  <2> QED BY <2>1 DEF MovesQuiet
<1>3. exposures' = exposures
  BY DEF MovesQuiet
<1> QED BY <1>1, <1>2, <1>3 DEF ReplyThere, DeliveredRowKept

\* A quiet step keeps what is known of the replies, if it keeps what is known of
\* the workers that fell behind.
LEMMA QuietKeeps ==
    ASSUME Inv, RowsInv, QueueTypes', RowsQuiet, GoneKept, BehindKept \/ BehindIsBehind', rows' = rows
    PROVE  RowsInv'
BY QuietIssued, QuietChoices, QuietSpent, QuietBehind, QuietRivals, QuietThere DEF RowsInv, RowsQuiet

WorkersQuiet == \A w \in Workers : QuietMove(worker[w], worker'[w])

\* A worker goes on, gives up or lets go.
LEMMA GotoQuiet ==
    ASSUME QueueTypes, NEW w \in Workers, Busy(w), NEW pc, Goto(w, pc),
           pc \in Unsaved => worker[w].pc \in Unsaved, pc \in Chosen => worker[w].pc \in Chosen,
           pc \in SendWindow => worker[w].pc \in SendWindow,
           pc \in AfterSend => worker[w].pc \in AfterSend, pc # "record"
    PROVE  WorkersQuiet
<1> DEFINE new == [worker[w] EXCEPT !.pc = pc]
<1>1. worker' = [worker EXCEPT ![w] = new] /\ worker[w] \in WorkerStates
  BY DEF Goto, QueueTypes
<1>2. /\ new.pc = pc /\ new.token = worker[w].token /\ new.version = worker[w].version
      /\ new.result = worker[w].result /\ new.tag = worker[w].tag /\ new.text = worker[w].text
  BY <1>1 DEF WorkerStates
<1> HIDE DEF new
<1>3. worker'[w] = new /\ \A x \in Workers \ {w} : worker'[x] = worker[x]
  BY <1>1 DEF QueueTypes
<1>4. QuietMove(worker[w], worker'[w])
  BY <1>2, <1>3 DEF QuietMove, Busy
<1>5. \A x \in Workers \ {w} : QuietMove(worker[x], worker'[x])
  BY <1>3 DEF QuietMove
<1> QED BY <1>4, <1>5 DEF WorkersQuiet

LEMMA GiveUpQuiet ==
    ASSUME QueueTypes, NEW w \in Workers, Busy(w), NEW pc \in GivingUp, NEW outcome, GiveUp(w, pc, outcome)
    PROVE  WorkersQuiet
<1> DEFINE new == [worker[w] EXCEPT !.pc = pc, !.outcome = outcome]
<1>1. worker' = [worker EXCEPT ![w] = new] /\ worker[w] \in WorkerStates
  BY DEF GiveUp, QueueTypes
<1>2. /\ new.pc = pc /\ new.token = worker[w].token /\ new.version = worker[w].version
      /\ new.result = worker[w].result /\ new.tag = worker[w].tag /\ new.text = worker[w].text
  BY <1>1 DEF WorkerStates
<1>3. /\ pc \notin Unsaved /\ pc \notin Chosen /\ pc \notin SendWindow /\ pc \notin AfterSend
      /\ pc # "record"
  BY BeforeSplit, StepClasses
<1> HIDE DEF new
<1>4. worker'[w] = new /\ \A x \in Workers \ {w} : worker'[x] = worker[x]
  BY <1>1 DEF QueueTypes
<1>5. QuietMove(worker[w], worker'[w])
  BY <1>2, <1>3, <1>4 DEF QuietMove, Busy
<1>6. \A x \in Workers \ {w} : QuietMove(worker[x], worker'[x])
  BY <1>4 DEF QuietMove
<1> QED BY <1>5, <1>6 DEF WorkersQuiet

LEMMA FreeQuiet ==
    ASSUME QueueTypes, NEW w \in Workers, worker' = [worker EXCEPT ![w] = Free] PROVE WorkersQuiet
<1>1. worker'[w] = Free /\ \A x \in Workers \ {w} : worker'[x] = worker[x]
  BY DEF QueueTypes
<1> QED BY <1>1 DEF WorkersQuiet, QuietMove, Free

JobStill == /\ job'.token = job.token /\ job'.status = job.status
            /\ job'.version = job.version /\ job'.result = job.result

LEMMA StillQuiet ==
    ASSUME Inv, WorkersQuiet, JobStill, rows' \subseteq rows, UNCHANGED <<overrun, exposures, claims>>
    PROVE  RowsQuiet /\ GoneKept /\ BehindKept
<1>1. \A w \in Workers : Busy(w)' => Busy(w) /\ worker'[w].token = worker[w].token
  BY DEF WorkersQuiet, QuietMove, Busy
<1>2. \A w \in Workers : Busy(w)' => (Holds(w)' <=> Holds(w))
  BY <1>1 DEF JobStill, Holds
<1>3. job.version \in Nat
  BY DEF Inv, Types, QueueTypes, Jobs
<1>4. RowsQuiet
  BY <1>2, <1>3 DEF WorkersQuiet, JobStill, RowsQuiet, MovesQuiet
<1>5. GoneKept
  BY DEF GoneKept, Gone, GoneAfter, JobStill
<1>6. BehindKept
  BY <1>1, <1>2 DEF BehindKept, Behind, JobStill
<1> QED BY <1>4, <1>5, <1>6

\* Most steps: a worker moves, the job and the replies stay.
LEMMA StillKeeps ==
    ASSUME Inv, RowsInv, QueueTypes', WorkersQuiet, JobStill,
           UNCHANGED <<rows, overrun, exposures, claims>>
    PROVE  RowsInv'
BY StillQuiet, QuietKeeps

\* The job is settled: its reply cannot be claimed again.
LEMMA CloseRows ==
    ASSUME Inv, RowsInv, QueueTypes', WorkersQuiet, job'.status \in Settled, job'.token = NoToken,
           job'.version = job.version, job'.result = job.result, overrun \subseteq overrun',
           UNCHANGED <<rows, exposures, claims>>
    PROVE  RowsInv'
<1>1. \A w \in Workers : ~Holds(w)'
  BY DEF Holds
<1>2. job.version \in Nat
  BY DEF Inv, Types, QueueTypes, Jobs
<1>3. RowsQuiet
  BY <1>1, <1>2 DEF WorkersQuiet, RowsQuiet, MovesQuiet
<1>4. GoneKept /\ BehindKept
  BY DEF GoneKept, GoneAfter, BehindKept
<1> QED BY <1>3, <1>4, QuietKeeps

\* The job starts over for a newer message, without a reply.
LEMMA ResetRows ==
    ASSUME Inv, RowsInv, QueueTypes', WorkersQuiet, job'.result = NoRow, job'.token = NoToken,
           job'.version >= job.version, UNCHANGED <<rows, overrun, exposures, claims>>,
           BehindIsBehind'
    PROVE  RowsInv'
<1>1. \A w \in Workers : ~Holds(w)'
  BY DEF Holds
<1>2. RowsQuiet
  BY <1>1 DEF WorkersQuiet, RowsQuiet, MovesQuiet
<1>3. \A e \in exposures : e.row # NoRow
  BY DEF RowsInv, RowsIssued, NoRow
<1>4. \A w \in Workers : worker'[w].pc \in SendWindow => worker[w].result # NoRow
  BY StepClasses DEF WorkersQuiet, QuietMove, RowsInv, ChoicesKnown
<1>5. GoneKept
  BY <1>3, <1>4 DEF GoneKept, GoneAfter
<1> QED BY <1>2, <1>5, QuietKeeps

\* The job is due again with its reply, which nobody has exposed.
LEMMA RetryRows ==
    ASSUME Inv, RowsInv, QueueTypes', WorkersQuiet, job'.status \notin Settled, job'.token = NoToken,
           job'.version = job.version, job'.result = job.result, job.status \notin Settled,
           overrun \subseteq overrun', UNCHANGED <<rows, exposures, claims>>,
           \A e \in exposures : e.row # job.result,
           \A w \in Workers : worker'[w].pc \in SendWindow => worker[w].result # job.result,
           \A w \in Workers : Busy(w)' /\ Holds(w) => worker[w].token \in overrun'
    PROVE  RowsInv'
<1>1. \A w \in Workers : ~Holds(w)'
  BY DEF Holds
<1>2. job.version \in Nat
  BY DEF Inv, Types, QueueTypes, Jobs
<1>3. RowsQuiet
  BY <1>1, <1>2 DEF WorkersQuiet, RowsQuiet, MovesQuiet
<1>4. GoneKept
  BY DEF GoneKept, GoneAfter
<1>5. BehindKept
  BY DEF BehindKept, Behind, WorkersQuiet, QuietMove, Busy
<1> QED BY <1>3, <1>4, <1>5, QuietKeeps

\* A row is deleted: by a late worker, or by one that nobody shares it with.
LEMMA DeleteRows ==
    ASSUME Inv, RowsInv, QueueTypes', WorkersQuiet, JobStill, NEW w \in Workers, Busy(w),
           rows' = Without(worker[w].result), UNCHANGED <<overrun, exposures, claims>>,
           worker'[w].pc \notin SendWindow \cup Chosen,
           \A e \in exposures : e.token # worker[w].token
    PROVE  RowsInv'
<1>1. rows' \subseteq rows /\ \A r \in rows : r.id # worker[w].result => r \in rows'
  BY DEF Without
<1>2. RowsQuiet /\ GoneKept /\ BehindKept
  BY <1>1, StillQuiet
<1>3. ASSUME NEW z \in Workers,
             worker'[z].pc \in SendWindow \/ (Holds(z)' /\ worker'[z].pc \in Chosen)
      PROVE  (\E r \in rows' : r.id = worker'[z].result) \/ (\E t \in overrun' : t < worker'[z].token)
  <2>1. /\ worker[z].pc \in SendWindow \/ (Holds(z) /\ worker[z].pc \in Chosen)
        /\ worker'[z].token = worker[z].token /\ worker'[z].result = worker[z].result /\ z # w
    BY <1>2, <1>3, StepClasses, BeforeSplit DEF RowsQuiet, MovesQuiet, QuietMove, Busy
  <2>2. (\E r \in rows : r.id = worker[z].result) \/ (\E t \in overrun : t < worker[z].token)
    BY <2>1 DEF RowsInv, ReplyThere
  <2>3. CASE worker[z].result = worker[w].result
    <3>1. Contender(z) /\ worker[z].result # NoRow
      BY <2>1, BeforeSplit DEF Contender, RowsInv, ChoicesKnown
    <3>2. Late(w, worker[z].token)
      BY <2>1, <2>3, <3>1 DEF RowsInv, RivalsLate, Unfound
    <3> QED BY <2>1, <3>2 DEF Late
  <2>4. CASE worker[z].result # worker[w].result
    BY <1>1, <2>1, <2>2, <2>4
  <2> QED BY <2>3, <2>4
<1>4. ASSUME NEW e \in exposures
      PROVE  (\E r \in rows' : r.id = e.row) \/ (\E t \in overrun' : t < e.token)
  <2>1. (\E r \in rows : r.id = e.row) \/ (\E t \in overrun : t < e.token)
    BY DEF RowsInv, DeliveredRowKept
  <2>2. Late(w, e.token) \/ worker[w].result # e.row
    BY DEF RowsInv, RivalsLate, Unfound
  <2> QED BY <1>1, <2>1, <2>2 DEF Late
<1> QED
  BY <1>2, <1>3, <1>4, QuietIssued, QuietChoices, QuietSpent, QuietBehind, QuietRivals
     DEF RowsInv, ReplyThere, DeliveredRowKept, RowsQuiet

\* One worker holds the lease, and before the wire it answers the job's version.
LEMMA OneHolder ==
    ASSUME Inv, NEW w \in Workers, NEW x \in Workers, Busy(w), Busy(x), Holds(w), Holds(x) PROVE w = x
BY DEF Inv, DeliveryInv, TokensFresh, Holds

LEMMA HolderAnswers ==
    ASSUME Inv, NEW w \in Workers, Holds(w), worker[w].pc \in BeforeSend
    PROVE  Busy(w) /\ job.status = "PROCESSING" /\ worker[w].version = job.version
BY StepClasses DEF Inv, DeliveryInv, LeaseAgrees, Busy

\* While the job may be claimed, every version that was exposed or is in the
\* window is older than the job's.
LEMMA SpentOlder ==
    ASSUME Inv, job.status \in Claimable \cup {"PROCESSING"}
    PROVE  /\ \A e \in exposures : e.version < job.version
           /\ \A w \in Workers : InWindow(w) => worker[w].version < job.version
<1>1. \A v, token : Spent(v, token) => job.version > v
  BY DEF Spent, Claimable, Settled
<1>2. /\ job.version \in Nat /\ \A e \in exposures : e.version \in Nat
      /\ \A w \in Workers : worker[w].version \in Nat
  BY DEF Inv, Types, QueueTypes, Jobs, WorkerStates
<1> QED BY <1>1, <1>2 DEF Inv, DeliveryInv, VersionsSpent

\* A saved reply is picked up again.
LEMMA LookupRows ==
    ASSUME Inv, RowsInv, QueueTypes', NEW w \in Workers, worker[w].pc = "lookup",
           NEW r \in Reusable(w), NEW new, worker' = [worker EXCEPT ![w] = new],
           new.pc = "guard1", new.token = worker[w].token, new.version = worker[w].version,
           new.result = r.id, new.tag = r.version,
           UNCHANGED <<job, rows, exposures, claims, overrun>>
    PROVE  RowsInv'
<1>0. /\ QueueTypes /\ Busy(w) /\ worker[w].pc \in BeforeSend /\ worker[w].token \in 1 .. claims
      /\ worker[w].version \in Nat /\ job.version \in Nat /\ claims \in Nat
  BY DEF Inv, Types, QueueTypes, Jobs, WorkerStates, Busy, BeforeSend, DeliveryInv, TokensFresh
<1>1. /\ r \in rows /\ r.id \in 1 .. claims /\ r.version <= job.version /\ r.version \in Nat
      /\ r.id = worker[w].result \/ r.version = worker[w].version
  BY <1>0 DEF Reusable, RowsInv, RowsIssued, QueueTypes, Rows
<1>2. worker'[w] = new /\ \A x \in Workers \ {w} : worker'[x] = worker[x]
  BY <1>0 DEF QueueTypes
<1>3. /\ \A x \in Workers : (Busy(x)' <=> Busy(x)) /\ (Holds(x)' <=> Holds(x)) /\ (Behind(x)' <=> Behind(x))
      /\ \A x \in Workers : worker'[x].token = worker[x].token /\ worker'[x].version = worker[x].version
  BY <1>0, <1>2 DEF Busy, Holds, Behind
<1>4. "guard1" \in Chosen /\ "guard1" \notin Unsaved /\ "guard1" \notin SendWindow
      /\ "guard1" \notin AfterSend /\ "guard1" # "record" /\ "guard1" \in BeforeSend
  BY DEF Chosen, Unsaved, SendWindow, AfterSend, BeforeSend
<1>5. \A q \in rows : q.id = r.id => q = r
  BY <1>1 DEF RowsInv, RowsIssued
<1>6. RowsIssued' /\ NoReplyReused'
  <2>1. \A x \in Workers : worker'[x].pc \in Unsaved => x # w /\ worker'[x] = worker[x] /\ r.id # worker[x].token
    BY <1>1, <1>2, <1>4 DEF RowsInv, RowsIssued
  <2>2. \A x \in Workers : Busy(x)' => worker'[x].result = r.id \/ (Busy(x) /\ worker'[x].result = worker[x].result)
    BY <1>2, <1>3
  <2>3. \A x \in Workers : Busy(x)' => worker'[x].result \in 0 .. claims
    BY <1>0, <1>1, <2>2 DEF RowsInv, RowsIssued
  <2> QED BY <1>1, <2>1, <2>2, <2>3 DEF RowsInv, RowsIssued, NoReplyReused
<1>7. ChoicesKnown'
  <2>1. \A x \in Workers \ {w} : Exposure(x)' = Exposure(x)
    BY <1>2 DEF Exposure
  <2>2. Holds(w) => r.version <= worker[w].version
    BY <1>0, <1>1, HolderAnswers
  <2> QED BY <1>1, <1>2, <1>3, <1>4, <2>1, <2>2 DEF RowsInv, ChoicesKnown, NoRow
<1>8. ASSUME Holds(w)
      PROVE  /\ \A e \in exposures : e.row # r.id
             /\ \A x \in Workers : InWindow(x) => worker[x].result # r.id
  <2>1. CASE r.id = worker[w].result
    BY <1>0, <1>8, <2>1 DEF RowsInv, RowsSpent
  <2>2. CASE r.version = worker[w].version
    <3>1. /\ job.status = "PROCESSING" /\ r.version = job.version
          /\ \A e \in exposures : e.version < job.version
          /\ \A x \in Workers : InWindow(x) => worker[x].version < job.version
      BY <1>0, <1>8, <2>2, HolderAnswers, SpentOlder
    <3>2. /\ \A e \in exposures : r.id = e.row => r.version <= e.version
          /\ \A x \in Workers : InWindow(x) /\ r.id = worker[x].result => r.version <= worker[x].version
      BY <1>1 DEF RowsInv, RowsSpent
    <3>3. (\A e \in exposures : e.version \in Nat) /\ \A x \in Workers : worker[x].version \in Nat
      BY DEF Inv, Types, QueueTypes, WorkerStates
    <3> QED BY <1>0, <3>1, <3>2, <3>3
  <2> QED BY <1>1, <2>1, <2>2
<1>9. RowsSpent'
  <2>1. \A x \in Workers : InWindow(x)' => InWindow(x) /\ x # w /\ worker'[x] = worker[x]
    BY <1>2, <1>4 DEF InWindow
  <2>2. \A x \in Workers : Holds(x)' /\ worker'[x].pc \in BeforeSend =>
          Holds(x) /\ (x = w \/ (worker'[x] = worker[x]))
    BY <1>2, <1>3
  <2> QED BY <1>2, <1>8, <2>1, <2>2 DEF RowsInv, RowsSpent, Gone
<1>10. BehindIsBehind'
  <2>1. ASSUME job.status \notin Settled, Behind(w)
        PROVE  /\ job.result # NoRow => r.id # job.result
               /\ \A q \in rows : q.version = job.version => q.id # r.id
    <3>1. /\ worker[w].version < job.version
          /\ job.result # NoRow =>
               /\ worker[w].result # job.result
               /\ \A q \in rows : q.id = job.result => q.version # worker[w].version
          /\ \A q \in rows : q.version = job.version => q.id # worker[w].result
      BY <2>1 DEF RowsInv, BehindIsBehind
    <3> QED BY <1>0, <1>1, <1>5, <3>1
  <2> QED BY <1>2, <1>3, <2>1 DEF RowsInv, BehindIsBehind
<1>11. RivalsLate'
  <2>1. \A x \in Workers : Contender(x)' => Contender(x)
    BY <1>0, <1>2, <1>3, <1>4 DEF Contender
  <2>2. ASSUME NEW y \in Workers, Busy(y), y # w, Holds(w)
        PROVE  Late(y, worker[w].token) \/ (worker[y].version \notin {worker[w].version, r.version} /\ Unfound(y, r.id))
    <3>1. CASE Late(y, worker[w].token)
      BY <3>1
    <3>2. CASE ~Late(y, worker[w].token)
      <4>1. /\ worker[y].version # worker[w].version
            /\ worker[w].result # NoRow => Unfound(y, worker[w].result)
        BY <1>0, <2>2, <3>2 DEF RowsInv, RivalsLate, Contender
      <4>2. CASE r.id = worker[w].result
        BY <1>1, <4>1, <4>2 DEF Unfound, NoRow
      <4>3. CASE r.version = worker[w].version
        <5>1. job.status = "PROCESSING" /\ r.version = job.version /\ job.token = worker[w].token
          BY <1>0, <2>2, <4>3, HolderAnswers DEF Holds
        <5>2. ~Holds(y)
          BY <1>0, <2>2, OneHolder
        <5>3. worker[y].token \notin overrun
          <6>1. worker[w].token = claims /\ worker[y].token \in 1 .. claims /\ worker[y].token # worker[w].token
            BY <1>0, <2>2, <5>1 DEF RowsInv, RowsIssued, NoToken, Inv, DeliveryInv, TokensFresh
          <6> QED BY <1>0, <3>2, <6>1 DEF Late
        <5>4. r.id # worker[y].result
          BY <1>1, <2>2, <5>1, <5>2, <5>3 DEF RowsInv, BehindIsBehind, Behind, Settled
        <5> QED BY <1>5, <4>1, <4>3, <5>4 DEF Unfound
      <4> QED BY <1>1, <4>2, <4>3
    <3> QED BY <3>1, <3>2
  <2>3. ASSUME NEW row, Unfound(w, row) PROVE Unfound(w, row)'
    BY <1>1, <1>2, <2>3 DEF Unfound
  <2>4. ASSUME NEW z \in Workers, NEW y \in Workers, Contender(z)', Busy(y)', y # z
        PROVE  \/ Late(y, worker[z].token)'
               \/ /\ worker'[y].version \notin {worker'[z].version, worker'[z].tag}
                  /\ worker'[z].result # NoRow => Unfound(y, worker[z].result)'
    <3>1. CASE z = w
      <4>1. Holds(w) /\ worker'[y] = worker[y] /\ Busy(y)
        BY <1>2, <1>3, <1>4, <2>4, <3>1 DEF Contender
      <4>2. Late(y, worker[w].token) \/ (worker[y].version \notin {worker[w].version, r.version} /\ Unfound(y, r.id))
        BY <2>2, <2>4, <3>1, <4>1
      <4> QED BY <1>2, <3>1, <4>1, <4>2 DEF Late, Unfound
    <3>2. CASE z # w
      <4>1. /\ Contender(z) /\ worker'[z] = worker[z] /\ Busy(y)
            /\ worker'[y].version = worker[y].version /\ worker'[y].token = worker[y].token
        BY <1>2, <1>3, <2>1, <2>4, <3>2
      <4>2. \/ Late(y, worker[z].token)
            \/ /\ worker[y].version \notin {worker[z].version, worker[z].tag}
               /\ worker[z].result # NoRow => Unfound(y, worker[z].result)
        BY <2>4, <4>1 DEF RowsInv, RivalsLate
      <4>3. Unfound(y, worker[z].result) => Unfound(y, worker[z].result)'
        BY <1>2, <1>1, <3>2 DEF Unfound
      <4> QED BY <4>1, <4>2, <4>3 DEF Late
    <3> QED BY <3>1, <3>2
  <2>5. ASSUME NEW e \in exposures, NEW y \in Workers, Busy(y)', worker'[y].token # e.token
        PROVE  (Late(y, e.token) \/ Unfound(y, e.row))'
    <3>1. Late(y, e.token) \/ Unfound(y, e.row)
      BY <1>3, <2>5 DEF RowsInv, RivalsLate
    <3>2. Unfound(y, e.row) => Unfound(y, e.row)'
      BY <1>1, <1>2 DEF Unfound
    <3> QED BY <1>3, <3>1, <3>2 DEF Late
  <2> QED BY <2>4, <2>5 DEF RivalsLate
<1>12. ReplyThere' /\ DeliveredRowKept'
  <2>1. \A x \in Workers \ {w} : worker'[x] = worker[x] /\ (Holds(x)' <=> Holds(x))
    BY <1>2, <1>3
  <2> QED BY <1>1, <1>2, <1>4, <2>1 DEF RowsInv, ReplyThere, DeliveredRowKept
<1> QED BY <1>6, <1>7, <1>9, <1>10, <1>11, <1>12 DEF RowsInv

\* The reply is saved under an id that nobody knows.
LEMMA SaveRows ==
    ASSUME Inv, RowsInv, QueueTypes', NEW w \in Workers, worker[w].pc = "save",
           NEW quote \in BOOLEAN, NEW new, NEW row,
           row.id = worker[w].token, row.version = worker[w].version, rows' = rows \cup {row},
           worker' = [worker EXCEPT ![w] = new],
           new.pc = "attach", new.token = worker[w].token, new.version = worker[w].version,
           new.result = worker[w].token, new.tag = worker[w].version,
           UNCHANGED <<job, exposures, claims, overrun>>
    PROVE  RowsInv'
<1>0. /\ QueueTypes /\ Busy(w) /\ worker[w].pc \in BeforeSend /\ worker[w].pc \in Unsaved
      /\ worker[w].token \in 1 .. claims /\ worker[w].version \in 1 .. job.version
      /\ job.version \in Nat /\ claims \in Nat
  BY DEF Inv, Types, QueueTypes, Jobs, WorkerStates, Busy, BeforeSend, Unsaved, DeliveryInv,
         TokensFresh, VersionsQueued
<1>1. /\ \A r \in rows : r.id # worker[w].token
      /\ \A e \in exposures : e.row # worker[w].token
      /\ job.result # worker[w].token
      /\ \A x \in Workers : Busy(x) => worker[x].result # worker[w].token
  BY <1>0 DEF RowsInv, RowsIssued
<1>2. worker'[w] = new /\ \A x \in Workers \ {w} : worker'[x] = worker[x]
  BY <1>0 DEF QueueTypes
<1>3. /\ \A x \in Workers : (Busy(x)' <=> Busy(x)) /\ (Holds(x)' <=> Holds(x)) /\ (Behind(x)' <=> Behind(x))
      /\ \A x \in Workers : worker'[x].token = worker[x].token /\ worker'[x].version = worker[x].version
  BY <1>0, <1>2 DEF Busy, Holds, Behind
<1>4. "attach" \in Chosen /\ "attach" \notin Unsaved /\ "attach" \notin SendWindow
      /\ "attach" \notin AfterSend /\ "attach" # "record" /\ "attach" \in BeforeSend
  BY DEF Chosen, Unsaved, SendWindow, AfterSend, BeforeSend
<1>5. \A r \in rows' : r \in rows \/ (r = row /\ r.id = worker[w].token /\ r.version = worker[w].version)
  OBVIOUS
<1>6. RowsIssued' /\ NoReplyReused'
  <2>1. ASSUME NEW x \in Workers, worker'[x].pc \in Unsaved
        PROVE  /\ x # w /\ worker'[x] = worker[x] /\ worker[w].token # worker[x].token
               /\ worker[x].pc \in Unsaved
    <3>1. x # w /\ worker'[x] = worker[x] /\ Busy(x)
      BY <1>2, <1>4, <2>1 DEF Busy, Unsaved
    <3> QED BY <1>0, <2>1, <3>1 DEF Inv, DeliveryInv, TokensFresh
  <2>2. \A x \in Workers : Busy(x)' =>
          worker'[x].result = worker[w].token \/ (Busy(x) /\ worker'[x].result = worker[x].result)
    BY <1>2, <1>3
  <2>3. \A x \in Workers : Busy(x)' => worker'[x].result \in 0 .. claims
    BY <1>0, <2>2 DEF RowsInv, RowsIssued
  <2>4. \A r \in rows' : r.id \in 1 .. claims /\ r.version <= job.version
    BY <1>0, <1>5 DEF RowsInv, RowsIssued
  <2>5. \A r, q \in rows' : r.id = q.id => r = q
    BY <1>1, <1>5 DEF RowsInv, RowsIssued
  <2>6. ASSUME NEW x \in Workers, worker'[x].pc \in Unsaved
        PROVE  /\ \A r \in rows' : r.id # worker'[x].token
               /\ \A e \in exposures : e.row # worker'[x].token
               /\ job.result # worker'[x].token
               /\ \A y \in Workers : Busy(y)' => worker'[y].result # worker'[x].token
    BY <1>5, <2>1, <2>2, <2>6 DEF RowsInv, RowsIssued
  <2> QED BY <2>3, <2>4, <2>5, <2>6 DEF RowsInv, RowsIssued, NoReplyReused
<1>7. ChoicesKnown'
  <2>1. \A x \in Workers \ {w} : Exposure(x)' = Exposure(x)
    BY <1>2 DEF Exposure
  <2> QED BY <1>0, <1>2, <1>3, <1>4, <2>1 DEF RowsInv, ChoicesKnown, NoRow
<1>8. RowsSpent'
  <2>1. \A x \in Workers : InWindow(x)' => InWindow(x) /\ x # w /\ worker'[x] = worker[x] /\ Busy(x)
    BY <1>2, <1>4, StepClasses DEF InWindow, Busy
  <2>2. \A x \in Workers : Holds(x)' /\ worker'[x].pc \in BeforeSend =>
          Holds(x) /\ (x = w \/ (worker'[x] = worker[x]))
    BY <1>2, <1>3
  <2>3. \A e \in exposures : \A r \in rows' : r.id = e.row => r.version <= e.version
    BY <1>1, <1>5 DEF RowsInv, RowsSpent
  <2>4. \A x \in Workers : InWindow(x)' =>
          \A r \in rows' : r.id = worker'[x].result => r.version <= worker'[x].version
    BY <1>1, <1>5, <2>1 DEF RowsInv, RowsSpent
  <2> QED BY <1>1, <1>2, <2>1, <2>2, <2>3, <2>4 DEF RowsInv, RowsSpent, Gone
<1>9. BehindIsBehind'
  <2>1. ASSUME job.status \notin Settled, NEW y \in Workers, Behind(y)
        PROVE  /\ worker[y].version < job.version
               /\ job.result # NoRow =>
                    /\ worker'[y].result # job.result
                    /\ \A r \in rows' : r.id = job.result => r.version # worker[y].version
               /\ \A r \in rows' : r.version = job.version => r.id # worker'[y].result
    <3>1. /\ worker[y].version < job.version
          /\ job.result # NoRow =>
               /\ worker[y].result # job.result
               /\ \A r \in rows : r.id = job.result => r.version # worker[y].version
          /\ \A r \in rows : r.version = job.version => r.id # worker[y].result
      BY <2>1 DEF RowsInv, BehindIsBehind
    <3>2. Busy(y)
      BY <2>1 DEF Behind
    <3>3. CASE y = w
      BY <1>0, <1>1, <1>2, <1>5, <3>1, <3>3
    <3>4. CASE y # w
      BY <1>1, <1>2, <1>5, <3>1, <3>2, <3>4
    <3> QED BY <3>3, <3>4
  <2> QED BY <1>3, <2>1 DEF BehindIsBehind
<1>10. RivalsLate'
  <2>1. \A x \in Workers : Contender(x)' => Contender(x)
    BY <1>0, <1>2, <1>3, <1>4 DEF Contender
  <2>2. ASSUME NEW y \in Workers, NEW id, Unfound(y, id), id # worker[w].token PROVE Unfound(y, id)'
    BY <1>2, <1>3, <1>5, <2>2 DEF Unfound
  <2>3. ASSUME NEW z \in Workers, NEW y \in Workers, Contender(z)', Busy(y)', y # z
        PROVE  \/ Late(y, worker[z].token)'
               \/ /\ worker'[y].version \notin {worker'[z].version, worker'[z].tag}
                  /\ worker'[z].result # NoRow => Unfound(y, worker[z].result)'
    <3>0. \/ Late(y, worker[z].token)
          \/ /\ worker[y].version \notin {worker[z].version, worker[z].tag}
             /\ worker[z].result # NoRow => Unfound(y, worker[z].result)
      BY <1>3, <2>1, <2>3 DEF RowsInv, RivalsLate
    <3>1. CASE z = w
      <4>1. worker'[y] = worker[y] /\ Busy(y)
        BY <1>2, <1>3, <2>3, <3>1
      <4>2. worker[y].version # worker[w].version => Unfound(y, worker[z].result)'
        BY <1>1, <1>2, <1>5, <3>1, <4>1 DEF Unfound
      <4> QED BY <1>2, <1>3, <3>0, <3>1, <4>1, <4>2 DEF Late
    <3>2. CASE z # w
      <4>1. worker'[z] = worker[z] /\ Busy(z)
        BY <1>2, <2>1, <2>3, <3>2, StepClasses DEF Contender, Busy
      <4>2. worker[z].result # worker[w].token
        BY <1>1, <4>1
      <4> QED BY <1>3, <2>2, <3>0, <4>1, <4>2 DEF Late
    <3> QED BY <3>1, <3>2
  <2>4. ASSUME NEW e \in exposures, NEW y \in Workers, Busy(y)', worker'[y].token # e.token
        PROVE  (Late(y, e.token) \/ Unfound(y, e.row))'
    <3>1. Late(y, e.token) \/ Unfound(y, e.row)
      BY <1>3, <2>4 DEF RowsInv, RivalsLate
    <3> QED BY <1>1, <1>3, <2>2, <3>1 DEF Late
  <2> QED BY <2>3, <2>4 DEF RivalsLate
<1>11. ReplyThere' /\ DeliveredRowKept'
  <2>1. \A x \in Workers \ {w} : worker'[x] = worker[x] /\ (Holds(x)' <=> Holds(x))
    BY <1>2, <1>3
  <2>2. row \in rows' /\ row.id = worker'[w].result /\ rows \subseteq rows'
    BY <1>2
  <2> QED BY <1>2, <2>1, <2>2 DEF RowsInv, ReplyThere, DeliveredRowKept
<1> QED BY <1>6, <1>7, <1>8, <1>9, <1>10, <1>11 DEF RowsInv

\* The job points to the reply of its holder.
LEMMA AttachRows ==
    ASSUME Inv, RowsInv, QueueTypes', NEW w \in Workers, worker[w].pc = "attach", Holds(w),
           job'.token = job.token, job'.status = job.status, job'.version = job.version,
           job'.result = worker[w].result, Goto(w, "guard1"),
           UNCHANGED <<rows, exposures, claims, overrun>>
    PROVE  RowsInv'
<1>0. /\ QueueTypes /\ Busy(w) /\ worker[w].pc \in BeforeSend /\ worker[w].pc \in Chosen
      /\ worker[w].result # NoRow /\ worker[w].result \in 0 .. claims /\ job.version \in Nat
  BY DEF Inv, Types, QueueTypes, Jobs, Busy, BeforeSend, Chosen, RowsInv, RowsIssued, ChoicesKnown
<1>1. "guard1" \in Chosen /\ "guard1" \notin Unsaved /\ "guard1" \notin SendWindow
      /\ "guard1" \notin AfterSend /\ "guard1" # "record"
  BY DEF Chosen, Unsaved, SendWindow, AfterSend
<1>2. WorkersQuiet
  BY <1>0, <1>1, GotoQuiet
<1>3. /\ \A x \in Workers : Busy(x)' => Busy(x) /\ worker'[x].token = worker[x].token
      /\ \A x \in Workers : Busy(x)' => worker'[x].result = worker[x].result
                                        /\ worker'[x].version = worker[x].version
      /\ \A x \in Workers : Busy(x)' => (Holds(x)' <=> Holds(x))
      /\ \A x \in Workers : worker'[x].pc \in Unsaved => Busy(x)' /\ worker[x].pc \in Unsaved
      /\ \A x \in Workers : worker'[x].pc \in SendWindow => InWindow(x)
  <2>1. \A x \in Workers : worker'[x].pc # "idle" =>
          /\ worker[x].pc # "idle" /\ worker'[x].token = worker[x].token
          /\ worker'[x].result = worker[x].result /\ worker'[x].version = worker[x].version
          /\ worker'[x].pc \in Unsaved => worker[x].pc \in Unsaved
          /\ worker'[x].pc \in SendWindow => worker[x].pc \in SendWindow
    BY <1>2 DEF WorkersQuiet, QuietMove
  <2>2. "idle" \notin Unsaved /\ "idle" \notin SendWindow
    BY DEF Unsaved, SendWindow
  <2>3. \A x \in Workers : worker'[x].token = worker[x].token => (Holds(x)' <=> Holds(x))
    BY DEF Holds
  <2> QED BY <2>1, <2>2, <2>3 DEF Busy, InWindow
<1>4. /\ \A e \in exposures : e.row # worker[w].result
      /\ \A x \in Workers : InWindow(x) => worker[x].result # worker[w].result
  BY <1>0 DEF RowsInv, RowsSpent
<1>5. RowsIssued' /\ NoReplyReused'
  <2>1. \A x \in Workers : Busy(x)' => worker'[x].result \in 0 .. claims
    BY <1>3 DEF RowsInv, RowsIssued
  <2>2. ASSUME NEW x \in Workers, worker'[x].pc \in Unsaved
        PROVE  /\ \A r \in rows : r.id # worker'[x].token
               /\ \A e \in exposures : e.row # worker'[x].token
               /\ job'.result # worker'[x].token
               /\ \A y \in Workers : Busy(y)' => worker'[y].result # worker'[x].token
    BY <1>0, <1>3, <2>2 DEF RowsInv, RowsIssued
  <2> QED BY <1>0, <2>1, <2>2 DEF RowsInv, RowsIssued, NoReplyReused
<1>6. BehindIsBehind'
  <2> SUFFICES ASSUME job.status \notin Settled, NEW y \in Workers, Behind(y)'
               PROVE  /\ worker[y].version < job.version
                      /\ worker[y].result # worker[w].result
                      /\ \A r \in rows : r.id = worker[w].result => r.version # worker[y].version
                      /\ \A r \in rows : r.version = job.version => r.id # worker[y].result
    BY <1>3 DEF BehindIsBehind, Behind
  <2>1. Behind(y) /\ Busy(y) /\ y # w
    BY <1>3 DEF Behind
  <2>2. Contender(w) /\ ~Late(y, worker[w].token)
    BY <1>0, <2>1 DEF Contender, Behind, Late
  <2>3. Unfound(y, worker[w].result)
    BY <1>0, <2>1, <2>2 DEF RowsInv, RivalsLate
  <2> QED BY <2>1, <2>3 DEF RowsInv, BehindIsBehind, Unfound
<1>7. MovesQuiet
  BY <1>2, <1>3 DEF WorkersQuiet, MovesQuiet
<1>8. GoneKept
  <2>1. \A x \in Workers : worker'[x].pc \in SendWindow => InWindow(x)
    BY <1>3
  <2> QED BY <1>4, <2>1 DEF GoneKept, GoneAfter
<1> QED
  BY <1>5, <1>6, <1>7, <1>8, QuietChoices, QuietSpent, QuietRivals, QuietThere DEF RowsInv

\* The delivery starts: from now on the row belongs to this worker.
LEMMA MarkRows ==
    ASSUME Inv, RowsInv, QueueTypes', NEW w \in Workers, MarkSending(w), Holds(w) PROVE RowsInv'
<1>0. /\ QueueTypes /\ job \in Jobs /\ worker[w] \in WorkerStates /\ worker[w].pc = "mark"
      /\ UNCHANGED <<rows, exposures, claims, overrun>>
  BY DEF Inv, Types, QueueTypes, MarkSending
<1>1. /\ Busy(w) /\ worker[w].pc \in BeforeSend /\ worker[w].pc \in Chosen /\ ~InWindow(w)
      /\ worker[w].result # NoRow
  BY <1>0 DEF Busy, BeforeSend, Chosen, InWindow, SendWindow, RowsInv, ChoicesKnown
<1>2. /\ job.status = "PROCESSING" /\ worker[w].version = job.version /\ job.token = worker[w].token
  BY <1>1, HolderAnswers DEF Holds
<1>3. /\ job'.status = "SENDING" /\ job'.token = job.token /\ job'.version = job.version
      /\ job'.result = job.result
  BY <1>0 DEF MarkSending, UpdateClaimed, Jobs
<1>4. /\ worker'[w].pc = "guard2" /\ worker'[w].token = worker[w].token
      /\ worker'[w].version = worker[w].version /\ worker'[w].result = worker[w].result
      /\ worker'[w].tag = worker[w].tag
      /\ \A x \in Workers \ {w} : worker'[x] = worker[x]
  BY <1>0 DEF MarkSending, Goto, QueueTypes, WorkerStates
<1>5. "guard2" \in SendWindow /\ "guard2" \notin Unsaved /\ "guard2" \notin BeforeSend
      /\ "guard2" \notin Chosen /\ "guard2" \notin AfterSend /\ "guard2" # "record"
  BY DEF SendWindow, Unsaved, BeforeSend, Chosen, AfterSend
<1>6. /\ \A x \in Workers : (Busy(x)' <=> Busy(x)) /\ (Holds(x)' <=> Holds(x)) /\ (Behind(x)' <=> Behind(x))
      /\ \A x \in Workers : worker'[x].token = worker[x].token /\ worker'[x].version = worker[x].version
                            /\ worker'[x].result = worker[x].result /\ worker'[x].tag = worker[x].tag
  BY <1>0, <1>1, <1>2, <1>3, <1>4 DEF Busy, Holds, Behind, Leased
<1>7. RowsIssued' /\ NoReplyReused'
  <2>1. \A x \in Workers : worker'[x].pc \in Unsaved => worker[x].pc \in Unsaved
    BY <1>4, <1>5
  <2> QED BY <1>0, <1>3, <1>6, <2>1 DEF RowsInv, RowsIssued, NoReplyReused
<1>8. ChoicesKnown'
  <2>1. \A x \in Workers \ {w} : Exposure(x)' = Exposure(x)
    BY <1>4 DEF Exposure
  <2> QED BY <1>0, <1>1, <1>2, <1>4, <1>5, <1>6, <2>1 DEF RowsInv, ChoicesKnown, Holds
<1>9. RowsSpent'
  <2>1. /\ \A e \in exposures : e.row # worker[w].result
        /\ \A x \in Workers : InWindow(x) => worker[x].result # worker[w].result
        /\ Holds(w)
    BY <1>1 DEF RowsInv, RowsSpent
  <2>2. \A x \in Workers : InWindow(x)' => x = w \/ InWindow(x)
    BY <1>4 DEF InWindow
  <2>3. \A e \in exposures : job.result # e.row
    BY <1>2 DEF RowsInv, RowsSpent, Gone, Settled
  <2>4. \A x \in Workers : InWindow(x) => job.result # worker[x].result
    BY <1>2 DEF RowsInv, RowsSpent, Gone, Settled
  <2>5. \A r \in rows : r.id = worker[w].result => r.version <= worker[w].version
    BY <1>2 DEF RowsInv, RowsIssued
  <2>6. \A x \in Workers : Holds(x)' /\ worker'[x].pc \in BeforeSend => FALSE
    <3>1. \A x \in Workers : worker'[x].pc \in BeforeSend => x # w /\ worker[x].pc \in BeforeSend
      BY <1>4, <1>5
    <3>2. \A x \in Workers : Holds(x) /\ worker[x].pc \in BeforeSend => x = w
      BY <1>1, HolderAnswers, OneHolder
    <3> QED BY <1>6, <3>1, <3>2
  <2>7. \A x \in Workers : InWindow(x)' => GoneAfter(worker[x].result, worker[x].token)
    BY <1>2, <1>3, <2>2, <2>4 DEF GoneAfter
  <2>8. \A e \in exposures : GoneAfter(e.row, e.token)
    BY <1>3, <2>3 DEF GoneAfter
  <2>9. \A x \in Workers : InWindow(x)' =>
          /\ \A r \in rows : r.id = worker[x].result => r.version <= worker[x].version
          /\ \A e \in exposures : e.row # worker[x].result
          /\ \A y \in Workers : InWindow(y)' /\ worker[y].result = worker[x].result => y = x
    BY <2>1, <2>2, <2>5 DEF RowsInv, RowsSpent
  <2> QED
    BY <1>0, <1>6, <2>6, <2>7, <2>8, <2>9 DEF RowsInv, RowsSpent, Gone, GoneAfter
<1>10. BehindIsBehind'
  BY <1>0, <1>2, <1>3, <1>6 DEF RowsInv, BehindIsBehind, Settled
<1>11. RivalsLate'
  <2>1. \A x \in Workers : Contender(x)' => Contender(x)
    BY <1>1, <1>4, <1>6 DEF Contender, MarkSending
  <2> QED BY <1>0, <1>6, <2>1 DEF RowsInv, RivalsLate, Late, Unfound
<1>12. ReplyThere' /\ DeliveredRowKept'
  <2>1. \A x \in Workers : worker'[x].pc \in SendWindow \/ (Holds(x)' /\ worker'[x].pc \in Chosen) =>
          worker[x].pc \in SendWindow \/ (Holds(x) /\ worker[x].pc \in Chosen)
    BY <1>1, <1>4, <1>6 DEF MarkSending
  <2> QED BY <1>0, <1>6, <2>1 DEF RowsInv, ReplyThere, DeliveredRowKept
<1> QED BY <1>7, <1>8, <1>9, <1>10, <1>11, <1>12 DEF RowsInv

\* A row that is tagged anew stays the row it is.
LEMMA RetagFields ==
    ASSUME NEW id, NEW v, \A r \in rows : r \in [id : Nat, version : Nat, text : Nat, quote : BOOLEAN]
    PROVE  /\ \A q \in Retagged(id, v) : \E r \in rows :
                /\ q.id = r.id
                /\ q = IF r.id = id THEN [r EXCEPT !.version = v] ELSE r
                /\ r.id = id => q.version = v
                /\ r.id # id => q = r
           /\ \A r \in rows : \E q \in Retagged(id, v) : q.id = r.id
<1>1. ASSUME NEW r \in rows
      PROVE  [r EXCEPT !.version = v].id = r.id /\ [r EXCEPT !.version = v].version = v
  OBVIOUS
<1> QED BY <1>1 DEF Retagged

\* The row of a delivery is tagged by the worker that owns it, with a version
\* that no rival answers.
LEMMA RetagRows ==
    ASSUME Inv, RowsInv, QueueTypes', WorkersQuiet, JobStill, NEW w \in Workers, Contender(w), Busy(w),
           worker[w].result # NoRow,
           ~(worker[w].pc \in BeforeSend), NEW v \in {worker[w].version, worker[w].tag},
           worker[w].tag <= worker[w].version,
           rows' = Retagged(worker[w].result, v), UNCHANGED <<overrun, exposures, claims>>,
           \A e \in exposures : e.row = worker[w].result => e.token = worker[w].token /\ v <= e.version,
           \A x \in Workers \ {w} : Contender(x) => worker[x].result # worker[w].result,
           Gone(worker[w].result, worker[w].token)
    PROVE  RowsInv'
<1>0. /\ QueueTypes /\ worker[w] \in WorkerStates /\ v \in Nat /\ v <= job.version /\ job.version \in Nat
      /\ worker[w].version \in Nat /\ worker[w].tag \in Nat /\ worker[w].version <= job.version
      /\ v <= worker[w].version
  <2>1. worker[w] \in WorkerStates /\ worker[w].version \in 1 .. job.version /\ QueueTypes /\ job \in Jobs
    BY DEF Inv, Types, QueueTypes, DeliveryInv, VersionsQueued
  <2> QED BY <2>1 DEF WorkerStates, Jobs
<1>1. /\ \A q \in rows' : \E r \in rows :
           /\ q.id = r.id
           /\ r.id = worker[w].result => q.version = v
           /\ r.id # worker[w].result => q = r
      /\ \A r \in rows : \E q \in rows' : q.id = r.id
  BY <1>0, RetagFields DEF QueueTypes, Rows
<1>2. \A q, p \in rows' : q.id = p.id => q = p
  <2>1. SUFFICES ASSUME NEW q \in rows', NEW p \in rows', q.id = p.id PROVE q = p
    OBVIOUS
  <2>2. PICK r \in rows : /\ q.id = r.id
                          /\ q = IF r.id = worker[w].result THEN [r EXCEPT !.version = v] ELSE r
    BY <1>0, RetagFields DEF QueueTypes, Rows
  <2>3. PICK t \in rows : /\ p.id = t.id
                          /\ p = IF t.id = worker[w].result THEN [t EXCEPT !.version = v] ELSE t
    BY <1>0, RetagFields DEF QueueTypes, Rows
  <2>4. r = t
    BY <2>1, <2>2, <2>3 DEF RowsInv, RowsIssued
  <2> QED BY <2>2, <2>3, <2>4
<1>3. ASSUME NEW q \in rows', q.id # worker[w].result PROVE q \in rows
  BY <1>1, <1>3
<1>4. ASSUME NEW q \in rows', q.id = worker[w].result PROVE q.version = v
  BY <1>1, <1>4
<1>5. ASSUME NEW x \in Workers, worker'[x].pc # "idle"
      PROVE  /\ Busy(x) /\ worker'[x].token = worker[x].token /\ worker'[x].version = worker[x].version
             /\ worker'[x].result = worker[x].result /\ worker'[x].tag = worker[x].tag
             /\ (Holds(x)' <=> Holds(x)) /\ (Behind(x)' <=> Behind(x)) /\ Exposure(x)' = Exposure(x)
             /\ worker'[x].pc \in Unsaved => worker[x].pc \in Unsaved
             /\ worker'[x].pc \in Chosen => worker[x].pc \in Chosen
             /\ worker'[x].pc \in SendWindow => worker[x].pc \in SendWindow
             /\ worker'[x].pc \in AfterSend => worker[x].pc \in AfterSend
             /\ worker'[x].pc = "record" => worker[x].pc = "record"
  <2>1. /\ worker[x].pc # "idle" /\ worker'[x].token = worker[x].token /\ worker'[x].version = worker[x].version
        /\ worker'[x].result = worker[x].result /\ worker'[x].tag = worker[x].tag
        /\ worker'[x].text = worker[x].text
        /\ worker'[x].pc \in Unsaved => worker[x].pc \in Unsaved
        /\ worker'[x].pc \in Chosen => worker[x].pc \in Chosen
        /\ worker'[x].pc \in SendWindow => worker[x].pc \in SendWindow
        /\ worker'[x].pc \in AfterSend => worker[x].pc \in AfterSend
        /\ worker'[x].pc = "record" => worker[x].pc = "record"
    BY <1>5 DEF WorkersQuiet, QuietMove
  <2>2. Holds(x)' <=> Holds(x)
    BY <2>1 DEF Holds, JobStill
  <2> QED BY <1>5, <2>1, <2>2 DEF Busy, Behind, Exposure
<1>6. "idle" \notin Unsaved \cup Chosen \cup SendWindow \cup AfterSend \cup {"record"}
      /\ \A pc \in BeforeSend : pc \in Unsaved \/ pc \in Chosen
  BY StepClasses, BeforeSplit
<1>7. RowsIssued' /\ NoReplyReused'
  <2>1. \A q \in rows' : q.id \in 1 .. claims /\ q.version <= job.version
    BY <1>0, <1>1 DEF RowsInv, RowsIssued
  <2>2. \A x \in Workers : Busy(x)' => worker'[x].result \in 0 .. claims
    BY <1>5 DEF RowsInv, RowsIssued, Busy
  <2>3. ASSUME NEW x \in Workers, worker'[x].pc \in Unsaved
        PROVE  /\ \A q \in rows' : q.id # worker'[x].token
               /\ \A e \in exposures : e.row # worker'[x].token
               /\ job.result # worker'[x].token
               /\ \A y \in Workers : Busy(y)' => worker'[y].result # worker'[x].token
    <3>1. worker[x].pc \in Unsaved /\ worker'[x].token = worker[x].token
      BY <1>5, <1>6, <2>3
    <3>2. \A y \in Workers : Busy(y)' => Busy(y) /\ worker'[y].result = worker[y].result
      BY <1>5 DEF Busy
    <3> QED BY <1>1, <3>1, <3>2 DEF RowsInv, RowsIssued
  <2> QED BY <1>2, <2>1, <2>2, <2>3 DEF RowsInv, RowsIssued, NoReplyReused, JobStill
<1>8. ChoicesKnown'
  BY <1>5, <1>6 DEF RowsInv, ChoicesKnown
<1>9. RowsSpent'
  <2>1. \A x \in Workers : worker'[x].pc \in SendWindow => InWindow(x)
          /\ worker'[x].result = worker[x].result /\ worker'[x].version = worker[x].version
          /\ worker'[x].token = worker[x].token
    BY <1>5, <1>6 DEF InWindow
  <2>2. \A x \in Workers : Holds(x)' /\ worker'[x].pc \in BeforeSend =>
          Holds(x) /\ worker[x].pc \in BeforeSend /\ worker'[x].result = worker[x].result
    BY <1>5, <1>6, BeforeSplit
  <2>3. \A e \in exposures : \A q \in rows' : q.id = e.row => q.version <= e.version
    BY <1>3, <1>4 DEF RowsInv, RowsSpent
  <2>4. \A x \in Workers : worker'[x].pc \in SendWindow =>
          \A q \in rows' : q.id = worker[x].result => q.version <= worker[x].version
    BY <1>0, <1>3, <1>4, <2>1 DEF RowsInv, RowsSpent, Contender, InWindow
  <2>5. \A x \in Workers : worker'[x].pc \in SendWindow =>
          /\ Gone(worker[x].result, worker[x].token)
          /\ \A e \in exposures : e.row # worker[x].result
          /\ \A y \in Workers : worker'[y].pc \in SendWindow /\ worker[y].result = worker[x].result => y = x
    BY <2>1 DEF RowsInv, RowsSpent
  <2>6. \A x \in Workers : Holds(x)' /\ worker'[x].pc \in BeforeSend =>
          /\ \A e \in exposures : e.row # worker[x].result
          /\ \A y \in Workers : worker'[y].pc \in SendWindow => worker[y].result # worker[x].result
    BY <2>1, <2>2 DEF RowsInv, RowsSpent
  <2>7. \A e \in exposures : Gone(e.row, e.token)
    BY DEF RowsInv, RowsSpent
  <2>8. \A row, token : Gone(row, token) => GoneAfter(row, token)
    BY DEF Gone, GoneAfter, JobStill
  <2>9. \A x \in Workers : worker'[x].pc \in SendWindow => GoneAfter(worker'[x].result, worker'[x].token)
    BY <2>1, <2>5, <2>8
  <2>10. \A e \in exposures : GoneAfter(e.row, e.token)
    BY <2>7, <2>8
  <2> HIDE DEF Gone
  <2> QED BY <2>1, <2>2, <2>3, <2>4, <2>5, <2>6, <2>9, <2>10 DEF RowsSpent, GoneAfter, Gone, InWindow
<1>10. ASSUME NEW y \in Workers, Busy(y), y # w, ~Late(y, worker[w].token)
       PROVE  worker[y].version # v /\ Unfound(y, worker[w].result)
  BY <1>10 DEF RowsInv, RivalsLate
<1>11. BehindIsBehind'
  <2> SUFFICES ASSUME job.status \notin Settled, NEW y \in Workers, Behind(y)'
               PROVE  /\ worker[y].version < job.version
                      /\ job.result # NoRow =>
                           /\ worker[y].result # job.result
                           /\ \A q \in rows' : q.id = job.result => q.version # worker[y].version
                      /\ \A q \in rows' : q.version = job.version => q.id # worker[y].result
    BY <1>5 DEF BehindIsBehind, Behind, Busy, JobStill
  <2>1. Behind(y) /\ Busy(y)
    BY <1>5 DEF Behind, Busy
  <2>2. /\ worker[y].version < job.version
        /\ job.result # NoRow =>
             /\ worker[y].result # job.result
             /\ \A r \in rows : r.id = job.result => r.version # worker[y].version
        /\ \A r \in rows : r.version = job.version => r.id # worker[y].result
    BY <2>1 DEF RowsInv, BehindIsBehind
  <2>3. CASE y = w
    <3>1. job.result # NoRow => job.result # worker[w].result
      BY <2>2, <2>3
    <3>2. v # job.version
      BY <1>0, <2>2, <2>3
    <3> QED BY <1>3, <1>4, <2>2, <3>1, <3>2
  <2>4. CASE y # w
    <3>1. worker[y].version # v /\ worker[y].result # worker[w].result
      BY <1>10, <2>1, <2>4 DEF Behind, Late, Unfound
    <3> QED BY <1>3, <1>4, <2>2, <3>1
  <2> QED BY <2>3, <2>4
<1>12. RivalsLate'
  <2>1. \A z \in Workers : Contender(z)' => Contender(z) /\ worker'[z].pc # "idle"
    BY <1>5, <1>6, BeforeSplit DEF Contender
  <2>2. ASSUME NEW y \in Workers, Busy(y)', NEW id, Unfound(y, id), id # worker[w].result
        PROVE  Unfound(y, id)'
    <3>1. worker'[y].version = worker[y].version /\ worker'[y].result = worker[y].result
      BY <1>5, <2>2 DEF Busy
    <3> QED BY <1>3, <2>2, <3>1 DEF Unfound
  <2>3. ASSUME NEW y \in Workers, Busy(y)', y # w
        PROVE  \/ Late(y, worker[w].token)
               \/ /\ worker'[y].result # worker[w].result
                  /\ \A q \in rows' : q.id = worker[w].result => q.version # worker'[y].version
    <3>1. worker'[y].version = worker[y].version /\ worker'[y].result = worker[y].result /\ Busy(y)
      BY <1>5, <2>3 DEF Busy
    <3>2. CASE ~Late(y, worker[w].token)
      <4>1. worker[y].version # v /\ worker[y].result # worker[w].result
        BY <1>10, <2>3, <3>1, <3>2 DEF Unfound
      <4> QED BY <1>4, <3>1, <4>1
    <3> QED BY <3>2
  <2>4. ASSUME NEW y \in Workers, Busy(y)', NEW token, Late(y, token)
        PROVE  worker'[y].token \in overrun' /\ worker'[y].token < token
    BY <1>5, <2>4 DEF Busy, Late
  <2>5. ASSUME NEW z \in Workers, NEW y \in Workers, Contender(z)', Busy(y)', y # z
        PROVE  \/ Late(y, worker[z].token)'
               \/ /\ worker'[y].version \notin {worker'[z].version, worker'[z].tag}
                  /\ worker'[z].result # NoRow => Unfound(y, worker[z].result)'
    <3>0. /\ Contender(z) /\ Busy(y) /\ worker'[y].version = worker[y].version
          /\ worker'[z].token = worker[z].token /\ worker'[z].version = worker[z].version
          /\ worker'[z].result = worker[z].result /\ worker'[z].tag = worker[z].tag
      BY <1>5, <2>1, <2>5 DEF Busy
    <3>1. \/ Late(y, worker[z].token)
          \/ /\ worker[y].version \notin {worker[z].version, worker[z].tag}
             /\ worker[z].result # NoRow => Unfound(y, worker[z].result)
      BY <2>5, <3>0 DEF RowsInv, RivalsLate
    <3>2. CASE Late(y, worker[z].token)
      BY <2>4, <2>5, <3>0, <3>2 DEF Late
    <3>3. CASE ~Late(y, worker[z].token) /\ z = w
      <4>1. /\ worker'[y].result # worker[w].result
            /\ \A q \in rows' : q.id = worker[w].result => q.version # worker'[y].version
        BY <2>3, <2>5, <3>3
      <4> QED BY <3>0, <3>1, <3>3, <4>1 DEF Unfound
    <3>4. CASE ~Late(y, worker[z].token) /\ z # w
      <4>1. worker[z].result # worker[w].result
        BY <3>0, <3>4
      <4>2. worker[z].result # NoRow => Unfound(y, worker[z].result)
        BY <3>1, <3>4
      <4>3. Unfound(y, worker[z].result) => worker'[y].result # worker[z].result
                 /\ \A q \in rows' : q.id = worker[z].result => q.version # worker'[y].version
        BY <2>2, <2>5, <4>1 DEF Unfound
      <4> QED BY <3>0, <3>1, <3>4, <4>2, <4>3 DEF Unfound
    <3> QED BY <3>2, <3>3, <3>4
  <2>6. ASSUME NEW e \in exposures, NEW y \in Workers, Busy(y)', worker'[y].token # e.token
        PROVE  (Late(y, e.token) \/ Unfound(y, e.row))'
    <3>0. Busy(y) /\ worker[y].token # e.token /\ worker'[y].token = worker[y].token
      BY <1>5, <2>6 DEF Busy
    <3>1. Late(y, e.token) \/ Unfound(y, e.row)
      BY <2>6, <3>0 DEF RowsInv, RivalsLate
    <3>2. CASE Late(y, e.token)
      BY <2>4, <2>6, <3>2 DEF Late
    <3>3. CASE ~Late(y, e.token) /\ e.row = worker[w].result
      <4>1. e.token = worker[w].token /\ y # w
        BY <3>0, <3>3
      <4> QED BY <2>3, <2>6, <3>3, <4>1 DEF Unfound
    <3>4. CASE Unfound(y, e.row) /\ e.row # worker[w].result
      BY <2>2, <2>6, <3>4
    <3> QED BY <3>1, <3>2, <3>3, <3>4
  <2> QED BY <2>5, <2>6 DEF RivalsLate
<1>13. ReplyThere' /\ DeliveredRowKept'
  <2>1. \A z \in Workers : worker'[z].pc \in SendWindow \/ (Holds(z)' /\ worker'[z].pc \in Chosen) =>
          /\ worker[z].pc \in SendWindow \/ (Holds(z) /\ worker[z].pc \in Chosen)
          /\ worker'[z].token = worker[z].token /\ worker'[z].result = worker[z].result
    BY <1>5, <1>6
  <2>2. \A z \in Workers : worker'[z].pc \in SendWindow \/ (Holds(z)' /\ worker'[z].pc \in Chosen) =>
          (\E q \in rows' : q.id = worker'[z].result) \/ (\E t \in overrun : t < worker'[z].token)
    BY <1>1, <2>1 DEF RowsInv, ReplyThere
  <2>3. \A e \in exposures : (\E q \in rows' : q.id = e.row) \/ (\E t \in overrun : t < e.token)
    BY <1>1 DEF RowsInv, DeliveredRowKept
  <2> QED BY <2>2, <2>3 DEF ReplyThere, DeliveredRowKept
<1> QED BY <1>7, <1>8, <1>9, <1>11, <1>12, <1>13 DEF RowsInv

\* The row is marked as started.
LEMMA StartRows ==
    ASSUME Inv, RowsInv, QueueTypes', NEW w \in Workers, StartSend(w) PROVE RowsInv'
<1>0. /\ QueueTypes /\ Busy(w) /\ worker[w].pc = "start" /\ InWindow(w) /\ Contender(w)
      /\ ~(worker[w].pc \in BeforeSend) /\ worker[w].pc \in SendWindow
  BY DEF Inv, Types, QueueTypes, StartSend, Busy, InWindow, SendWindow, Contender, BeforeSend
<1>1. WorkersQuiet
  <2>1. CASE Goto(w, "guard3")
    <3>1. "guard3" \in SendWindow /\ "guard3" \notin Unsaved /\ "guard3" \notin Chosen
          /\ "guard3" \notin AfterSend /\ "guard3" # "record"
      BY DEF SendWindow, Unsaved, Chosen, AfterSend
    <3> QED BY <1>0, <2>1, <3>1, GotoQuiet
  <2>2. CASE GiveUp(w, "discard", "CANCELLED")
    BY <1>0, <2>2, GiveUpQuiet DEF GivingUp
  <2> QED BY <2>1, <2>2 DEF StartSend
<1>2. /\ worker[w].result # NoRow /\ worker[w].tag <= worker[w].version
      /\ \A x \in Workers : worker[x].pc \in AfterSend => Exposure(x) \in exposures
  BY <1>0 DEF RowsInv, ChoicesKnown
<1>3. /\ Gone(worker[w].result, worker[w].token)
      /\ \A e \in exposures : e.row # worker[w].result
      /\ \A x \in Workers : InWindow(x) /\ worker[x].result = worker[w].result => x = w
      /\ \A x \in Workers : Holds(x) /\ worker[x].pc \in BeforeSend => worker[w].result # worker[x].result
  BY <1>0 DEF RowsInv, RowsSpent
<1>4. ASSUME NEW x \in Workers \ {w}, Contender(x) PROVE worker[x].result # worker[w].result
  <2>1. CASE worker[x].pc \in SendWindow
    BY <1>3, <2>1 DEF InWindow
  <2>2. CASE worker[x].pc = "record"
    <3>1. Exposure(x) \in exposures /\ Exposure(x).row = worker[x].result
      BY <1>2, <2>2 DEF AfterSend, Exposure
    <3> QED BY <1>3, <3>1
  <2>3. CASE Holds(x) /\ worker[x].pc \in BeforeSend
    BY <1>3, <2>3
  <2> QED BY <1>4, <2>1, <2>2, <2>3 DEF Contender
<1>5. /\ rows' = Retagged(worker[w].result, worker[w].version) /\ JobStill
      /\ UNCHANGED <<overrun, exposures, claims>>
  BY DEF StartSend, JobStill
<1> QED BY <1>0, <1>1, <1>2, <1>3, <1>4, <1>5, RetagRows

\* The provider's identifier is stored, under the version the row was written for.
LEMMA RecordRows ==
    ASSUME Inv, RowsInv, QueueTypes', NEW w \in Workers, RecordSent(w) PROVE RowsInv'
<1>0. /\ QueueTypes /\ Busy(w) /\ worker[w].pc = "record" /\ Contender(w) /\ ~(worker[w].pc \in BeforeSend)
      /\ worker[w].pc \in AfterSend /\ JobStill /\ UNCHANGED <<overrun, exposures, claims>>
      /\ worker[w].version \in Nat /\ worker[w].tag \in Nat
  BY DEF Inv, Types, QueueTypes, RecordSent, Busy, AfterSend, Contender, BeforeSend, JobStill, WorkerStates
<1>1. CASE rows' = rows /\ GiveUp(w, "fail", "DELIVERY_UNKNOWN")
  <2>1. WorkersQuiet
    BY <1>0, <1>1, GiveUpQuiet DEF GivingUp
  <2> QED BY <1>0, <1>1, <2>1, StillKeeps
<1>2. CASE rows' = Retagged(worker[w].result, worker[w].tag) /\ Goto(w, "finish")
  <2>1. WorkersQuiet
    <3>1. "finish" \in AfterSend /\ "finish" \notin Unsaved /\ "finish" \notin Chosen
          /\ "finish" \notin SendWindow /\ "finish" # "record"
      BY DEF SendWindow, Unsaved, Chosen, AfterSend
    <3> QED BY <1>0, <1>2, <3>1, GotoQuiet
  <2>2. /\ worker[w].result # NoRow /\ worker[w].tag <= worker[w].version
        /\ \A x \in Workers : worker[x].pc \in AfterSend => Exposure(x) \in exposures
    BY <1>0 DEF RowsInv, ChoicesKnown
  <2>3. /\ Exposure(w) \in exposures /\ Exposure(w).row = worker[w].result
        /\ Exposure(w).token = worker[w].token /\ Exposure(w).version = worker[w].version
    BY <1>0, <2>2 DEF Exposure
  <2>4. \A e \in exposures : e.row = worker[w].result => e = Exposure(w)
    BY <2>3 DEF RowsInv, NoReplyReused
  <2>5. /\ Gone(worker[w].result, worker[w].token)
        /\ \A x \in Workers : InWindow(x) => worker[x].result # worker[w].result
        /\ \A x \in Workers : Holds(x) /\ worker[x].pc \in BeforeSend => worker[w].result # worker[x].result
    <3>1. Gone(Exposure(w).row, Exposure(w).token)
      BY <2>3 DEF RowsInv, RowsSpent
    <3>2. Gone(worker[w].result, worker[w].token)
      BY <2>3, <3>1
    <3> QED BY <2>3, <3>2 DEF RowsInv, RowsSpent
  <2>6. ASSUME NEW x \in Workers \ {w}, Contender(x) PROVE worker[x].result # worker[w].result
    <3>1. CASE worker[x].pc \in SendWindow
      BY <2>5, <3>1 DEF InWindow
    <3>2. CASE worker[x].pc = "record"
      <4>1. /\ Exposure(x) \in exposures /\ Exposure(x).row = worker[x].result
            /\ Exposure(x).token = worker[x].token /\ Busy(x)
        BY <2>2, <3>2 DEF AfterSend, Exposure, Busy
      <4>2. worker[x].token # worker[w].token
        BY <1>0, <4>1 DEF Inv, DeliveryInv, TokensFresh
      <4> QED BY <2>3, <2>4, <4>1, <4>2
    <3>3. CASE Holds(x) /\ worker[x].pc \in BeforeSend
      BY <2>5, <3>3
    <3> QED BY <2>6, <3>1, <3>2, <3>3 DEF Contender
  <2>7. \A e \in exposures : e.row = worker[w].result => e.token = worker[w].token /\ worker[w].tag <= e.version
    BY <2>2, <2>3, <2>4
  <2> QED BY <1>0, <1>2, <2>1, <2>2, <2>5, <2>6, <2>7, RetagRows
<1> QED BY <1>1, <1>2 DEF RecordSent

\* The reply is handed to the provider.
LEMMA ExposeRows ==
    ASSUME Inv, RowsInv, QueueTypes', NEW w \in Workers, worker[w].pc = "wire",
           exposures' = exposures \cup {Exposure(w)},
           Goto(w, "record") \/ GiveUp(w, "fail", "DELIVERY_UNKNOWN"),
           UNCHANGED <<job, rows, claims, overrun>>
    PROVE  RowsInv'
<1>0. /\ QueueTypes /\ Busy(w) /\ InWindow(w) /\ Contender(w) /\ worker[w] \in WorkerStates
      /\ worker[w].pc \in SendWindow /\ worker[w].pc \notin Unsaved /\ worker[w].pc \notin BeforeSend
  BY DEF Inv, Types, QueueTypes, Busy, InWindow, SendWindow, Contender, Unsaved, BeforeSend
<1>1. /\ worker'[w].token = worker[w].token /\ worker'[w].version = worker[w].version
      /\ worker'[w].result = worker[w].result /\ worker'[w].tag = worker[w].tag
      /\ worker'[w].text = worker[w].text /\ worker'[w].pc \in {"record", "fail"}
      /\ \A x \in Workers \ {w} : worker'[x] = worker[x]
  BY <1>0 DEF Goto, GiveUp, QueueTypes, WorkerStates
<1>2. /\ \A x \in Workers : (Busy(x)' <=> Busy(x)) /\ (Holds(x)' <=> Holds(x)) /\ (Behind(x)' <=> Behind(x))
      /\ \A x \in Workers : worker'[x].token = worker[x].token /\ worker'[x].version = worker[x].version
                            /\ worker'[x].result = worker[x].result /\ worker'[x].tag = worker[x].tag
                            /\ Exposure(x)' = Exposure(x)
  BY <1>0, <1>1 DEF Busy, Holds, Behind, Exposure
<1>3. /\ \A pc \in {"record", "fail"} : pc \notin Unsaved /\ pc \notin Chosen /\ pc \notin SendWindow
                                        /\ pc \notin BeforeSend
      /\ "fail" \notin AfterSend /\ "record" \in AfterSend
  BY DEF Unsaved, Chosen, SendWindow, AfterSend, BeforeSend
<1>4. /\ Exposure(w).row = worker[w].result /\ Exposure(w).token = worker[w].token
      /\ Exposure(w).version = worker[w].version
      /\ \A e \in exposures' : e \in exposures \/ e = Exposure(w)
      /\ exposures \subseteq exposures' /\ Exposure(w) \in exposures'
  BY DEF Exposure
<1>5. /\ worker[w].result # NoRow /\ worker[w].tag <= worker[w].version
  BY <1>0 DEF RowsInv, ChoicesKnown
<1>6. /\ Gone(worker[w].result, worker[w].token)
      /\ \A e \in exposures : e.row # worker[w].result
      /\ \A x \in Workers : InWindow(x) /\ worker[x].result = worker[w].result => x = w
      /\ \A x \in Workers : Holds(x) /\ worker[x].pc \in BeforeSend => worker[w].result # worker[x].result
      /\ \A r \in rows : r.id = worker[w].result => r.version <= worker[w].version
  BY <1>0 DEF RowsInv, RowsSpent
<1>7. RowsIssued' /\ NoReplyReused'
  <2>1. \A x \in Workers : worker'[x].pc \in Unsaved => worker[x].pc \in Unsaved
    BY <1>1, <1>3
  <2>2. worker[w].result \in 0 .. claims /\ claims \in Nat
    BY <1>0 DEF RowsInv, RowsIssued, QueueTypes
  <2>3. \A e \in exposures' : e.row \in 1 .. claims
    BY <1>4, <1>5, <2>2 DEF RowsInv, RowsIssued, NoRow
  <2>4. \A x \in Workers : worker[x].pc \in Unsaved => \A e \in exposures' : e.row # worker[x].token
    BY <1>0, <1>4 DEF RowsInv, RowsIssued
  <2>5. NoReplyReused'
    BY <1>4, <1>6 DEF RowsInv, NoReplyReused
  <2> QED BY <1>2, <2>1, <2>3, <2>4, <2>5 DEF RowsInv, RowsIssued
<1>8. ChoicesKnown'
  <2>1. ASSUME NEW x \in Workers \ {w}
        PROVE  /\ worker'[x].pc \in Chosen \cup SendWindow \cup AfterSend => worker'[x].result # NoRow
               /\ worker'[x].pc \in AfterSend => Exposure(x)' \in exposures'
               /\ (worker'[x].pc \in SendWindow \cup {"record"} \/ (Holds(x)' /\ worker'[x].pc \in Chosen))
                    => worker'[x].tag <= worker'[x].version
    BY <1>1, <1>2, <1>4 DEF RowsInv, ChoicesKnown
  <2> QED BY <1>1, <1>2, <1>4, <1>5, <2>1 DEF ChoicesKnown
<1>9. RowsSpent'
  <2>1. \A x \in Workers : InWindow(x)' => InWindow(x) /\ x # w
    BY <1>1, <1>3 DEF InWindow
  <2>2. \A x \in Workers : Holds(x)' /\ worker'[x].pc \in BeforeSend => Holds(x) /\ worker[x].pc \in BeforeSend
    BY <1>1, <1>2, <1>3
  <2>3. \A e \in exposures' : Gone(e.row, e.token) /\ \A r \in rows : r.id = e.row => r.version <= e.version
    BY <1>4, <1>6 DEF RowsInv, RowsSpent
  <2>4. \A x \in Workers : InWindow(x)' =>
          /\ Gone(worker[x].result, worker[x].token)
          /\ \A r \in rows : r.id = worker[x].result => r.version <= worker[x].version
          /\ \A e \in exposures' : e.row # worker[x].result
          /\ \A y \in Workers : InWindow(y)' /\ worker[y].result = worker[x].result => y = x
    BY <1>0, <1>4, <2>1 DEF RowsInv, RowsSpent
  <2>5. \A x \in Workers : Holds(x)' /\ worker'[x].pc \in BeforeSend =>
          /\ \A e \in exposures' : e.row # worker[x].result
          /\ \A y \in Workers : InWindow(y)' => worker[y].result # worker[x].result
    BY <1>4, <1>6, <2>1, <2>2 DEF RowsInv, RowsSpent
  <2> QED BY <1>2, <2>3, <2>4, <2>5 DEF RowsSpent, Gone
<1>10. BehindIsBehind'
  BY <1>2 DEF RowsInv, BehindIsBehind
<1>11. RivalsLate'
  <2>1. \A x \in Workers : Contender(x)' => Contender(x)
    BY <1>0, <1>1, <1>2, <1>3 DEF Contender
  <2>2. \A y \in Workers : Busy(y) /\ worker[y].token # worker[w].token =>
          Late(y, worker[w].token) \/ Unfound(y, worker[w].result)
    BY <1>0, <1>5 DEF RowsInv, RivalsLate
  <2>3. \A e \in exposures' : \A y \in Workers : Busy(y) /\ worker[y].token # e.token =>
          Late(y, e.token) \/ Unfound(y, e.row)
    BY <1>4, <2>2 DEF RowsInv, RivalsLate
  <2> QED BY <1>2, <2>1, <2>3 DEF RowsInv, RivalsLate, Late, Unfound
<1>12. ReplyThere' /\ DeliveredRowKept'
  <2>1. \A x \in Workers : worker'[x].pc \in SendWindow \/ (Holds(x)' /\ worker'[x].pc \in Chosen) =>
          worker[x].pc \in SendWindow \/ (Holds(x) /\ worker[x].pc \in Chosen)
    BY <1>1, <1>2, <1>3
  <2>2. (\E r \in rows : r.id = worker[w].result) \/ (\E t \in overrun : t < worker[w].token)
    BY <1>0 DEF RowsInv, ReplyThere
  <2>3. DeliveredRowKept'
    BY <1>4, <2>2 DEF RowsInv, DeliveredRowKept
  <2> QED BY <1>2, <2>1, <2>3 DEF RowsInv, ReplyThere
<1> QED BY <1>7, <1>8, <1>9, <1>10, <1>11, <1>12 DEF RowsInv

\* A job that is due after the sweep was due before, or its lease ran out while
\* the reply was generated; the sweep keeps the saved reply.
LEMMA SweptDue ==
    ASSUME NEW j \in Jobs
    PROVE  /\ Swept(j).result = j.result
           /\ Swept(j).status \in Claimable =>
                j.status \in Claimable \/ (j.status = "PROCESSING" /\ j.expired)
           /\ Swept(j) # j /\ Swept(j).status \notin Claimable => Swept(j).status \in Settled
<1> DEFINE due == IF j.attempts < MaxAttempts /\ \E r \in rows : r.version = j.version
                  THEN "RETRY" ELSE "FAILED"
<1>1. CASE j.status = "PROCESSING" /\ j.expired
  <2>1. due \in {"RETRY", "FAILED"} /\ due \in JobStatuses
    BY DEF JobStatuses, Claimable, Settled
  <2>2. Swept(j) = Unlocked(j, due)
    BY <1>1 DEF Swept
  <2> HIDE DEF due
  <2> QED BY <1>1, <2>1, <2>2, UnlockedFields DEF Claimable, Settled
<1>2. CASE j.status = "SENDING" /\ j.expired
  <2>1. Swept(j) = Unlocked(j, "DELIVERY_UNKNOWN")
    BY <1>2 DEF Swept
  <2>2. "DELIVERY_UNKNOWN" \in JobStatuses
    BY DEF JobStatuses, Settled
  <2> QED BY <1>2, <2>1, <2>2, UnlockedFields DEF Claimable, Settled
<1>3. CASE ~(j.status = "PROCESSING" /\ j.expired) /\ ~(j.status = "SENDING" /\ j.expired)
  BY <1>3 DEF Swept
<1> QED BY <1>1, <1>2, <1>3

\* A worker claims the job: whoever is still at work is late or behind.
LEMMA ClaimRows ==
    ASSUME Inv, RowsInv, QueueTypes', NEW w \in Workers, Claim(w) PROVE RowsInv'
<1> DEFINE c == claims + 1
           new == [pc |-> "check", token |-> claims + 1, version |-> job.version,
                   attempt |-> Swept(job).attempts + 1, result |-> job.result,
                   tag |-> 0, text |-> 0, outcome |-> "COMPLETED"]
<1>0. /\ QueueTypes /\ job \in Jobs /\ claims \in Nat /\ job.version \in Nat /\ ~Busy(w)
      /\ claims' = c /\ UNCHANGED <<rows, exposures>>
      /\ \A y \in Workers : worker[y].version \in Nat /\ worker[y].tag \in Nat /\ worker[y].token \in Nat
      /\ \A e \in exposures : e.version \in Nat
      /\ \A r \in rows : r.version \in Nat
  BY DEF Inv, Types, QueueTypes, Jobs, WorkerStates, Rows, Claim, Busy
<1>1. /\ job.status \in Claimable \/ (job.status = "PROCESSING" /\ job.expired)
      /\ Swept(job).result = job.result /\ Swept(job).version = job.version /\ Swept(job) \in Jobs
  BY <1>0, SweptDue, SweptFields DEF Claim
<1>2. /\ job'.status = "PROCESSING" /\ job'.token = c /\ job'.version = job.version
      /\ job'.result = job.result
  BY <1>1 DEF Claim, Jobs
<1>3. /\ new.pc = "check" /\ new.token = c /\ new.version = job.version
      /\ new.result = job.result /\ new.tag = 0
  OBVIOUS
<1>4. worker' = [worker EXCEPT ![w] = new]
  BY DEF Claim
<1> HIDE DEF new
<1>5. /\ worker'[w].pc = "check" /\ worker'[w].token = c /\ worker'[w].version = job.version
      /\ worker'[w].result = job.result /\ worker'[w].tag = 0
      /\ \A x \in Workers \ {w} : worker'[x] = worker[x]
  BY <1>0, <1>3, <1>4 DEF QueueTypes
<1>6. overrun \subseteq overrun' /\ \A x \in Workers : Busy(x) /\ Holds(x) => worker[x].token \in overrun'
  BY <1>1 DEF Claim, NoteOverrun, Holds, Leased, Claimable
<1>7. \A x \in Workers : Busy(x) => worker[x].token \in 1 .. claims /\ x # w /\ worker[x].version \in 1 .. job.version
  BY <1>0 DEF Inv, DeliveryInv, TokensFresh, VersionsQueued
<1>8. /\ \A x \in Workers \ {w} : Busy(x)' <=> Busy(x)
      /\ \A x \in Workers \ {w} : Busy(x) => ~Holds(x)'
      /\ Busy(w)' /\ Holds(w)'
  BY <1>0, <1>2, <1>5, <1>7 DEF Busy, Holds, Leased, NoToken
<1>9. \A y \in Workers \ {w} : Busy(y) => worker[y].token \in overrun' \/ Behind(y)
  BY <1>6 DEF Behind
<1>10. job.status \notin Settled /\ job.status # "SENDING"
  BY <1>1 DEF Claimable, Settled
<1>11. "check" \in Unsaved /\ "check" \notin Chosen /\ "check" \notin SendWindow /\ "check" \notin AfterSend
       /\ "check" \in BeforeSend /\ "check" # "record"
  BY DEF Unsaved, Chosen, SendWindow, AfterSend, BeforeSend
<1>12. RowsIssued'
  <2>1. /\ \A r \in rows' : r.id \in 1 .. c /\ r.version <= job'.version
        /\ job'.result \in 0 .. c /\ job'.token \in {NoToken, claims'}
        /\ \A e \in exposures' : e.row \in 1 .. c
    BY <1>0, <1>2 DEF RowsInv, RowsIssued
  <2>2. \A x \in Workers : Busy(x)' => worker'[x].result \in 0 .. c
    BY <1>0, <1>5, <1>8 DEF RowsInv, RowsIssued
  <2>3. ASSUME NEW x \in Workers, worker'[x].pc \in Unsaved
        PROVE  /\ \A r \in rows : r.id # worker'[x].token
               /\ \A e \in exposures : e.row # worker'[x].token
               /\ job'.result # worker'[x].token
               /\ \A y \in Workers : Busy(y)' => worker'[y].result # worker'[x].token
    <3>1. CASE x = w
      BY <1>0, <1>2, <1>5, <1>8, <3>1 DEF RowsInv, RowsIssued
    <3>2. CASE x # w
      <4>1. /\ \A r \in rows : r.id # worker[x].token
            /\ \A e \in exposures : e.row # worker[x].token
            /\ job.result # worker[x].token
            /\ \A y \in Workers : Busy(y) => worker[y].result # worker[x].token
        BY <1>5, <2>3, <3>2 DEF RowsInv, RowsIssued
      <4> QED BY <1>2, <1>5, <1>8, <3>2, <4>1
    <3> QED BY <3>1, <3>2
  <2> QED BY <1>0, <2>1, <2>2, <2>3 DEF RowsInv, RowsIssued
<1>13. ChoicesKnown'
  <2>1. \A x \in Workers \ {w} : Exposure(x)' = Exposure(x)
    BY <1>5 DEF Exposure
  <2>2. \A x \in Workers \ {w} : worker[x].pc \in Chosen => ~Holds(x)'
    BY <1>8 DEF Chosen, Busy
  <2> QED BY <1>0, <1>5, <1>11, <2>1, <2>2 DEF RowsInv, ChoicesKnown
<1>14. /\ \A e \in exposures : e.row # job.result
       /\ \A x \in Workers : InWindow(x) => worker[x].result # job.result
  BY <1>10 DEF RowsInv, RowsSpent, Gone
<1>15. RowsSpent'
  <2>1. \A x \in Workers : InWindow(x)' <=> InWindow(x) /\ x # w
    BY <1>0, <1>5, <1>11, StepClasses DEF InWindow, Busy
  <2>2. \A x \in Workers : Holds(x)' /\ worker'[x].pc \in BeforeSend => x = w
    BY <1>5, <1>8, StepClasses DEF Busy
  <2>3. \A e \in exposures : GoneAfter(e.row, e.token) /\ \A r \in rows : r.id = e.row => r.version <= e.version
    BY <1>2, <1>14 DEF GoneAfter, RowsInv, RowsSpent
  <2>4. \A x \in Workers : InWindow(x)' =>
          /\ GoneAfter(worker'[x].result, worker'[x].token)
          /\ \A r \in rows : r.id = worker'[x].result => r.version <= worker'[x].version
          /\ \A e \in exposures : e.row # worker'[x].result
          /\ \A y \in Workers : InWindow(y)' /\ worker'[y].result = worker'[x].result => y = x
    BY <1>2, <1>5, <1>14, <2>1 DEF GoneAfter, RowsInv, RowsSpent
  <2>5. \A x \in Workers : Holds(x)' /\ worker'[x].pc \in BeforeSend =>
          /\ \A e \in exposures : e.row # worker'[x].result
          /\ \A y \in Workers : InWindow(y)' => worker'[y].result # worker'[x].result
    BY <1>5, <1>14, <2>1, <2>2
  <2> QED BY <1>0, <2>3, <2>4, <2>5 DEF RowsSpent, Gone, GoneAfter
<1>16. BehindIsBehind'
  <2>1. \A y \in Workers : Behind(y)' => Behind(y) /\ y # w
    BY <1>5, <1>8, <1>9 DEF Behind
  <2> QED BY <1>0, <1>2, <1>5, <1>10, <2>1 DEF RowsInv, BehindIsBehind
<1>17. RivalsLate'
  <2>1. ASSUME NEW y \in Workers \ {w}, Busy(y)
        PROVE  \/ worker[y].token \in overrun' /\ worker[y].token < c
               \/ worker[y].version \notin {job.version, 0} /\ (job.result # NoRow => Unfound(y, job.result))
    <3>1. CASE worker[y].token \in overrun'
      BY <1>0, <1>7, <2>1, <3>1
    <3>2. CASE Behind(y)
      BY <1>0, <1>7, <1>10, <2>1, <3>2 DEF RowsInv, BehindIsBehind, Unfound
    <3> QED BY <1>9, <2>1, <3>1, <3>2
  <2>2. ASSUME NEW e \in exposures
        PROVE  e.version < job.version /\ job.result # e.row
               /\ \A r \in rows : r.id = e.row => r.version # job.version
    BY <1>0, <1>1, <1>14, SpentOlder DEF RowsInv, RowsSpent
  <2>3. ASSUME NEW z \in Workers, worker[z].pc \in SendWindow \cup {"record"}
        PROVE  /\ job.version \notin {worker[z].version, worker[z].tag}
               /\ job.result # worker[z].result
               /\ \A r \in rows : r.id = worker[z].result => r.version # job.version
    <3>1. worker[z].tag <= worker[z].version
      BY <2>3 DEF RowsInv, ChoicesKnown
    <3>2. CASE worker[z].pc \in SendWindow
      <4>1. InWindow(z) /\ worker[z].version < job.version
        BY <1>1, <3>2, SpentOlder DEF InWindow
      <4>2. \A r \in rows : r.id = worker[z].result => r.version <= worker[z].version
        BY <4>1 DEF RowsInv, RowsSpent
      <4> QED BY <1>0, <1>14, <3>1, <4>1, <4>2
    <3>3. CASE worker[z].pc = "record"
      <4>1. Exposure(z) \in exposures /\ Exposure(z).version = worker[z].version
            /\ Exposure(z).row = worker[z].result
        BY <3>3 DEF RowsInv, ChoicesKnown, AfterSend, Exposure
      <4> QED BY <1>0, <2>2, <3>1, <4>1
    <3> QED BY <2>3, <3>2, <3>3
  <2>4. \A z \in Workers : Contender(z)' => z = w \/ (Contender(z) /\ worker[z].pc \in SendWindow \cup {"record"})
    BY <1>5, <1>8, StepClasses DEF Contender, Busy
  <2>5. \A y \in Workers \ {w} : \A token : Late(y, token) => Late(y, token)'
    BY <1>5, <1>6 DEF Late
  <2>6. ASSUME NEW z \in Workers, NEW y \in Workers, Contender(z)', Busy(y)', y # z
        PROVE  \/ worker'[y].token \in overrun' /\ worker'[y].token < worker'[z].token
               \/ /\ worker'[y].version \notin {worker'[z].version, worker'[z].tag}
                  /\ worker'[z].result # NoRow =>
                       worker'[y].result # worker'[z].result
                       /\ \A r \in rows : r.id = worker'[z].result => r.version # worker'[y].version
    <3>1. CASE z = w
      <4>1. y \in Workers \ {w} /\ Busy(y)
        BY <1>8, <2>6, <3>1
      <4> QED BY <1>5, <2>1, <3>1, <4>1 DEF Unfound
    <3>2. CASE z # w /\ y = w
      BY <1>5, <2>3, <2>4, <2>6, <3>2
    <3>3. CASE z # w /\ y # w
      <4>1. Busy(y) /\ Contender(z) /\ worker'[y] = worker[y] /\ worker'[z] = worker[z]
        BY <1>5, <1>8, <2>4, <2>6, <3>3
      <4>2. \/ Late(y, worker[z].token)
            \/ /\ worker[y].version \notin {worker[z].version, worker[z].tag}
               /\ worker[z].result # NoRow => Unfound(y, worker[z].result)
        BY <2>6, <4>1 DEF RowsInv, RivalsLate
      <4> QED BY <1>6, <4>1, <4>2 DEF Late, Unfound
    <3> QED BY <3>1, <3>2, <3>3
  <2>7. ASSUME NEW e \in exposures, NEW y \in Workers, Busy(y)', worker'[y].token # e.token
        PROVE  \/ worker'[y].token \in overrun' /\ worker'[y].token < e.token
               \/ worker'[y].result # e.row /\ \A r \in rows : r.id = e.row => r.version # worker'[y].version
    <3>1. CASE y = w
      BY <1>5, <2>2, <3>1
    <3>2. CASE y # w
      <4>1. Busy(y) /\ worker'[y] = worker[y]
        BY <1>5, <1>8, <2>7, <3>2
      <4>2. Late(y, e.token) \/ Unfound(y, e.row)
        BY <2>7, <4>1 DEF RowsInv, RivalsLate
      <4> QED BY <1>6, <4>1, <4>2 DEF Late, Unfound
    <3> QED BY <3>1, <3>2
  <2> QED BY <1>0, <2>6, <2>7 DEF RivalsLate, Late, Unfound
<1>18. ReplyThere' /\ DeliveredRowKept'
  <2>1. \A z \in Workers : worker'[z].pc \in SendWindow \/ (Holds(z)' /\ worker'[z].pc \in Chosen) =>
          worker[z].pc \in SendWindow /\ z # w
    <3>1. \A z \in Workers \ {w} : worker[z].pc \in Chosen => ~Holds(z)'
      BY <1>8 DEF Chosen, Busy
    <3> QED BY <1>5, <1>11, <3>1
  <2>2. \A z \in Workers \ {w} : worker[z].pc \in SendWindow =>
          (\E r \in rows : r.id = worker[z].result) \/ (\E t \in overrun' : t < worker[z].token)
    BY <1>6 DEF RowsInv, ReplyThere
  <2>3. ASSUME NEW z \in Workers,
               worker'[z].pc \in SendWindow \/ (Holds(z)' /\ worker'[z].pc \in Chosen)
        PROVE  (\E r \in rows : r.id = worker'[z].result) \/ (\E t \in overrun' : t < worker'[z].token)
    <3>1. worker[z].pc \in SendWindow /\ z # w
      BY <2>1, <2>3
    <3>2. worker'[z] = worker[z]
      BY <1>5, <3>1
    <3> QED BY <2>2, <3>1, <3>2
  <2>4. ReplyThere'
    BY <1>0, <2>3 DEF ReplyThere
  <2> QED BY <1>0, <1>6, <2>4 DEF RowsInv, DeliveredRowKept
<1>19. NoReplyReused'
  BY <1>0 DEF RowsInv, NoReplyReused
<1> QED BY <1>12, <1>13, <1>15, <1>16, <1>17, <1>18, <1>19 DEF RowsInv

\* An expired delivery is given up, an expired generation that cannot be retried too.
LEMMA SweepRows ==
    ASSUME Inv, RowsInv, QueueTypes', NEW w \in Workers, Sweep(w) PROVE RowsInv'
<1>1. job \in Jobs /\ job' = Swept(job) /\ Swept(job) # job /\ Swept(job).status \notin Claimable
  BY DEF Inv, Types, QueueTypes, Sweep
<1>2. /\ job'.status \in Settled /\ job'.token = NoToken
      /\ job'.version = job.version /\ job'.result = job.result
  BY <1>1, SweptDue, SweptFields
<1>3. WorkersQuiet /\ overrun \subseteq overrun' /\ UNCHANGED <<rows, exposures, claims>>
  BY DEF Sweep, NoteOverrun, WorkersQuiet, QuietMove
<1> QED BY <1>2, <1>3, CloseRows

\* A worker lets go of the job, for good or for another attempt.
LEMMA ReleaseRows ==
    ASSUME Inv, RowsInv, QueueTypes', NEW w \in Workers, NEW status \in JobStatuses,
           worker[w].pc \in {"settle", "fail"}, UpdateClaimed(w, Unlocked(job, status)),
           status \in Settled \/ (worker[w].pc = "fail" /\ worker[w].outcome = "RETRY"),
           worker' = [worker EXCEPT ![w] = Free], UNCHANGED <<rows, exposures, claims, overrun>>
    PROVE  RowsInv'
<1>0. /\ QueueTypes /\ job \in Jobs /\ Busy(w) /\ ~InWindow(w) /\ worker[w].pc \notin AfterSend
  BY DEF Inv, Types, QueueTypes, Busy, InWindow, SendWindow, AfterSend
<1>1. WorkersQuiet
  BY <1>0, FreeQuiet
<1>2. CASE ~Holds(w)
  BY <1>1, <1>2, StillKeeps DEF UpdateClaimed, JobStill
<1>3. CASE Holds(w)
  <2>1. /\ job'.status = status /\ job'.token = NoToken
        /\ job'.version = job.version /\ job'.result = job.result
    BY <1>0, <1>3, UnlockedFields DEF UpdateClaimed
  <2>2. CASE status \in Settled
    BY <1>1, <2>1, <2>2, CloseRows
  <2>3. CASE status \notin Settled
    <3>1. worker[w].pc = "fail" /\ worker[w].outcome = "RETRY" /\ worker[w].token = job.token
          /\ job.status \notin Settled
      BY <1>3, <2>3 DEF Holds, Leased, Settled
    <3>2. \A e \in exposures : e.token # job.token
      BY <1>0, <3>1 DEF Inv, DeliveryInv, OutcomesHonest
    <3>3. \A e \in exposures : e.row # job.result
      BY <3>1, <3>2 DEF RowsInv, RowsSpent, Gone
    <3>4. ASSUME NEW x \in Workers, worker'[x].pc \in SendWindow PROVE worker[x].result # job.result
      <4>1. InWindow(x) /\ Busy(x)
        BY <1>1, <3>4, StepClasses DEF WorkersQuiet, QuietMove, InWindow, Busy
      <4>2. worker[x].token # job.token
        BY <1>0, <3>1, <4>1 DEF Inv, DeliveryInv, TokensFresh
      <4> QED BY <3>1, <4>1, <4>2 DEF RowsInv, RowsSpent, Gone
    <3>5. \A x \in Workers : Busy(x)' /\ Holds(x) => FALSE
      <4>1. \A x \in Workers : Busy(x)' => Busy(x) /\ x # w
        BY <1>0 DEF QueueTypes, Busy, Free
      <4> QED BY <1>0, <1>3, <4>1, OneHolder
    <3> QED BY <1>1, <2>1, <2>3, <3>1, <3>3, <3>4, <3>5, RetryRows
  <2> QED BY <2>2, <2>3
<1> QED BY <1>2, <1>3

\* A finished delivery is completed, or makes room for the newer message.
LEMMA FinishRows ==
    ASSUME Inv, RowsInv, QueueTypes', NEW w \in Workers, FinishAiResponse(w) PROVE RowsInv'
<1>0. /\ QueueTypes /\ job \in Jobs /\ Busy(w) /\ worker[w].pc = "finish" /\ worker[w].pc \in AfterSend
      /\ worker[w].version \in Nat /\ job.version \in Nat
      /\ UNCHANGED <<rows, exposures, claims, overrun>>
      /\ \A r \in rows : r.version \in Nat
  BY DEF Inv, Types, QueueTypes, Jobs, WorkerStates, Rows, Busy, FinishAiResponse, AfterSend
<1>1. WorkersQuiet
  <2>1. "handoff" \notin Unsaved /\ "handoff" \notin Chosen /\ "handoff" \notin SendWindow
        /\ "handoff" \in AfterSend /\ "handoff" # "record"
    BY DEF Unsaved, Chosen, SendWindow, AfterSend
  <2>2. Goto(w, "handoff")
    BY DEF FinishAiResponse
  <2> QED BY <1>0, <2>1, <2>2, GotoQuiet
<1>2. CASE ~(Holds(w) /\ job.status = "SENDING")
  BY <1>0, <1>1, <1>2, StillKeeps DEF FinishAiResponse, JobStill
<1>3. CASE Holds(w) /\ job.status = "SENDING" /\ ~(job.version > worker[w].version)
  <2>1. job' = Unlocked(job, "COMPLETED")
    BY <1>3 DEF FinishAiResponse, Finished
  <2>2. /\ job'.status = "COMPLETED" /\ job'.token = NoToken
        /\ job'.version = job.version /\ job'.result = job.result
    BY <1>0, <2>1, UnlockedFields DEF JobStatuses, Settled
  <2>3. "COMPLETED" \in Settled
    BY DEF Settled
  <2> QED BY <1>0, <1>1, <2>2, <2>3, CloseRows
<1>4. CASE Holds(w) /\ job.status = "SENDING" /\ job.version > worker[w].version
  <2>1. job' = [Unlocked(job, "PENDING") EXCEPT !.attempts = 0, !.result = NoRow]
    BY <1>4 DEF FinishAiResponse, Finished
  <2>2. Unlocked(job, "PENDING") \in Jobs /\ Unlocked(job, "PENDING").token = NoToken
        /\ Unlocked(job, "PENDING").version = job.version
    BY <1>0, UnlockedFields DEF JobStatuses, Claimable
  <2>3. job'.token = NoToken /\ job'.version = job.version /\ job'.result = NoRow
    BY <2>1, <2>2 DEF Jobs
  <2>4. \A r \in rows : r.id = worker[w].result => r.version <= worker[w].version
    <3>1. Exposure(w) \in exposures
      BY <1>0 DEF RowsInv, ChoicesKnown
    <3>2. Exposure(w).row = worker[w].result /\ Exposure(w).version = worker[w].version
      BY DEF Exposure
    <3> QED BY <3>1, <3>2 DEF RowsInv, RowsSpent
  <2>5. \A y \in Workers : Busy(y)' => Busy(y) /\ worker'[y].version = worker[y].version
          /\ worker'[y].result = worker[y].result /\ worker'[y].token = worker[y].token
    BY <1>1 DEF WorkersQuiet, QuietMove, Busy
  <2>6. ASSUME NEW y \in Workers, Behind(y)'
        PROVE  /\ worker'[y].version < job.version
               /\ \A r \in rows : r.version = job.version => r.id # worker'[y].result
    <3>1. CASE y = w
      BY <1>0, <1>4, <2>4, <2>5, <2>6, <3>1 DEF Behind
    <3>2. CASE y # w
      <4>1. Behind(y)
        BY <1>0, <1>4, <2>5, <2>6, <3>2, OneHolder DEF Behind
      <4>2. job.status \notin Settled
        BY <1>4 DEF Settled
      <4> QED BY <2>5, <2>6, <4>1, <4>2 DEF RowsInv, BehindIsBehind, Behind
    <3> QED BY <3>1, <3>2
  <2>7. BehindIsBehind'
    BY <1>0, <2>3, <2>6 DEF BehindIsBehind
  <2> QED BY <1>0, <1>1, <2>3, <2>7, ResetRows
<1> QED BY <1>2, <1>3, <1>4

\* Replies that were not handed over are cancelled.
LEMMA CancelRows ==
    ASSUME Inv, RowsInv, QueueTypes', job' = CancelUndelivered(job), worker' = worker,
           UNCHANGED <<rows, exposures, claims, overrun>>
    PROVE  RowsInv'
<1>1. WorkersQuiet /\ job \in Jobs
  BY DEF WorkersQuiet, QuietMove, Inv, Types, QueueTypes
<1>2. CASE job' = job
  BY <1>1, <1>2, StillKeeps DEF JobStill
<1>3. CASE job' = Unlocked(job, "CANCELLED")
  <2>1. /\ job'.status = "CANCELLED" /\ job'.token = NoToken
        /\ job'.version = job.version /\ job'.result = job.result
    BY <1>1, <1>3, UnlockedFields DEF JobStatuses, Settled
  <2>2. "CANCELLED" \in Settled
    BY DEF Settled
  <2> QED BY <1>1, <2>1, <2>2, CloseRows
<1> QED BY <1>2, <1>3 DEF CancelUndelivered

\* A newer message resets the job, or is merged into the delivery.
LEMMA EnqueueRows ==
    ASSUME Inv, RowsInv, QueueTypes', NEW v \in Versions, EnqueueAiResponse(v) PROVE RowsInv'
<1>0. ControlTypeOK /\ job \in Jobs /\ v \in Nat /\ job.version \in Nat /\ \A r \in rows : r.version \in Nat
      /\ \A y \in Workers : worker[y].version \in Nat
  BY DEF Inv, Types, ControlInv, QueueTypes, Jobs, Rows, Versions, WorkerStates
<1>1. /\ UNCHANGED <<rows, worker, claims, exposures, overrun>> /\ job' = Enqueued(job, v)
      /\ handler[v] = "enqueue"
  BY DEF EnqueueAiResponse, HandlerMoves
<1>2. WorkersQuiet
  BY <1>1 DEF WorkersQuiet, QuietMove
<1>3. job.version # v
  BY <1>0, <1>1 DEF Inv, DeliveryInv, VersionsQueued, Versions
<1>4. CASE job.version > v
  BY <1>1, <1>2, <1>4, StillKeeps DEF Enqueued, JobStill
<1>5. CASE job.version < v /\ job.status = "SENDING"
  <2>1. /\ job'.status = job.status /\ job'.token = job.token /\ job'.version = v
        /\ job'.result = job.result
    BY <1>0, <1>1, <1>5 DEF Enqueued, Jobs
  <2>2. \A y \in Workers : (Busy(y)' <=> Busy(y)) /\ (Holds(y)' <=> Holds(y)) /\ (Behind(y)' <=> Behind(y))
    BY <1>1, <2>1 DEF Busy, Holds, Behind
  <2>3. RowsQuiet
    BY <1>0, <1>1, <1>2, <1>5, <2>1, <2>2 DEF RowsQuiet, MovesQuiet, WorkersQuiet
  <2>4. GoneKept /\ BehindKept
    BY <2>1, <2>2 DEF GoneKept, Gone, GoneAfter, BehindKept
  <2> QED BY <1>1, <2>3, <2>4, QuietKeeps
<1>6. CASE job.version < v /\ job.status # "SENDING"
  <2>1. job'.token = NoToken /\ job'.version = v /\ job'.result = NoRow
    BY <1>0, <1>1, <1>6 DEF Enqueued
  <2>2. \A y \in Workers : Busy(y) => worker[y].version < v
    BY <1>0, <1>6 DEF Inv, DeliveryInv, VersionsQueued
  <2>3. \A r \in rows : r.version # v
    BY <1>0, <1>6 DEF RowsInv, RowsIssued
  <2>4. BehindIsBehind'
    BY <1>1, <2>1, <2>2, <2>3 DEF BehindIsBehind, Behind, Busy
  <2>5. job'.version >= job.version
    BY <1>0, <1>6, <2>1
  <2> QED BY <1>1, <1>2, <2>1, <2>4, <2>5, ResetRows
<1> QED BY <1>0, <1>3, <1>4, <1>5, <1>6

\* Renewing a lease leaves the queue as it is.
LEMMA RenewStill ==
    ASSUME QueueTypes, NEW w \in Workers, Renew(w) PROVE JobStill
BY DEF QueueTypes, Renew, UpdateClaimed, Jobs, JobStill

\* Every step of a worker keeps what is known of the replies.
LEMMA WorkerRows ==
    ASSUME Inv, RowsInv, QueueTypes', NEW w \in Workers, WorkerStep(w) PROVE RowsInv'
<1>0. QueueTypes /\ job \in Jobs /\ worker[w] \in WorkerStates
  BY DEF Inv, Types, QueueTypes
<1>1. job' = job => JobStill
  BY DEF JobStill
<1>2. Renew(w) => JobStill
  BY <1>0, RenewStill
<1>3. ASSUME WorkersQuiet, JobStill, UNCHANGED <<rows, overrun, exposures, claims>> PROVE RowsInv'
  BY <1>3, StillKeeps
<1>4. ASSUME NEW pc \in GivingUp, NEW outcome, GiveUp(w, pc, outcome), Busy(w), JobStill,
             UNCHANGED <<rows, overrun, exposures, claims>>
      PROVE  RowsInv'
  BY <1>0, <1>3, <1>4, GiveUpQuiet
<1>5. {"discard", "settle", "fail"} \subseteq GivingUp
  BY DEF GivingUp
<1>6. ASSUME NEW pc, Goto(w, pc), JobStill, UNCHANGED <<rows, overrun, exposures, claims>>,
             \/ worker[w].pc \in Unsaved /\ pc \in Unsaved
             \/ worker[w].pc \in Chosen /\ pc \in Chosen
             \/ worker[w].pc \in SendWindow /\ pc \in SendWindow
      PROVE  RowsInv'
  <2>1. Busy(w) /\ pc # "record"
    BY <1>6, StepClasses, BeforeSplit DEF Busy
  <2>2. WorkersQuiet
    BY <1>0, <1>6, <2>1, StepClasses, GotoQuiet
  <2> QED BY <1>3, <1>6, <2>2
<1>7. CASE Check(w)
  <2>1. CASE Goto(w, "lookup")
    BY <1>1, <1>6, <1>7, <2>1 DEF Check, Unsaved
  <2>2. CASE GiveUp(w, "settle", "CANCELLED")
    BY <1>1, <1>4, <1>5, <1>7, <2>2 DEF Check, Busy
  <2> QED BY <1>7, <2>1, <2>2 DEF Check
<1>8. CASE Lookup(w)
  <2>1. CASE Goto(w, "agent")
    BY <1>1, <1>6, <1>8, <2>1 DEF Lookup, Unsaved
  <2>2. ASSUME NEW r \in Reusable(w),
               worker' = [worker EXCEPT ![w].pc = "guard1", ![w].result = r.id,
                                        ![w].tag = r.version, ![w].text = r.text]
        PROVE  RowsInv'
    <3> DEFINE new == [worker[w] EXCEPT !.pc = "guard1", !.result = r.id, !.tag = r.version,
                                        !.text = r.text]
    <3>1. /\ new.pc = "guard1" /\ new.token = worker[w].token /\ new.version = worker[w].version
          /\ new.result = r.id /\ new.tag = r.version
      BY <1>0 DEF WorkerStates
    <3>2. worker' = [worker EXCEPT ![w] = new]
      BY <2>2
    <3>3. worker[w].pc = "lookup" /\ UNCHANGED <<job, rows, exposures, claims, overrun>>
      BY <1>8 DEF Lookup
    <3> HIDE DEF new
    <3> QED BY <3>1, <3>2, <3>3, LookupRows
  <2> QED BY <1>8, <2>1, <2>2 DEF Lookup
<1>9. CASE AgentEscalates(w)
  <2>1. WorkersQuiet /\ Renew(w) /\ UNCHANGED <<rows, overrun, exposures, claims>>
    BY <1>9 DEF AgentEscalates, WorkersQuiet, QuietMove
  <2> QED BY <1>2, <1>3, <2>1
<1>10. CASE AgentReplies(w)
  <2>1. Renew(w) /\ worker[w].pc = "agent" /\ UNCHANGED <<rows, overrun, exposures, claims>>
    BY <1>10 DEF AgentReplies
  <2>2. CASE GiveUp(w, "settle", "COMPLETED")
    BY <1>2, <1>4, <1>5, <2>1, <2>2 DEF Busy
  <2>3. CASE Goto(w, "save")
    BY <1>2, <1>6, <2>1, <2>3 DEF Unsaved
  <2> QED BY <1>10, <2>2, <2>3 DEF AgentReplies
<1>11. CASE AgentStops(w)
  BY <1>2, <1>4, <1>5, <1>11 DEF AgentStops, Busy
<1>12. CASE AgentThrows(w)
  BY <1>1, <1>4, <1>5, <1>12 DEF AgentThrows, Busy
<1>13. CASE SaveReply(w)
  <2>1. PICK quote \in BOOLEAN :
          rows' = rows \cup {[id |-> worker[w].token, version |-> worker[w].version,
                              text |-> worker[w].version, quote |-> quote]}
    BY <1>13 DEF SaveReply
  <2> DEFINE row == [id |-> worker[w].token, version |-> worker[w].version,
                     text |-> worker[w].version, quote |-> quote]
             new == [worker[w] EXCEPT !.pc = "attach", !.result = worker[w].token,
                                      !.tag = worker[w].version, !.text = worker[w].version]
  <2>2. /\ row.id = worker[w].token /\ row.version = worker[w].version
        /\ rows' = rows \cup {row}
    BY <2>1
  <2>3. /\ new.pc = "attach" /\ new.token = worker[w].token /\ new.version = worker[w].version
        /\ new.result = worker[w].token /\ new.tag = worker[w].version
    BY <1>0 DEF WorkerStates
  <2>4. /\ worker' = [worker EXCEPT ![w] = new] /\ worker[w].pc = "save"
        /\ UNCHANGED <<job, exposures, claims, overrun>>
    BY <1>13 DEF SaveReply
  <2> HIDE DEF row, new
  <2> QED BY <2>2, <2>3, <2>4, SaveRows
<1>14. CASE AttachReply(w)
  <2>1. worker[w].pc = "attach" /\ UNCHANGED <<exposures, claims, overrun>>
    BY <1>14 DEF AttachReply
  <2>2. CASE Holds(w)
    <3>1. /\ job'.token = job.token /\ job'.status = job.status /\ job'.version = job.version
          /\ job'.result = worker[w].result
      BY <1>0, <1>14, <2>2 DEF AttachReply, UpdateClaimed, Jobs
    <3> QED BY <1>14, <2>1, <2>2, <3>1, AttachRows DEF AttachReply
  <2>3. CASE ~Holds(w)
    <3>1. /\ JobStill /\ rows' = Without(worker[w].result) /\ worker' = [worker EXCEPT ![w] = Free]
      BY <1>14, <2>3 DEF AttachReply, UpdateClaimed, JobStill
    <3>2. WorkersQuiet /\ Busy(w) /\ worker'[w].pc = "idle"
      BY <1>0, <2>1, <3>1, FreeQuiet DEF Busy, QueueTypes, Free
    <3>3. \A e \in exposures : e.token # worker[w].token
      BY <2>1, <3>2 DEF Inv, DeliveryInv, OutcomesHonest, AfterSend
    <3>4. worker'[w].pc \notin SendWindow \cup Chosen
      BY <3>2 DEF SendWindow, Chosen
    <3> QED BY <2>1, <3>1, <3>2, <3>3, <3>4, DeleteRows
  <2> QED BY <2>2, <2>3
<1>15. ASSUME NEW here, NEW next, Guard(w, here, next),
              \/ here \in Chosen /\ next \in Chosen
              \/ here \in SendWindow /\ next \in SendWindow
       PROVE  RowsInv'
  <2>1. worker[w].pc = here /\ Renew(w) /\ UNCHANGED <<rows, overrun, exposures, claims>> /\ Busy(w)
    BY <1>15, StepClasses, BeforeSplit DEF Guard, Busy
  <2>2. CASE Goto(w, next)
    BY <1>2, <1>6, <1>15, <2>1, <2>2
  <2>3. CASE GiveUp(w, "discard", "CANCELLED")
    BY <1>2, <1>4, <1>5, <2>1, <2>3
  <2> QED BY <1>15, <2>2, <2>3 DEF Guard
<1>16. CASE Guard(w, "guard1", "mark") \/ Guard(w, "guard2", "start") \/ Guard(w, "guard3", "consent")
  <2>1. CASE Guard(w, "guard1", "mark")
    BY <1>15, <2>1 DEF Chosen
  <2>2. CASE Guard(w, "guard2", "start")
    BY <1>15, <2>2 DEF SendWindow
  <2>3. CASE Guard(w, "guard3", "consent")
    BY <1>15, <2>3 DEF SendWindow
  <2> QED BY <1>16, <2>1, <2>2, <2>3
<1>17. CASE MarkSending(w)
  <2>1. CASE Holds(w)
    BY <1>17, <2>1, MarkRows
  <2>2. CASE ~Holds(w)
    BY <1>4, <1>5, <1>17, <2>2 DEF MarkSending, UpdateClaimed, JobStill, Busy
  <2> QED BY <2>1, <2>2
<1>18. CASE CheckConsent(w)
  <2>1. CASE Goto(w, "wire")
    BY <1>1, <1>6, <1>18, <2>1 DEF CheckConsent, SendWindow
  <2>2. CASE GiveUp(w, "fail", "FAILED")
    BY <1>1, <1>4, <1>5, <1>18, <2>2 DEF CheckConsent, Busy
  <2> QED BY <1>18, <2>1, <2>2 DEF CheckConsent
<1>19. CASE CallProvider(w)
  <2>1. worker[w].pc = "wire" /\ Busy(w) /\ UNCHANGED <<job, rows, claims, overrun>>
    BY <1>19 DEF CallProvider, Busy
  <2>2. CASE exposures' = exposures \cup {Exposure(w)} /\ (Goto(w, "record") \/ GiveUp(w, "fail", "DELIVERY_UNKNOWN"))
    BY <2>1, <2>2, ExposeRows
  <2>3. ASSUME exposures' = exposures, NEW outcome \in {"RETRY", "FAILED"}, GiveUp(w, "fail", outcome)
        PROVE  RowsInv'
    BY <1>1, <1>4, <1>5, <2>1, <2>3
  <2> QED BY <1>19, <2>2, <2>3 DEF CallProvider
<1>20. CASE HandOffQuote(w)
  <2>1. WorkersQuiet /\ JobStill /\ UNCHANGED <<rows, overrun, exposures, claims>>
    BY <1>0, <1>1, <1>20, FreeQuiet DEF HandOffQuote
  <2> QED BY <1>3, <2>1
<1>21. CASE Discard(w)
  <2>1. /\ worker[w].pc = "discard" /\ Busy(w) /\ Goto(w, "settle") /\ JobStill
        /\ rows' = Without(worker[w].result) /\ UNCHANGED <<exposures, claims, overrun>>
    BY <1>1, <1>21 DEF Discard, Busy
  <2>2. "settle" \notin Unsaved /\ "settle" \notin Chosen /\ "settle" \notin SendWindow
        /\ "settle" \notin AfterSend /\ "settle" # "record"
    BY DEF Unsaved, Chosen, SendWindow, AfterSend
  <2>3. WorkersQuiet
    BY <1>0, <2>1, <2>2, GotoQuiet
  <2>4. worker'[w].pc = "settle"
    BY <1>0, <2>1 DEF Goto, QueueTypes, WorkerStates
  <2>5. \A e \in exposures : e.token # worker[w].token
    BY <2>1 DEF Inv, DeliveryInv, OutcomesHonest, AfterSend
  <2> QED BY <2>1, <2>2, <2>3, <2>4, <2>5, DeleteRows
<1>22. CASE Settle(w)
  <2>1. worker[w].outcome \in Settled /\ worker[w].outcome \in JobStatuses
    BY <1>22 DEF Settle, Inv, DeliveryInv, OutcomesHonest, JobStatuses
  <2> QED BY <1>22, <2>1, ReleaseRows DEF Settle
<1>23. CASE Fail(w)
  <2> DEFINE status == IF worker[w].outcome = "RETRY" /\ worker[w].attempt >= MaxAttempts
                       THEN "FAILED" ELSE worker[w].outcome
  <2>1. status \in JobStatuses /\ (status \in Settled \/ worker[w].outcome = "RETRY")
    BY <1>0 DEF WorkerStates, JobStatuses, Settled, Claimable
  <2>2. /\ UpdateClaimed(w, Unlocked(job, status)) /\ worker[w].pc = "fail"
        /\ worker' = [worker EXCEPT ![w] = Free] /\ UNCHANGED <<rows, exposures, claims, overrun>>
    BY <1>23 DEF Fail
  <2> HIDE DEF status
  <2> QED BY <2>1, <2>2, ReleaseRows
<1> QED
  BY <1>7, <1>8, <1>9, <1>10, <1>11, <1>12, <1>13, <1>14, <1>16, <1>17, <1>18, <1>19,
     <1>20, <1>21, <1>22, <1>23, StartRows, RecordRows, FinishRows DEF WorkerStep

\* Messages, staff and passing time keep it too.
LEMMA OutsideRows ==
    ASSUME Inv, RowsInv, QueueTypes', LeaseExpires \/ Webhooks \/ Inbox PROVE RowsInv'
<1>0. job \in Jobs
  BY DEF Inv, Types, QueueTypes
<1>1. ASSUME JobStill, UNCHANGED <<worker, rows, overrun, exposures, claims>> PROVE RowsInv'
  BY <1>1, StillKeeps DEF WorkersQuiet, QuietMove
<1>2. CASE LeaseExpires
  BY <1>0, <1>1, <1>2 DEF LeaseExpires, Jobs, JobStill
<1>3. CASE UNCHANGED queueVars
  BY <1>1, <1>3 DEF queueVars, JobStill
<1>4. ASSUME NEW v \in Versions, StopCancels(v) PROVE RowsInv'
  BY <1>4, CancelRows DEF StopCancels, HandlerMoves
<1>5. ASSUME NEW v \in Versions, StopRevokes(v) \/ StartGrants(v) \/ HandlerDies(v) PROVE RowsInv'
  BY <1>1, <1>5 DEF StopRevokes, StartGrants, HandlerDies, HandlerMoves, JobStill
<1>6. ASSUME NEW s \in Staff, StaffCancels(s) PROVE RowsInv'
  BY <1>6, CancelRows DEF StaffCancels
<1>7. ASSUME NEW draft \in BOOLEAN, ChangeReplyMode(draft) PROVE RowsInv'
  BY <1>7, CancelRows DEF ChangeReplyMode
<1> QED
  BY <1>2, <1>3, <1>4, <1>5, <1>6, <1>7, EnqueueRows
     DEF Webhooks, Inbox, ReceiveMessage, ReceiveKeyword, Decide, StaffElsewhere

LEMMA RowsStep == Inv /\ RowsInv /\ [Next]_vars => RowsInv'
<1> SUFFICES ASSUME Inv, RowsInv, [Next]_vars PROVE RowsInv'
  OBVIOUS
<1>0. QueueTypes /\ QueueTypes'
  BY StepTypes DEF Inv, Types
<1>1. CASE UNCHANGED vars
  <2>1. WorkersQuiet /\ JobStill /\ UNCHANGED <<rows, overrun, exposures, claims>>
    BY <1>1 DEF vars, queueVars, WorkersQuiet, QuietMove, JobStill
  <2> QED BY <1>0, <2>1, StillKeeps
<1>2. ASSUME NEW w \in Workers, Crash(w) PROVE RowsInv'
  <2>1. WorkersQuiet /\ JobStill /\ UNCHANGED <<rows, overrun, exposures, claims>>
    BY <1>0, <1>2, FreeQuiet DEF Crash, JobStill
  <2> QED BY <1>0, <2>1, StillKeeps
<1> QED BY <1>0, <1>1, <1>2, ClaimRows, SweepRows, WorkerRows, OutsideRows DEF Next

LEMMA RowsInit == Init => RowsInv
<1> SUFFICES ASSUME Init PROVE RowsInv
  OBVIOUS
<1>1. \A w \in Workers : worker[w].pc = "idle" /\ worker[w].token = NoToken
  BY DEF Init, Free
<1>2. \A w \in Workers : /\ ~Busy(w) /\ ~InWindow(w) /\ ~Holds(w) /\ worker[w].pc \notin Unsaved
                         /\ worker[w].pc \notin Chosen \cup SendWindow \cup AfterSend \cup {"record"}
  BY <1>1 DEF Init, Busy, InWindow, Holds, Unsaved, Chosen, SendWindow, AfterSend, NoToken
<1> QED
  BY <1>2 DEF Init, RowsInv, RowsIssued, ChoicesKnown, RowsSpent, BehindIsBehind, Behind, RivalsLate,
     Contender, ReplyThere, NoReplyReused, DeliveredRowKept, NoToken, NoRow

\* The queue keeps its books: no saved reply is handed over twice, COMPLETED
\* means answered, a delivered reply keeps its row unless a worker that took too
\* long deleted it, and the job is never claimed beyond its attempts.
THEOREM QueueIsSafe == Spec => []QueueSafe
<1>1. Init => Inv /\ BooksInv /\ RowsInv
  BY InitInv, BooksInit, RowsInit
<1>2. Inv /\ BooksInv /\ RowsInv /\ [Next]_vars => (Inv /\ BooksInv /\ RowsInv)'
  BY StepInv, BooksStep, RowsStep
<1>3. BooksInv /\ RowsInv => QueueSafe
  BY DEF BooksInv, JobBooks, RowsInv, QueueSafe
<1> QED BY <1>1, <1>2, <1>3, PTL DEF Spec

-----------------------------------------------------------------------------
(* Older versions are not answered after newer ones.                        *)

\* A worker in the send window whose lease did not run out.
OnTime(w) == InWindow(w) /\ worker[w].token \notin overrun

\* It holds the lease still, and nothing newer was exposed or is being sent.
OrderInv ==
    \A w \in Workers : OnTime(w) =>
        /\ Holds(w)
        /\ \A f \in exposures : f.version <= worker[w].version
        /\ \A x \in Workers : InWindow(x) => worker[x].version <= worker[w].version

\* Nobody enters the window.
WindowQuiet ==
    \A x \in Workers : worker'[x].pc \in SendWindow =>
        /\ worker[x].pc \in SendWindow
        /\ worker'[x].token = worker[x].token /\ worker'[x].version = worker[x].version

\* Whoever holds the lease in the window keeps it, unless it runs out.
HolderStays ==
    \A x \in Workers : InWindow(x) /\ Holds(x) /\ worker'[x].pc \in SendWindow =>
        (job'.token = job.token /\ job'.status \in Leased) \/ worker[x].token \in overrun'

\* Only a reply that is being sent is exposed.
ExposedFromWindow ==
    \A f \in exposures' :
        f \in exposures \/ \E x \in Workers : InWindow(x) /\ f.version = worker[x].version

LEMMA OrderKeeps ==
    ASSUME OrderInv, WindowQuiet, HolderStays, ExposedFromWindow, overrun \subseteq overrun'
    PROVE  OrderInv'
<1> SUFFICES ASSUME NEW w \in Workers, OnTime(w)'
             PROVE  /\ Holds(w)'
                    /\ \A f \in exposures' : f.version <= worker'[w].version
                    /\ \A x \in Workers : InWindow(x)' => worker'[x].version <= worker'[w].version
  BY DEF OrderInv
<1>1. /\ InWindow(w) /\ worker'[w].pc \in SendWindow
      /\ worker'[w].token = worker[w].token /\ worker'[w].version = worker[w].version
  BY DEF OnTime, InWindow, WindowQuiet
<1>2. OnTime(w)
  BY <1>1 DEF OnTime
<1>3. /\ Holds(w)
      /\ \A f \in exposures : f.version <= worker[w].version
      /\ \A x \in Workers : InWindow(x) => worker[x].version <= worker[w].version
  BY <1>2 DEF OrderInv
<1>4. worker[w].token \notin overrun'
  BY <1>1 DEF OnTime
<1>5. Holds(w)'
  BY <1>1, <1>3, <1>4 DEF HolderStays, Holds
<1>6. \A f \in exposures' : f.version <= worker'[w].version
  BY <1>1, <1>3 DEF ExposedFromWindow
<1>7. \A x \in Workers : InWindow(x)' => worker'[x].version <= worker'[w].version
  BY <1>1, <1>3 DEF InWindow, WindowQuiet
<1> QED BY <1>5, <1>6, <1>7

\* How a worker moves without entering the window.
LEMMA WindowMoves ==
    ASSUME QueueTypes, NEW w \in Workers
    PROVE  /\ \A pc : Goto(w, pc) /\ (pc \in SendWindow => worker[w].pc \in SendWindow) => WindowQuiet
           /\ \A pc \in GivingUp : \A outcome : GiveUp(w, pc, outcome) => WindowQuiet
           /\ worker' = [worker EXCEPT ![w] = Free] => WindowQuiet
<1>1. worker[w] \in WorkerStates
  BY DEF QueueTypes
<1>2. ASSUME NEW new, worker' = [worker EXCEPT ![w] = new],
             new.pc \in SendWindow => /\ worker[w].pc \in SendWindow
                                      /\ new.token = worker[w].token /\ new.version = worker[w].version
      PROVE  WindowQuiet
  <2>1. worker'[w] = new /\ \A x \in Workers \ {w} : worker'[x] = worker[x]
    BY <1>2 DEF QueueTypes
  <2> QED BY <1>2, <2>1 DEF WindowQuiet
<1>3. ASSUME NEW pc, Goto(w, pc), pc \in SendWindow => worker[w].pc \in SendWindow PROVE WindowQuiet
  <2> DEFINE new == [worker[w] EXCEPT !.pc = pc]
  <2>1. worker' = [worker EXCEPT ![w] = new]
    BY <1>3 DEF Goto
  <2>2. new.pc = pc /\ new.token = worker[w].token /\ new.version = worker[w].version
    BY <1>1 DEF WorkerStates
  <2> HIDE DEF new
  <2> QED BY <1>2, <1>3, <2>1, <2>2
<1>4. ASSUME NEW pc \in GivingUp, NEW outcome, GiveUp(w, pc, outcome) PROVE WindowQuiet
  <2> DEFINE new == [worker[w] EXCEPT !.pc = pc, !.outcome = outcome]
  <2>1. worker' = [worker EXCEPT ![w] = new]
    BY <1>4 DEF GiveUp
  <2>2. new.pc = pc /\ pc \notin SendWindow
    BY <1>1, StepClasses DEF WorkerStates
  <2> HIDE DEF new
  <2> QED BY <1>2, <2>1, <2>2
<1>5. ASSUME worker' = [worker EXCEPT ![w] = Free] PROVE WindowQuiet
  BY <1>2, <1>5, StepClasses DEF Free
<1> QED BY <1>3, <1>4, <1>5

\* The worker that marks the job as being sent is in front.
LEMMA MarkOrder ==
    ASSUME Inv, OrderInv, NEW w \in Workers, MarkSending(w), Holds(w) PROVE OrderInv'
<1>0. /\ QueueTypes /\ job \in Jobs /\ worker[w] \in WorkerStates /\ worker[w].pc = "mark" /\ Busy(w)
      /\ worker[w].pc \in BeforeSend /\ UNCHANGED <<exposures, overrun>>
      /\ \A x \in Workers : worker[x].version \in Nat
      /\ job.version \in Nat /\ \A f \in exposures : f.version \in Nat
  BY DEF Inv, Types, QueueTypes, Jobs, WorkerStates, MarkSending, Busy, BeforeSend
<1>1. job.status = "PROCESSING" /\ worker[w].version = job.version
  BY <1>0, HolderAnswers
<1>2. job'.status = "SENDING" /\ job'.token = job.token
  BY <1>0 DEF MarkSending, UpdateClaimed, Jobs
<1>3. /\ worker'[w].token = worker[w].token /\ worker'[w].version = worker[w].version
      /\ \A x \in Workers \ {w} : worker'[x] = worker[x]
  BY <1>0 DEF MarkSending, Goto, QueueTypes, WorkerStates
<1>4. \A x \in Workers \ {w} : ~OnTime(x)
  <2>1. \A x \in Workers : InWindow(x) => Busy(x)
    BY StepClasses DEF InWindow, Busy
  <2> QED BY <1>0, <2>1, OneHolder DEF OrderInv, OnTime
<1>5. /\ \A f \in exposures : f.version <= worker[w].version
      /\ \A x \in Workers : InWindow(x) => worker[x].version <= worker[w].version
  BY <1>0, <1>1, SpentOlder
<1>6. \A x \in Workers : OnTime(x)' => x = w
  BY <1>0, <1>3, <1>4 DEF OnTime, InWindow
<1>7. Holds(w)'
  BY <1>2, <1>3 DEF Holds, Leased
<1>8. \A x \in Workers : InWindow(x)' => worker'[x].version <= worker'[w].version
  BY <1>0, <1>3, <1>5 DEF InWindow
<1> QED BY <1>0, <1>3, <1>5, <1>6, <1>7, <1>8 DEF OrderInv

\* No step of a worker but the marking lets one into the window.
LEMMA WorkerWindow ==
    ASSUME QueueTypes, NEW w \in Workers, WorkerStep(w) PROVE WindowQuiet \/ (MarkSending(w) /\ Holds(w))
<1>0. worker[w] \in WorkerStates /\ {"discard", "settle", "fail"} \subseteq GivingUp
  BY DEF QueueTypes, GivingUp
<1>1. ASSUME NEW pc, pc \in {"lookup", "agent", "save", "guard1", "mark", "record", "finish", "handoff", "settle"},
             Goto(w, pc)
      PROVE  WindowQuiet
  <2>1. pc \notin SendWindow
    BY <1>1 DEF SendWindow
  <2> QED BY <1>1, <2>1, WindowMoves
<1>2. ASSUME NEW pc, Goto(w, pc), worker[w].pc \in SendWindow PROVE WindowQuiet
  BY <1>2, WindowMoves
<1>3. ASSUME NEW pc \in {"discard", "settle", "fail"}, NEW outcome, GiveUp(w, pc, outcome) PROVE WindowQuiet
  BY <1>0, <1>3, WindowMoves
<1>4. worker' = [worker EXCEPT ![w] = Free] => WindowQuiet
  BY WindowMoves
<1>5. ASSUME Lookup(w) PROVE WindowQuiet
  <2>1. CASE Goto(w, "agent")
    BY <1>1, <2>1
  <2>2. ASSUME NEW r, worker' = [worker EXCEPT ![w].pc = "guard1", ![w].result = r.id,
                                               ![w].tag = r.version, ![w].text = r.text]
        PROVE  WindowQuiet
    BY <1>0, <2>2 DEF QueueTypes, WorkerStates, WindowQuiet, SendWindow
  <2> QED BY <1>5, <2>1, <2>2 DEF Lookup
<1>6. ASSUME SaveReply(w) PROVE WindowQuiet
  BY <1>0, <1>6 DEF SaveReply, QueueTypes, WorkerStates, WindowQuiet, SendWindow
<1>7. ASSUME AgentEscalates(w) PROVE WindowQuiet
  BY <1>7 DEF AgentEscalates, WindowQuiet
<1>8. ASSUME Check(w) \/ AgentReplies(w) \/ AgentStops(w) \/ AgentThrows(w) \/ AttachReply(w)
             \/ Guard(w, "guard1", "mark")
      PROVE  WindowQuiet
  BY <1>1, <1>3, <1>4, <1>8
     DEF Check, AgentReplies, AgentStops, AgentThrows, AttachReply, Guard
<1>9. ASSUME Guard(w, "guard2", "start") \/ StartSend(w) \/ Guard(w, "guard3", "consent")
             \/ CheckConsent(w) \/ CallProvider(w)
      PROVE  WindowQuiet
  <2>1. worker[w].pc \in SendWindow
    BY <1>9 DEF Guard, StartSend, CheckConsent, CallProvider, SendWindow
  <2>2. \E pc : Goto(w, pc) \/ \E outcome : GiveUp(w, "discard", outcome) \/ GiveUp(w, "fail", outcome)
    BY <1>9 DEF Guard, StartSend, CheckConsent, CallProvider
  <2> QED BY <1>2, <1>3, <2>1, <2>2
<1>10. ASSUME RecordSent(w) \/ FinishAiResponse(w) \/ HandOffQuote(w) \/ Discard(w) \/ Settle(w) \/ Fail(w)
       PROVE  WindowQuiet
  BY <1>1, <1>3, <1>4, <1>10 DEF RecordSent, FinishAiResponse, HandOffQuote, Discard, Settle, Fail
<1>11. ASSUME MarkSending(w), ~Holds(w) PROVE WindowQuiet
  BY <1>3, <1>11 DEF MarkSending
<1> QED BY <1>5, <1>6, <1>7, <1>8, <1>9, <1>10, <1>11 DEF WorkerStep

\* Nobody but the holder can take the lease from the holder.
LEMMA WorkerLease ==
    ASSUME Inv, NEW w \in Workers, WorkerStep(w) PROVE HolderStays
<1>0. QueueTypes /\ job \in Jobs
  BY DEF Inv, Types, QueueTypes
<1> SUFFICES ASSUME NEW x \in Workers, InWindow(x), Holds(x), worker'[x].pc \in SendWindow
             PROVE  job'.token = job.token /\ job'.status \in Leased
  BY DEF HolderStays
<1>1. job.status \in Leased /\ Busy(x)
  BY StepClasses DEF Holds, InWindow, Busy
<1>2. CASE job' = job
  BY <1>1, <1>2
<1>3. CASE Renew(w)
  BY <1>0, <1>1, <1>3, RenewStill DEF JobStill
<1>4. CASE AttachReply(w) \/ MarkSending(w)
  BY <1>0, <1>1, <1>4 DEF AttachReply, MarkSending, UpdateClaimed, Jobs, Leased
<1>5. CASE Settle(w) \/ Fail(w) \/ FinishAiResponse(w)
  <2>1. worker[w].pc \in {"settle", "fail", "finish"} /\ Busy(w)
    BY <1>5 DEF Settle, Fail, FinishAiResponse, Busy
  <2>2. x # w
    BY <2>1 DEF InWindow, SendWindow
  <2>3. ~Holds(w)
    BY <1>1, <2>1, <2>2, OneHolder
  <2>4. job' = job
    BY <1>5, <2>3 DEF Settle, Fail, FinishAiResponse, UpdateClaimed
  <2> QED BY <1>1, <2>4
<1>6. job' = job \/ Renew(w) \/ AttachReply(w) \/ MarkSending(w) \/ Settle(w) \/ Fail(w) \/ FinishAiResponse(w)
  BY DEF WorkerStep, Check, Lookup, AgentEscalates, AgentReplies, AgentStops, AgentThrows,
         SaveReply, Guard, StartSend, CheckConsent, CallProvider, RecordSent, HandOffQuote, Discard
<1> QED BY <1>2, <1>3, <1>4, <1>5, <1>6

\* What a worker exposes is the reply it is sending.
LEMMA WorkerExposes ==
    ASSUME NEW w \in Workers, WorkerStep(w)
    PROVE  /\ overrun' = overrun
           /\ exposures' = exposures \/ (InWindow(w) /\ exposures' = exposures \cup {Exposure(w)})
<1>1. CASE CallProvider(w)
  BY <1>1 DEF CallProvider, InWindow, SendWindow
<1> QED
  BY <1>1 DEF WorkerStep, Check, Lookup, AgentEscalates, AgentReplies, AgentStops, AgentThrows,
         SaveReply, AttachReply, Guard, MarkSending, StartSend, CheckConsent, RecordSent,
         FinishAiResponse, HandOffQuote, Discard, Settle, Fail

\* Beside the workers only the sweep takes a lease in the window, because it ran out.
LEMMA OutsideOrder ==
    ASSUME Inv, OrderInv, LeaseExpires \/ Webhooks \/ Inbox PROVE OrderInv'
<1>0. QueueTypes /\ job \in Jobs
  BY DEF Inv, Types, QueueTypes
<1>1. worker' = worker /\ exposures' = exposures /\ overrun' = overrun
  <2>1. \A s \in Staff : StaffCancels(s) => worker' = worker /\ exposures' = exposures /\ overrun' = overrun
    BY DEF StaffCancels
  <2>2. \A draft \in BOOLEAN : ChangeReplyMode(draft) => worker' = worker /\ exposures' = exposures /\ overrun' = overrun
    BY DEF ChangeReplyMode
  <2> QED
    BY <2>1, <2>2 DEF LeaseExpires, Webhooks, Inbox, ReceiveMessage, ReceiveKeyword, Decide, EnqueueAiResponse,
       HandlerDies, StopCancels, StopRevokes, StartGrants, StaffElsewhere, HandlerMoves, queueVars
<1>2. \/ job' = job \/ LeaseExpires \/ job' = CancelUndelivered(job)
      \/ \E v \in Versions : job' = Enqueued(job, v)
  <2>1. \A s \in Staff : StaffCancels(s) => job' = CancelUndelivered(job)
    BY DEF StaffCancels
  <2>2. \A draft \in BOOLEAN : ChangeReplyMode(draft) => job' = CancelUndelivered(job)
    BY DEF ChangeReplyMode
  <2> QED
    BY <2>1, <2>2 DEF Webhooks, Inbox, ReceiveMessage, ReceiveKeyword, Decide, EnqueueAiResponse,
       HandlerDies, StopCancels, StopRevokes, StartGrants, StaffElsewhere, queueVars
<1>3. \A x \in Workers : InWindow(x) /\ Holds(x) => job.status = "SENDING"
  BY StepClasses DEF Inv, DeliveryInv, LeaseAgrees, Holds, Leased, InWindow, Busy
<1>4. job.status = "SENDING" => job'.token = job.token /\ job'.status = "SENDING"
  <2>1. CASE LeaseExpires
    BY <1>0, <2>1 DEF LeaseExpires, Jobs
  <2>2. CASE job' = CancelUndelivered(job)
    BY <2>2 DEF CancelUndelivered, Claimable
  <2>3. ASSUME NEW v \in Versions, job' = Enqueued(job, v), job.status = "SENDING"
        PROVE  job'.token = job.token /\ job'.status = "SENDING"
    BY <1>0, <2>3 DEF Enqueued, Jobs
  <2> QED BY <1>2, <2>1, <2>2, <2>3
<1> QED
  BY <1>1, <1>3, <1>4, OrderKeeps DEF WindowQuiet, HolderStays, ExposedFromWindow, Leased

LEMMA OrderStep == Inv /\ OrderInv /\ [Next]_vars => OrderInv'
<1> SUFFICES ASSUME Inv, OrderInv, [Next]_vars PROVE OrderInv'
  OBVIOUS
<1>0. QueueTypes /\ job \in Jobs
  BY DEF Inv, Types, QueueTypes
<1>1. CASE UNCHANGED vars
  BY <1>1, OrderKeeps DEF vars, queueVars, WindowQuiet, HolderStays, ExposedFromWindow, Holds
<1>2. ASSUME NEW w \in Workers, Crash(w) PROVE OrderInv'
  <2>1. WindowQuiet /\ UNCHANGED <<job, exposures, overrun>>
    BY <1>0, <1>2, WindowMoves DEF Crash
  <2> QED BY <2>1, OrderKeeps DEF HolderStays, ExposedFromWindow, Holds
<1>3. ASSUME NEW w \in Workers, Claim(w) PROVE OrderInv'
  <2>1. WindowQuiet
    BY <1>0, <1>3 DEF Claim, QueueTypes, WindowQuiet, SendWindow
  <2>2. \A x \in Workers : InWindow(x) /\ Holds(x) => job.status = "SENDING"
    BY StepClasses DEF Inv, DeliveryInv, LeaseAgrees, Holds, Leased, InWindow, Busy
  <2>3. job.status # "SENDING"
    BY <1>0, <1>3, SweptDue DEF Claim, Claimable
  <2>4. overrun \subseteq overrun' /\ exposures' = exposures
    BY <1>3 DEF Claim, NoteOverrun
  <2> QED BY <2>1, <2>2, <2>3, <2>4, OrderKeeps DEF HolderStays, ExposedFromWindow
<1>4. ASSUME NEW w \in Workers, Sweep(w) PROVE OrderInv'
  <2>1. worker' = worker /\ exposures' = exposures /\ overrun \subseteq overrun'
    BY <1>4 DEF Sweep, NoteOverrun
  <2>2. \A x \in Workers : Holds(x) => worker[x].token \in overrun'
    BY <1>4 DEF Sweep, NoteOverrun, Swept, Holds
  <2> QED BY <2>1, <2>2, OrderKeeps DEF WindowQuiet, HolderStays, ExposedFromWindow
<1>5. ASSUME NEW w \in Workers, WorkerStep(w) PROVE OrderInv'
  <2>1. CASE MarkSending(w) /\ Holds(w)
    BY <2>1, MarkOrder
  <2>2. CASE WindowQuiet
    BY <1>5, <2>2, WorkerLease, WorkerExposes, OrderKeeps DEF ExposedFromWindow, Exposure
  <2> QED BY <1>0, <1>5, <2>1, <2>2, WorkerWindow
<1> QED BY <1>1, <1>2, <1>3, <1>4, <1>5, OutsideOrder DEF Next

\* What a step exposes, and that it comes from a worker in the window.
LEMMA StepExposes ==
    ASSUME [Next]_vars
    PROVE  \/ exposures' = exposures
           \/ \E w \in Workers : InWindow(w) /\ exposures' = exposures \cup {Exposure(w)} /\ WorkerStep(w)
<1>1. \A s \in Staff : StaffCancels(s) => exposures' = exposures
  BY DEF StaffCancels
<1>2. \A draft \in BOOLEAN : ChangeReplyMode(draft) => exposures' = exposures
  BY DEF ChangeReplyMode
<1>3. LeaseExpires \/ Webhooks \/ Inbox => exposures' = exposures
  BY <1>1, <1>2 DEF LeaseExpires, Webhooks, Inbox, ReceiveMessage, ReceiveKeyword, Decide, EnqueueAiResponse,
       HandlerDies, StopCancels, StopRevokes, StartGrants, StaffElsewhere, HandlerMoves, queueVars
<1>4. \A w \in Workers : Claim(w) \/ Sweep(w) \/ Crash(w) => exposures' = exposures
  BY DEF Claim, Sweep, Crash
<1> QED BY <1>3, <1>4, WorkerExposes DEF Next, vars, queueVars

\* For any number of workers and messages, an older version is answered after a
\* newer one only by a worker that lost its lease in the middle of the delivery.
THEOREM RepliesKeepTheirOrder == Spec => InOrderUnlessOverrun
<1>1. Init => Inv /\ OrderInv
  <2>1. Init => OrderInv
    BY DEF Init, OrderInv, OnTime, InWindow, Free, SendWindow
  <2> QED BY <2>1, InitInv
<1>2. Inv /\ OrderInv /\ [Next]_vars => (Inv /\ OrderInv)'
  BY StepInv, OrderStep
<1>3. Inv /\ OrderInv /\ [Next]_vars =>
        [\A e \in exposures' \ exposures : \A f \in exposures :
            f.version > e.version => e.token \in overrun]_vars
  <2> SUFFICES ASSUME Inv, OrderInv, [Next]_vars, NEW e \in exposures' \ exposures,
                      NEW f \in exposures, f.version > e.version, e.token \notin overrun
               PROVE  FALSE
    OBVIOUS
  <2>1. PICK w \in Workers : InWindow(w) /\ e = Exposure(w)
    BY StepExposes
  <2>2. e.version = worker[w].version /\ e.token = worker[w].token
    BY <2>1 DEF Exposure
  <2>3. f.version <= worker[w].version
    BY <2>1, <2>2 DEF OrderInv, OnTime
  <2>4. f.version \in Nat /\ worker[w].version \in Nat
    BY DEF Inv, Types, QueueTypes, WorkerStates
  <2> QED BY <2>2, <2>3, <2>4
<1> QED BY <1>1, <1>2, <1>3, PTL DEF Spec, InOrderUnlessOverrun

-----------------------------------------------------------------------------
(* The queue implements the reply contract.                                 *)

Offered == {v \in Versions : handler[v] = "queued"}
Deliveries(v) == {e \in exposures : e.version = v}
Answered == [v \in Versions |-> Cardinality(Deliveries(v))]

\* A message is queued by its own request, once, and stays queued.
LEMMA StepOffers ==
    ASSUME Inv, [Next]_vars
    PROVE  \/ Offered' = Offered
           \/ exposures' = exposures /\ \E v \in Versions : v \notin Offered /\ Offered' = Offered \cup {v}
<1>0. /\ ControlTypeOK /\ conv.version \in Nat
      /\ \A v \in Versions : v > conv.version => handler[v] = "none"
  BY DEF Inv, Types, ControlInv, ControlTypeOK, DeliveryInv, VersionsQueued
<1>1. handler' = handler => Offered' = Offered
  BY DEF Offered
<1>2. ASSUME NEW v \in Versions, NEW to, handler' = [handler EXCEPT ![v] = to],
             handler[v] # "queued", to # "queued"
      PROVE  Offered' = Offered
  BY <1>0, <1>2 DEF ControlTypeOK, Offered
<1>3. ASSUME NEW next, next # "queued", RecordInbound(next) PROVE Offered' = Offered
  <2>1. conv.version + 1 \in Versions /\ handler[conv.version + 1] = "none"
    BY <1>0, <1>3, ControlBounds DEF RecordInbound, Versions
  <2> QED BY <1>2, <1>3, <2>1 DEF RecordInbound
<1>4. ASSUME NEW v \in Versions, Decide(v) PROVE Offered' = Offered
  <2>1. \E to \in {"enqueue", "done"} : handler' = [handler EXCEPT ![v] = to]
    BY <1>4 DEF Decide, DecideInbound
  <2>2. handler[v] = "decide"
    BY <1>4 DEF Decide, DecideInbound
  <2> QED BY <1>2, <2>1, <2>2
<1>5. ASSUME NEW v \in Versions, StopCancels(v) \/ StopRevokes(v) \/ StartGrants(v) \/ HandlerDies(v)
      PROVE  Offered' = Offered
  <2>1. \E to \in {"stopRevoke", "done", "lost"} : handler' = [handler EXCEPT ![v] = to]
    BY <1>5 DEF StopCancels, StopRevokes, StartGrants, HandlerDies, HandlerMoves
  <2>2. handler[v] # "queued"
    BY <1>5 DEF StopCancels, StopRevokes, StartGrants, HandlerDies, HandlerMoves
  <2> QED BY <1>2, <2>1, <2>2
<1>6. ASSUME NEW v \in Versions, EnqueueAiResponse(v)
      PROVE  exposures' = exposures /\ v \notin Offered /\ Offered' = Offered \cup {v}
  BY <1>0, <1>6 DEF EnqueueAiResponse, HandlerMoves, ControlTypeOK, Offered
<1>7. ASSUME NEW w \in Workers, Claim(w) \/ Sweep(w) \/ WorkerStep(w) \/ Crash(w) PROVE handler' = handler
  BY <1>7 DEF WorkerStep, Check, Lookup, AgentEscalates, AgentReplies, AgentStops, AgentThrows,
         SaveReply, AttachReply, Guard, MarkSending, StartSend, CheckConsent, CallProvider,
         RecordSent, FinishAiResponse, HandOffQuote, Discard, Settle, Fail, Claim, Sweep, Crash, controlVars
<1>8. ASSUME NEW s \in Staff, StaffCancels(s) \/ StaffElsewhere(s) PROVE handler' = handler
  BY <1>8 DEF StaffCancels, StaffCancel, StaffElsewhere, StaffRead, StaffWrite, StaffReplied, StaffEvent
<1>9. ASSUME NEW draft \in BOOLEAN, ChangeReplyMode(draft) PROVE handler' = handler
  BY <1>9 DEF ChangeReplyMode, SetReplyMode
<1>10. ReceiveMessage => Offered' = Offered
  BY <1>3 DEF ReceiveMessage
<1>11. \A next \in {"stopCancel", "startGrant"} : ReceiveKeyword(next) => Offered' = Offered
  BY <1>3 DEF ReceiveKeyword
<1>12. LeaseExpires \/ UNCHANGED vars => handler' = handler
  BY DEF LeaseExpires, vars, controlVars
<1> QED
  BY <1>1, <1>4, <1>5, <1>6, <1>7, <1>8, <1>9, <1>10, <1>11, <1>12 DEF Next, Webhooks, Inbox

\* Workers answer only messages that were queued.
QueuedInv == \A w \in Workers : Busy(w) => worker[w].version \in Offered

VersionQuiet == \A x \in Workers : Busy(x)' => Busy(x) /\ worker'[x].version = worker[x].version

LEMMA VersionMoves ==
    ASSUME QueueTypes, NEW w \in Workers, Busy(w)
    PROVE  /\ \A pc : Goto(w, pc) => VersionQuiet
           /\ \A pc, outcome : GiveUp(w, pc, outcome) => VersionQuiet
           /\ worker' = [worker EXCEPT ![w] = Free] => VersionQuiet
           /\ worker' = worker => VersionQuiet
<1>1. worker[w] \in WorkerStates
  BY DEF QueueTypes
<1>2. ASSUME NEW new, worker' = [worker EXCEPT ![w] = new],
             new.pc # "idle" => new.version = worker[w].version
      PROVE  VersionQuiet
  <2>1. worker'[w] = new /\ \A x \in Workers \ {w} : worker'[x] = worker[x]
    BY <1>2 DEF QueueTypes
  <2> QED BY <1>2, <2>1 DEF VersionQuiet, Busy
<1>3. ASSUME NEW pc, Goto(w, pc) PROVE VersionQuiet
  <2>1. [worker[w] EXCEPT !.pc = pc].version = worker[w].version
    BY <1>1 DEF WorkerStates
  <2>2. worker' = [worker EXCEPT ![w] = [worker[w] EXCEPT !.pc = pc]]
    BY <1>3 DEF Goto
  <2> QED BY <1>2, <2>1, <2>2
<1>4. ASSUME NEW pc, NEW outcome, GiveUp(w, pc, outcome) PROVE VersionQuiet
  <2>1. [worker[w] EXCEPT !.pc = pc, !.outcome = outcome].version = worker[w].version
    BY <1>1 DEF WorkerStates
  <2>2. worker' = [worker EXCEPT ![w] = [worker[w] EXCEPT !.pc = pc, !.outcome = outcome]]
    BY <1>4 DEF GiveUp
  <2> QED BY <1>2, <2>1, <2>2
<1>5. ASSUME worker' = [worker EXCEPT ![w] = Free] PROVE VersionQuiet
  BY <1>2, <1>5 DEF Free
<1>6. ASSUME worker' = worker PROVE VersionQuiet
  BY <1>6 DEF VersionQuiet, Busy
<1> QED BY <1>3, <1>4, <1>5, <1>6

LEMMA WorkerVersions ==
    ASSUME QueueTypes, NEW w \in Workers, WorkerStep(w) PROVE VersionQuiet
<1>0. Busy(w) /\ worker[w] \in WorkerStates
  BY DEF QueueTypes, Busy, WorkerStep, Check, Lookup, AgentEscalates, AgentReplies, AgentStops, AgentThrows,
         SaveReply, AttachReply, Guard, MarkSending, StartSend, CheckConsent, CallProvider,
         RecordSent, FinishAiResponse, HandOffQuote, Discard, Settle, Fail
<1>1. CASE Lookup(w)
  <2>1. CASE Goto(w, "agent")
    BY <1>0, <2>1, VersionMoves
  <2>2. ASSUME NEW r, worker' = [worker EXCEPT ![w].pc = "guard1", ![w].result = r.id,
                                               ![w].tag = r.version, ![w].text = r.text]
        PROVE  VersionQuiet
    BY <1>0, <2>2 DEF QueueTypes, WorkerStates, VersionQuiet, Busy
  <2> QED BY <1>1, <2>1, <2>2 DEF Lookup
<1>2. CASE SaveReply(w)
  BY <1>0, <1>2 DEF SaveReply, QueueTypes, WorkerStates, VersionQuiet, Busy
<1>3. \/ Lookup(w) \/ SaveReply(w) \/ worker' = worker \/ worker' = [worker EXCEPT ![w] = Free]
      \/ \E pc : Goto(w, pc) \/ \E outcome : GiveUp(w, pc, outcome)
  BY DEF WorkerStep, Check, AgentEscalates, AgentReplies, AgentStops, AgentThrows,
         AttachReply, Guard, MarkSending, StartSend, CheckConsent, CallProvider,
         RecordSent, FinishAiResponse, HandOffQuote, Discard, Settle, Fail
<1> QED BY <1>0, <1>1, <1>2, <1>3, VersionMoves

LEMMA QueuedStep == Inv /\ QueuedInv /\ [Next]_vars => QueuedInv'
<1> SUFFICES ASSUME Inv, QueuedInv, [Next]_vars PROVE QueuedInv'
  OBVIOUS
<1>0. QueueTypes /\ job \in Jobs /\ Offered \subseteq Offered'
  BY StepOffers DEF Inv, Types, QueueTypes
<1>1. VersionQuiet => QueuedInv'
  BY <1>0 DEF VersionQuiet, QueuedInv
<1>2. ASSUME NEW w \in Workers, Claim(w) PROVE QueuedInv'
  <2>1. job.status # "NONE" /\ job.version \in Offered
    BY <1>0, <1>2, SweptDue DEF Claim, Claimable, Inv, DeliveryInv, VersionsQueued, Offered
  <2>2. /\ worker'[w].version = job.version
        /\ \A x \in Workers \ {w} : worker'[x] = worker[x]
    BY <1>0, <1>2 DEF Claim, QueueTypes
  <2> QED BY <1>0, <2>1, <2>2 DEF QueuedInv, Busy
<1>3. ASSUME NEW w \in Workers, WorkerStep(w) PROVE VersionQuiet
  BY <1>0, <1>3, WorkerVersions
<1>4. ASSUME NEW w \in Workers, Crash(w) PROVE VersionQuiet
  BY <1>0, <1>4, VersionMoves DEF Crash, Busy
<1>5. worker' = worker => VersionQuiet
  BY DEF VersionQuiet, Busy
<1>6. ASSUME NEW w \in Workers, Sweep(w) PROVE worker' = worker
  BY <1>6 DEF Sweep
<1>7. LeaseExpires \/ Webhooks \/ Inbox \/ UNCHANGED vars => worker' = worker
  <2>1. \A s \in Staff : StaffCancels(s) => worker' = worker
    BY DEF StaffCancels
  <2>2. \A draft \in BOOLEAN : ChangeReplyMode(draft) => worker' = worker
    BY DEF ChangeReplyMode
  <2> QED
    BY <2>1, <2>2 DEF LeaseExpires, Webhooks, Inbox, ReceiveMessage, ReceiveKeyword, Decide, EnqueueAiResponse,
       HandlerDies, StopCancels, StopRevokes, StartGrants, StaffElsewhere, HandlerMoves, queueVars, vars
<1> QED BY <1>1, <1>2, <1>3, <1>4, <1>5, <1>6, <1>7 DEF Next

\* A delivery of a version is its first, and the version was queued.
LEMMA StepAnswers ==
    ASSUME Inv, QueuedInv, [Next]_vars, exposures' # exposures
    PROVE  \E v \in Versions : /\ v \in Offered /\ Answered[v] = 0
                               /\ Answered' = [Answered EXCEPT ![v] = 1]
<1>1. PICK w \in Workers : InWindow(w) /\ exposures' = exposures \cup {Exposure(w)}
  BY StepExposes
<1>2. PICK e \in exposures' : e = Exposure(w) /\ e.version = worker[w].version
  <2>1. Exposure(w) \in exposures' /\ Exposure(w).version = worker[w].version
    BY <1>1 DEF Exposure
  <2> QED BY <2>1
<1>3. PICK v \in Versions : v = worker[w].version /\ v \in Offered
  BY <1>1, StepClasses DEF QueuedInv, InWindow, Busy, Offered
<1>4. \A f \in exposures : f.version # v
  BY <1>1, <1>3 DEF Inv, DeliveryInv, VersionsSpent
<1>5. Deliveries(v) = {} /\ Deliveries(v)' = {e}
  BY <1>1, <1>2, <1>3, <1>4 DEF Deliveries
<1>6. \A u \in Versions : u # v => Deliveries(u)' = Deliveries(u)
  BY <1>1, <1>2, <1>3 DEF Deliveries
<1>7. Answered[v] = 0 /\ Answered'[v] = 1
  <2>1. Cardinality(Deliveries(v)) = 0
    BY <1>5, FS_EmptySet
  <2>2. Cardinality(Deliveries(v)') = 1
    BY <1>5, FS_Singleton
  <2>3. Answered[v] = Cardinality(Deliveries(v)) /\ Answered'[v] = Cardinality(Deliveries(v)')
    BY DEF Answered
  <2> QED BY <2>1, <2>2, <2>3
<1>8. \A u \in Versions \ {v} : Answered'[u] = Answered[u]
  BY <1>6 DEF Answered
<1>9. Answered' = [Answered EXCEPT ![v] = 1]
  BY <1>7, <1>8 DEF Answered
<1> QED BY <1>3, <1>7, <1>9

\* The reply queue, with its workers, messages, staff, crashes and leases, is the
\* contract: only queued versions are answered, each at most once.
THEOREM QueueImplementsContract == Spec => ImplementsContract
<1>1. Init => Inv /\ QueuedInv
  <2>1. Init => QueuedInv
    BY DEF Init, QueuedInv, Busy, Free
  <2> QED BY <2>1, InitInv
<1>2. Inv /\ QueuedInv /\ [Next]_vars => (Inv /\ QueuedInv)'
  BY StepInv, QueuedStep
<1>3. Init => Contract!Init
  <2> SUFFICES ASSUME Init PROVE Offered = {} /\ Answered = [v \in Versions |-> 0]
    BY DEF Contract!Init, Offered, Answered, Deliveries
  <2>1. Offered = {} /\ \A v \in Versions : Deliveries(v) = {}
    BY DEF Init, ControlInit, Offered, Deliveries
  <2> QED BY <2>1, FS_EmptySet DEF Answered
<1>4. Inv /\ QueuedInv /\ [Next]_vars => [Contract!Next]_(Contract!vars)
  <2> SUFFICES ASSUME Inv, QueuedInv, [Next]_vars
               PROVE  \/ \E v \in Versions : v \notin Offered /\ Offered' = Offered \cup {v} /\ Answered' = Answered
                      \/ \E v \in Versions : /\ v \in Offered /\ Answered[v] = 0
                                             /\ Answered' = [Answered EXCEPT ![v] = 1] /\ Offered' = Offered
                      \/ Offered' = Offered /\ Answered' = Answered
    BY DEF Contract!Next, Contract!Offer, Contract!Answer, Contract!vars, Offered, Answered, Deliveries
  <2>1. exposures' = exposures => Answered' = Answered
    BY DEF Answered, Deliveries
  <2> QED BY <2>1, StepOffers, StepAnswers
<1> QED BY <1>1, <1>2, <1>3, <1>4, PTL DEF Spec, ImplementsContract, Contract!Spec
=============================================================================
