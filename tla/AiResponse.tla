----------------------------- MODULE AiResponse -----------------------------
(***************************************************************************)
(* The debounced automatic reply of one SMS conversation: the queue row,   *)
(* the workers that lease it, and everything that runs beside them.        *)
(*                                                                         *)
(* A conversation has one AI_RESPONSE job.  Every client message upserts   *)
(* it with the newest inbound version; a worker claims it under a fresh    *)
(* lock token and a lease, generates and saves a reply, moves the job to   *)
(* SENDING, hands the reply to the provider and finishes the job.  Each    *)
(* database statement or provider call of a worker is one action, so that  *)
(* messages, staff requests, STOP, an expired lease or a crash fall        *)
(* between any two of them.                                                *)
(*                                                                         *)
(* Time is abstract: a due time may pass at any moment, and a lease may    *)
(* expire at any moment after it was taken or renewed.                     *)
(***************************************************************************)
EXTENDS ConversationControl, FiniteSets

CONSTANTS
    Workers,      \* concurrent runs of the automation endpoint
    MaxAttempts   \* max_attempts of the job

ASSUME AttemptBound == MaxAttempts \in Nat \ {0}

Claimable == {"PENDING", "RETRY"}
Leased    == {"PROCESSING", "SENDING"}
Settled   == {"COMPLETED", "CANCELLED", "FAILED", "DELIVERY_UNKNOWN"}

NoToken == 0
NoRow   == 0

\* Where a worker is; "idle" workers hold nothing.
BeforeSend == {"check", "lookup", "agent", "save", "attach", "guard1", "mark"}
SendWindow == {"guard2", "start", "guard3", "consent", "wire"}
AfterSend  == {"record", "finish", "handoff"}
GivingUp   == {"discard", "settle", "fail"}

VARIABLES
    job,       \* [status, version, attempts, token, result, expired]
    rows,      \* saved replies: [id, version it is tagged with, text, quote]
    drafts,    \* versions with a reply saved for review instead of sent
    consent,   \* the client is opted in to SMS for this artist
    worker,    \* each worker's step and its copies of the job and of the reply
    claims,    \* how many lock tokens were issued
    exposures, \* history: replies the provider may have delivered
    overrun    \* history: tokens whose lease expired before they were released

queueVars == <<job, rows, drafts, consent, worker, claims, exposures, overrun>>
vars == <<controlVars, queueVars>>

Free == [pc |-> "idle", token |-> NoToken, version |-> 0, attempt |-> 0,
         result |-> NoRow, tag |-> 0, text |-> 0, outcome |-> "COMPLETED"]

JobStatuses == {"NONE"} \cup Claimable \cup Leased \cup Settled
Jobs == [status : JobStatuses,
         version : Nat, attempts : Nat, token : Nat, result : Nat, expired : BOOLEAN]
Rows == [id : Nat, version : Nat, text : Nat, quote : BOOLEAN]
WorkerStates == [pc : {"idle"} \cup BeforeSend \cup SendWindow \cup AfterSend \cup GivingUp,
                 token : Nat, version : Nat, attempt : Nat, result : Nat, tag : Nat, text : Nat,
                 outcome : Settled \cup {"RETRY"}]

TypeOK ==
    /\ ControlTypeOK
    /\ job \in Jobs /\ rows \subseteq Rows /\ drafts \subseteq Nat /\ consent \in BOOLEAN
    /\ worker \in [Workers -> WorkerStates]
    /\ claims \in Nat
    /\ exposures \subseteq [token : Nat, version : Nat, row : Nat, text : Nat]
    /\ overrun \subseteq Nat

Init ==
    /\ ControlInit
    /\ job = [status |-> "NONE", version |-> 0, attempts |-> 0, token |-> NoToken,
              result |-> NoRow, expired |-> FALSE]
    /\ rows = {} /\ drafts = {} /\ consent = TRUE
    /\ worker = [w \in Workers |-> Free]
    /\ claims = 0
    /\ exposures = {} /\ overrun = {}

-----------------------------------------------------------------------------
(* The queue's statements, as functions of the job row.                     *)

Unlocked(j, status) == [j EXCEPT !.status = status, !.token = NoToken, !.expired = FALSE]

\* Faulty variant: the upsert resets a job whose reply is being sent.
EnqueuedOverSending(j, v) ==
    IF j.version > v THEN j
    ELSE [status |-> "PENDING", version |-> v, attempts |-> 0, token |-> NoToken,
          result |-> NoRow, expired |-> FALSE]

\* Upsert of a client message's version; a job whose reply is being sent keeps
\* its lease, attempt count and saved reply, any other is reset.
Enqueued(j, v) ==
    IF j.version > v THEN j
    ELSE IF j.status = "SENDING" THEN [j EXCEPT !.version = v]
    ELSE [status |-> "PENDING", version |-> v, attempts |-> 0, token |-> NoToken,
          result |-> NoRow, expired |-> FALSE]

\* Replies that were not handed to the provider are cancelled.
CancelUndelivered(j) ==
    IF j.status \in Claimable \cup {"PROCESSING"} THEN Unlocked(j, "CANCELLED") ELSE j

\* Faulty variant: an expired delivery is left alone.
SweptGenerationsOnly(j) ==
    IF j.status = "PROCESSING" /\ j.expired THEN Unlocked(j, "FAILED") ELSE j

\* First statements of the claim: an expired generation is retried only if its
\* reply was saved, an expired delivery is never retried.
Swept(j) ==
    CASE j.status = "PROCESSING" /\ j.expired ->
           Unlocked(j, IF j.attempts < MaxAttempts /\ \E r \in rows : r.version = j.version
                       THEN "RETRY" ELSE "FAILED")
      [] j.status = "SENDING" /\ j.expired -> Unlocked(j, "DELIVERY_UNKNOWN")
      [] OTHER -> j

Holds(w) == worker[w].token = job.token /\ job.token # NoToken /\ job.status \in Leased

\* Every later write of a worker is fenced by its lock token.
UpdateClaimed(w, new) == job' = IF Holds(w) THEN new ELSE job

\* Faulty variant: a newer message is forgotten.
FinishedForGood(j, processed) == Unlocked(j, "COMPLETED")
Finished(j, processed) ==
    IF j.version > processed
    THEN [Unlocked(j, "PENDING") EXCEPT !.attempts = 0, !.result = NoRow]
    ELSE Unlocked(j, "COMPLETED")

-----------------------------------------------------------------------------
(* Worker steps.                                                            *)

Goto(w, pc) == worker' = [worker EXCEPT ![w].pc = pc]
GiveUp(w, pc, outcome) == worker' = [worker EXCEPT ![w].pc = pc, ![w].outcome = outcome]

NoteOverrun == overrun' = IF job.status \in Leased /\ job.expired
                          THEN overrun \cup {job.token} ELSE overrun

\* One transaction sweeps expired leases and claims the job if it is due.
Claim(w) ==
    /\ worker[w].pc = "idle"
    /\ Swept(job).status \in Claimable
    /\ claims' = claims + 1
    /\ job' = [Swept(job) EXCEPT !.status = "PROCESSING", !.attempts = @ + 1,
                                 !.token = claims + 1, !.expired = FALSE]
    /\ worker' = [worker EXCEPT ![w] =
                    [pc |-> "check", token |-> claims + 1, version |-> job.version,
                     attempt |-> Swept(job).attempts + 1, result |-> job.result,
                     tag |-> 0, text |-> 0, outcome |-> "COMPLETED"]]
    /\ NoteOverrun
    /\ UNCHANGED <<controlVars, rows, drafts, consent, exposures>>

Sweep(w) ==
    /\ worker[w].pc = "idle"
    /\ Swept(job) # job /\ Swept(job).status \notin Claimable
    /\ job' = Swept(job)
    /\ NoteOverrun
    /\ UNCHANGED <<controlVars, rows, drafts, consent, worker, claims, exposures>>

Eligible(w) == conv.version = worker[w].version /\ ShouldRunAi(conv)

\* The claimed version must be the newest, the receptionist running and the
\* client opted in.
Check(w) ==
    /\ worker[w].pc = "check"
    /\ IF Eligible(w) /\ consent THEN Goto(w, "lookup") ELSE GiveUp(w, "settle", "CANCELLED")
    /\ UNCHANGED <<controlVars, job, rows, drafts, consent, claims, exposures, overrun>>

\* A reply saved by an earlier attempt is reused: the one the job points to,
\* else one written for the same version.
Reusable(w) ==
    LET attached == {r \in rows : r.id = worker[w].result}
    IN  IF attached # {} THEN attached ELSE {r \in rows : r.version = worker[w].version}

Lookup(w) ==
    /\ worker[w].pc = "lookup"
    /\ IF Reusable(w) = {}
       THEN Goto(w, "agent")
       ELSE \E r \in Reusable(w) :
              worker' = [worker EXCEPT ![w].pc = "guard1", ![w].result = r.id,
                                       ![w].tag = r.version, ![w].text = r.text]
    /\ UNCHANGED <<controlVars, job, rows, drafts, consent, claims, exposures, overrun>>

\* The guard run between steps renews the lease and re-reads the conversation.
Renew(w) == UpdateClaimed(w, [job EXCEPT !.expired = FALSE])
Allowed(w) == Holds(w) /\ Eligible(w)

\* The agent calls a tool after the guard passed; escalation pauses the AI.
AgentEscalates(w) ==
    /\ worker[w].pc = "agent"
    /\ ~conv.draft /\ Allowed(w) /\ Renew(w)
    /\ conv' = Escalated(conv)
    /\ UNCHANGED <<closeEvent, handler, req, started, rows, drafts, consent, worker,
                   claims, exposures, overrun>>

\* The model answered and the guard passed: the reply is saved next, or kept
\* for review when the conversation is in draft mode.
AgentReplies(w) ==
    /\ worker[w].pc = "agent"
    /\ Allowed(w) /\ Renew(w)
    /\ IF conv.draft
       THEN drafts' = drafts \cup {worker[w].version} /\ GiveUp(w, "settle", "COMPLETED")
       ELSE drafts' = drafts /\ Goto(w, "save")
    /\ UNCHANGED <<controlVars, rows, consent, claims, exposures, overrun>>

\* A guard failed: nothing is sent.
AgentStops(w) ==
    /\ worker[w].pc = "agent"
    /\ ~Allowed(w) /\ Renew(w)
    /\ GiveUp(w, "settle", "CANCELLED")
    /\ UNCHANGED <<controlVars, rows, drafts, consent, claims, exposures, overrun>>

\* The agent threw while the conversation was still eligible.
AgentThrows(w) ==
    /\ worker[w].pc = "agent" /\ Eligible(w)
    /\ \E outcome \in {"RETRY", "FAILED"} : GiveUp(w, "fail", outcome)
    /\ UNCHANGED <<controlVars, job, rows, drafts, consent, claims, exposures, overrun>>

\* The reply becomes a message row tagged with the job and the version.
SaveReply(w) ==
    /\ worker[w].pc = "save"
    /\ \E quote \in BOOLEAN :
         rows' = rows \cup {[id |-> worker[w].token, version |-> worker[w].version,
                             text |-> worker[w].version, quote |-> quote]}
    /\ worker' = [worker EXCEPT ![w].pc = "attach", ![w].result = worker[w].token,
                                ![w].tag = worker[w].version, ![w].text = worker[w].version]
    /\ UNCHANGED <<controlVars, job, drafts, consent, claims, exposures, overrun>>

Without(id) == {r \in rows : r.id # id}

\* The job points to the row; a worker that lost the lease deletes its row.
AttachReply(w) ==
    /\ worker[w].pc = "attach"
    /\ UpdateClaimed(w, [job EXCEPT !.result = worker[w].result])
    /\ IF Holds(w)
       THEN rows' = rows /\ Goto(w, "guard1")
       ELSE rows' = Without(worker[w].result) /\ worker' = [worker EXCEPT ![w] = Free]
    /\ UNCHANGED <<controlVars, drafts, consent, claims, exposures, overrun>>

Guard(w, here, next) ==
    /\ worker[w].pc = here
    /\ Renew(w)
    /\ IF Allowed(w) THEN Goto(w, next) ELSE GiveUp(w, "discard", "CANCELLED")
    /\ UNCHANGED <<controlVars, rows, drafts, consent, claims, exposures, overrun>>

MarkSending(w) ==
    /\ worker[w].pc = "mark"
    /\ UpdateClaimed(w, [job EXCEPT !.status = "SENDING", !.expired = FALSE])
    /\ IF Holds(w) THEN Goto(w, "guard2") ELSE GiveUp(w, "discard", "CANCELLED")
    /\ UNCHANGED <<controlVars, rows, drafts, consent, claims, exposures, overrun>>

Retagged(id, v) == {IF r.id = id THEN [r EXCEPT !.version = v] ELSE r : r \in rows}

\* The row is marked as started, under the version being answered, and the
\* reply mode is read once more.
StartSend(w) ==
    /\ worker[w].pc = "start"
    /\ rows' = Retagged(worker[w].result, worker[w].version)
    /\ IF ~conv.draft /\ ShouldRunAi(conv)
       THEN Goto(w, "guard3") ELSE GiveUp(w, "discard", "CANCELLED")
    /\ UNCHANGED <<controlVars, job, drafts, consent, claims, exposures, overrun>>

\* Deleting the undelivered row, then releasing the job, are two statements.
Discard(w) ==
    /\ worker[w].pc = "discard"
    /\ rows' = Without(worker[w].result)
    /\ Goto(w, "settle")
    /\ UNCHANGED <<controlVars, job, drafts, consent, claims, exposures, overrun>>

Settle(w) ==
    /\ worker[w].pc = "settle"
    /\ UpdateClaimed(w, Unlocked(job, worker[w].outcome))
    /\ worker' = [worker EXCEPT ![w] = Free]
    /\ UNCHANGED <<controlVars, rows, drafts, consent, claims, exposures, overrun>>

\* The sender checks the client's consent before it calls the provider.
CheckConsent(w) ==
    /\ worker[w].pc = "consent"
    /\ IF consent THEN Goto(w, "wire") ELSE GiveUp(w, "fail", "FAILED")
    /\ UNCHANGED <<controlVars, job, rows, drafts, consent, claims, exposures, overrun>>

Exposure(w) == [token |-> worker[w].token, version |-> worker[w].version,
                row |-> worker[w].result, text |-> worker[w].text]

\* Faulty variant: an answer that never came is retried.
CallProviderAgain(w) ==
    /\ worker[w].pc = "wire"
    /\ exposures' = exposures \cup {Exposure(w)}
    /\ Goto(w, "record") \/ GiveUp(w, "fail", "RETRY")
    /\ UNCHANGED <<controlVars, job, rows, drafts, consent, claims, overrun>>

\* The provider call: accepted, of unknown outcome, refused for now, rejected.
CallProvider(w) ==
    /\ worker[w].pc = "wire"
    /\ \/ /\ exposures' = exposures \cup {Exposure(w)}
          /\ \/ Goto(w, "record")
             \/ GiveUp(w, "fail", "DELIVERY_UNKNOWN")
       \/ /\ exposures' = exposures
          /\ \E outcome \in {"RETRY", "FAILED"} : GiveUp(w, "fail", outcome)
    /\ UNCHANGED <<controlVars, job, rows, drafts, consent, claims, overrun>>

\* The provider's identifier is stored; a database error here leaves the
\* outcome unknown.
RecordSent(w) ==
    /\ worker[w].pc = "record"
    /\ \/ rows' = Retagged(worker[w].result, worker[w].tag) /\ Goto(w, "finish")
       \/ rows' = rows /\ GiveUp(w, "fail", "DELIVERY_UNKNOWN")
    /\ UNCHANGED <<controlVars, job, drafts, consent, claims, exposures, overrun>>

\* A newer message that arrived while this one was answered queues the job again.
FinishAiResponse(w) ==
    /\ worker[w].pc = "finish"
    /\ job' = IF Holds(w) /\ job.status = "SENDING"
              THEN Finished(job, worker[w].version) ELSE job
    /\ Goto(w, "handoff")
    /\ UNCHANGED <<controlVars, rows, drafts, consent, claims, exposures, overrun>>

\* An acknowledgment that promises a quote pauses the receptionist.
HandOffQuote(w) ==
    /\ worker[w].pc = "handoff"
    /\ conv' = IF \E r \in rows : r.id = worker[w].result /\ r.quote THEN HandedOff(conv) ELSE conv
    /\ worker' = [worker EXCEPT ![w] = Free]
    /\ UNCHANGED <<closeEvent, handler, req, started, job, rows, drafts, consent, claims,
                   exposures, overrun>>

\* The error handler: a retry only while attempts are left.
Fail(w) ==
    /\ worker[w].pc = "fail"
    /\ LET status == IF worker[w].outcome = "RETRY" /\ worker[w].attempt >= MaxAttempts
                     THEN "FAILED" ELSE worker[w].outcome
       IN  UpdateClaimed(w, Unlocked(job, status))
    /\ worker' = [worker EXCEPT ![w] = Free]
    /\ UNCHANGED <<controlVars, rows, drafts, consent, claims, exposures, overrun>>

\* The process that runs a worker dies between two of its statements.
Crash(w) ==
    /\ worker[w].pc # "idle"
    /\ worker' = [worker EXCEPT ![w] = Free]
    /\ UNCHANGED <<controlVars, job, rows, drafts, consent, claims, exposures, overrun>>

WorkerStep(w) ==
    \/ Check(w) \/ Lookup(w) \/ AgentEscalates(w) \/ AgentReplies(w) \/ AgentStops(w)
    \/ AgentThrows(w) \/ SaveReply(w) \/ AttachReply(w) \/ Guard(w, "guard1", "mark") \/ MarkSending(w)
    \/ Guard(w, "guard2", "start") \/ StartSend(w) \/ Guard(w, "guard3", "consent")
    \/ CheckConsent(w) \/ CallProvider(w) \/ RecordSent(w) \/ FinishAiResponse(w)
    \/ HandOffQuote(w) \/ Discard(w) \/ Settle(w) \/ Fail(w)

-----------------------------------------------------------------------------
(* What runs beside the workers.                                            *)

LeaseExpires ==
    /\ job.status \in Leased /\ ~job.expired
    /\ job' = [job EXCEPT !.expired = TRUE]
    /\ UNCHANGED <<controlVars, rows, drafts, consent, worker, claims, exposures, overrun>>

\* A client message is recorded; it goes on only if the client is not opted out.
ReceiveMessage ==
    /\ RecordInbound(IF consent THEN "decide" ELSE "done")
    /\ UNCHANGED queueVars

ReceiveKeyword(next) == RecordInbound(next) /\ UNCHANGED queueVars

Decide(v) == DecideInbound(v) /\ UNCHANGED queueVars

HandlerMoves(v, from, to) ==
    /\ handler[v] = from
    /\ handler' = [handler EXCEPT ![v] = to]
    /\ UNCHANGED <<conv, closeEvent, req, started, rows, drafts, worker, claims, exposures, overrun>>

EnqueueAiResponse(v) ==
    /\ HandlerMoves(v, "enqueue", "queued")
    /\ job' = Enqueued(job, v)
    /\ consent' = consent

\* STOP cancels what was not sent, then revokes consent; START grants it.
StopCancels(v) ==
    /\ HandlerMoves(v, "stopCancel", "stopRevoke")
    /\ job' = CancelUndelivered(job)
    /\ consent' = consent

StopRevokes(v) == HandlerMoves(v, "stopRevoke", "done") /\ consent' = FALSE /\ job' = job
StartGrants(v) == HandlerMoves(v, "startGrant", "done") /\ consent' = TRUE /\ job' = job

\* A webhook request dies; the provider's retry is taken for a duplicate.
HandlerDies(v) ==
    /\ handler[v] \in {"decide", "enqueue", "stopCancel", "stopRevoke", "startGrant"}
    /\ HandlerMoves(v, handler[v], "lost")
    /\ UNCHANGED <<job, consent>>

StaffCancels(s) ==
    /\ StaffCancel(s)
    /\ job' = CancelUndelivered(job)
    /\ UNCHANGED <<rows, drafts, consent, worker, claims, exposures, overrun>>

ChangeReplyMode(draft) ==
    /\ SetReplyMode(draft)
    /\ job' = CancelUndelivered(job)
    /\ UNCHANGED <<rows, drafts, consent, worker, claims, exposures, overrun>>

StaffElsewhere(s) ==
    /\ \/ \E action \in InboxActions \cup {"REPLY"} : StaffRead(s, action)
       \/ StaffWrite(s) \/ StaffReplied(s) \/ StaffEvent(s)
    /\ UNCHANGED queueVars

Webhooks ==
    \/ ReceiveMessage
    \/ \E next \in {"stopCancel", "startGrant"} : ReceiveKeyword(next)
    \/ \E v \in Versions :
         \/ Decide(v) \/ EnqueueAiResponse(v) \/ HandlerDies(v)
         \/ StopCancels(v) \/ StopRevokes(v) \/ StartGrants(v)

Inbox ==
    \/ \E s \in Staff : StaffCancels(s) \/ StaffElsewhere(s)
    \/ \E draft \in BOOLEAN : ChangeReplyMode(draft)

Next ==
    \/ \E w \in Workers : Claim(w) \/ Sweep(w) \/ WorkerStep(w) \/ Crash(w)
    \/ LeaseExpires
    \/ Webhooks
    \/ Inbox

Spec == Init /\ [][Next]_vars

\* The endpoint is called on a schedule, a running worker keeps running unless
\* it crashes, and time passes.
Fairness ==
    /\ \A w \in Workers : WF_vars(Claim(w)) /\ WF_vars(Sweep(w)) /\ WF_vars(WorkerStep(w))
    /\ WF_vars(LeaseExpires)

FairSpec == Spec /\ Fairness

-----------------------------------------------------------------------------
(* Why no version is sent twice: an invariant that the steps preserve.      *)

Busy(w) == worker[w].pc # "idle"
InWindow(w) == worker[w].pc \in SendWindow

\* Lock tokens are never reused.
TokensFresh ==
    /\ job.token <= claims
    /\ \A e \in exposures : e.token \in 1 .. claims
    /\ \A w \in Workers : Busy(w) => worker[w].token \in 1 .. claims
    /\ \A w, x \in Workers : Busy(w) /\ Busy(x) /\ worker[w].token = worker[x].token => w = x

\* The job carries the newest version that was queued; it never goes back.
VersionsQueued ==
    /\ \A v \in Versions : v > conv.version => handler[v] = "none"
    /\ IF job.status = "NONE" THEN job.version = 0
       ELSE job.version \in Versions /\ handler[job.version] = "queued"
    /\ \A w \in Workers : Busy(w) => worker[w].version \in 1 .. job.version
    /\ \A e \in exposures : e.version \in 1 .. job.version

\* The holder of the lease and the job agree on the version and on how far the
\* delivery got.
LeaseAgrees ==
    \A w \in Workers : Busy(w) /\ Holds(w) =>
        /\ job.status = "PROCESSING" => worker[w].version = job.version /\ ~InWindow(w)
        /\ worker[w].pc \in BeforeSend => job.status = "PROCESSING"

\* What a worker that exposed a reply does next, and what a worker that gives up
\* writes.
OutcomesHonest ==
    /\ \A w \in Workers : worker[w].pc \in {"discard", "settle"} => worker[w].outcome \in Settled
    /\ \A w \in Workers : \A e \in exposures : Busy(w) /\ e.token = worker[w].token =>
         /\ e.version = worker[w].version
         /\ worker[w].pc \in AfterSend
              \/ (worker[w].pc = "fail" /\ worker[w].outcome = "DELIVERY_UNKNOWN")

\* No other worker can be given version v any more.
Spent(v, token) ==
    \/ job.version > v
    \/ job.version = v /\ (job.status \in Settled \/ (job.status = "SENDING" /\ job.token = token))

\* The versions in the send window and those that were exposed are spent, and
\* all different.
VersionsSpent ==
    /\ \A e \in exposures : Spent(e.version, e.token)
    /\ \A w \in Workers : InWindow(w) =>
         /\ Spent(worker[w].version, worker[w].token)
         /\ \A e \in exposures : e.version # worker[w].version
         /\ \A x \in Workers : InWindow(x) /\ worker[x].version = worker[w].version => x = w

DeliveryInv ==
    TokensFresh /\ VersionsQueued /\ LeaseAgrees /\ OutcomesHonest /\ VersionsSpent

-----------------------------------------------------------------------------
(* Properties.                                                              *)

\* For one inbound version the provider is handed at most one reply that it may
\* have delivered: not two after a crash, an expired lease, an unknown outcome
\* or a rate limit.
NeverSentTwice == \A e, f \in exposures : e.version = f.version => e = f

\* No saved reply is handed to the provider twice in a way that may deliver it
\* twice, although replies are reused by later attempts and for newer versions.
NoReplyReused == \A e, f \in exposures : e.row = f.row => e = f

\* A job is never completed over the head of a newer message: whatever was
\* merged into it while it was being sent, COMPLETED means that the version it
\* carries was answered, or drafted for review.
CompletedMeansAnswered ==
    job.status = "COMPLETED" =>
        job.version \in drafts \/ \E e \in exposures : e.version = job.version

\* The row of a reply the provider may have delivered is deleted only by a
\* worker whose lease ran out before that delivery was claimed.
DeliveredRowKept ==
    \A e \in exposures :
        (\E r \in rows : r.id = e.row) \/ (\E t \in overrun : t < e.token)

\* Resets by newer messages, sweeps and retries never let the job be claimed
\* more often than its attempts allow.
AttemptsBounded == job.attempts <= MaxAttempts

\* The queue keeps its books: the four facts above, together.
QueueSafe == NoReplyReused /\ CompletedMeansAnswered /\ DeliveredRowKept /\ AttemptsBounded

\* An older version is answered after a newer one only by a worker that had
\* lost its lease in the middle of the delivery.
InOrderUnlessOverrun ==
    [][\A e \in exposures' \ exposures : \A f \in exposures :
          f.version > e.version => e.token \in overrun]_vars

\* Whatever crashes, every queued reply is eventually sent, given up or left as
\* of unknown outcome: no job stays leased or due forever.
JobSettles == (job.status \in Claimable \cup Leased) ~> (job.status \in Settled)

Contract == INSTANCE ReplyContract WITH
    offered <- {v \in Versions : handler[v] = "queued"},
    answered <- [v \in Versions |-> Cardinality({e \in exposures : e.version = v})]

\* The queue and its workers implement the reply contract.
ImplementsContract == Contract!Spec

\* "AI debouncing tracks inbound versions": the reply handed to the provider for
\* a version was written for that version.
ReplyMatchesVersion == \A e \in exposures : e.text = e.version
=============================================================================
