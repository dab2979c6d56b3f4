--------------------------- MODULE LifecycleJobs ---------------------------
(***************************************************************************)
(* The text messages around one appointment: its reminder, its waiver      *)
(* link, the confirmation of its payment, the follow-up of its completion  *)
(* and the nudge for a waiver link that staff sent.                        *)
(*                                                                         *)
(* A request changes the appointment in one commit and schedules or        *)
(* withdraws jobs in later ones; saving the artist's settings adjusts the  *)
(* waiver jobs in its own transaction; workers lease jobs, check them,     *)
(* and hand messages over.  Each commit and each provider call is one      *)
(* action.  Time is abstract: a job may be due, and a lease may expire, at *)
(* any moment; `early' says that the waiver's send time is in the future.  *)
(***************************************************************************)
EXTENDS Naturals, FiniteSets

CONSTANTS
    Senders,       \* concurrent runs of the automation endpoint
    Requests,      \* requests of staff, clients and payment events: each is made once
    Studios,       \* the studios looked at: the automations each uses, and three bounds, the
                   \* workers, the requests, and how often things change under its jobs
    LastRevision,  \* bound: revisions of the appointment's schedule
    SendAttempts   \* max_attempts of a job

ASSUME LifecycleBounds ==
    LastRevision \in Nat \ {0} /\ SendAttempts \in Nat \ {0} /\ IsFiniteSet(Senders)

Automations == {"reminder", "waiver", "confirmation", "followup", "nudge"}
PerRevision == {"reminder", "waiver"}      \* types whose key names the schedule revision
PreCompletion == {"reminder", "waiver", "nudge"}

ASSUME StudiosTyped ==
    Studios \subseteq [uses : SUBSET Automations, crew : SUBSET Senders,
                      calls : SUBSET Requests, upsets : 0..2]

Keys == {k \in Automations \X (0..LastRevision) : (k[1] \in PerRevision) = (k[2] > 0)}

\* Faulty variant: the key of a job does not name the revision.
KeyOfAppointment(type, rev) == <<type, IF type \in PerRevision THEN 1 ELSE 0>>

KeyOf(type, rev) == <<type, IF type \in PerRevision THEN rev ELSE 0>>

Due         == {"PENDING", "RETRY"}
Undelivered == Due \cup {"PROCESSING"}
JobStates   == Undelivered \cup {"SENDING", "COMPLETED", "CANCELLED", "FAILED", "DELIVERY_UNKNOWN"}
WaiverStates == {"NONE", "PENDING", "SENT", "DELIVERY_FAILED", "DELIVERY_UNKNOWN",
                 "COMPLETED", "REVIEWED", "VOID"}

VARIABLES
    appt,      \* [status, rev]
    uses,      \* the automations this studio uses
    settings,  \* the artist's enabled ones
    early,     \* the waiver's send time has not come
    reach,     \* the client accepts SMS; before the visit: it is ahead and its deposit paid
    human,     \* staff have taken over the client's SMS conversation
    upsets,    \* how often these four may still change by themselves
    form,      \* the waiver is an "assigned" form, or the studio's own "template"
    links,     \* waiver assignments made by "maia" and by "staff"
    signed,    \* a template waiver was signed
    jobs,      \* rows of automation_jobs, by key
    sender,    \* each worker's step, job, token and copy of the job's message
    request,   \* each request's next step
    sends,     \* history: messages the provider accepted, by job key
    obsolete,  \* history: jobs that no longer applied when they became SENDING
    missed     \* history: a scheduling step died, or met an unreachable client

world == <<appt, uses, settings, early, reach, human, upsets, form>>
paper == <<links, signed>>
past  == <<sends, obsolete, missed>>
lifecycleVars == <<world, paper, jobs, sender, request, past>>

Resting == [pc |-> "rest", key |-> <<"nudge", 0>>, token |-> 0, result |-> FALSE, outcome |-> "RETRY"]
Off     == [Resting EXCEPT !.pc = "off"]
Ready   == [pc |-> "ready", rev |-> 0, todo |-> {}]
NoJob   == [status |-> "NONE", rev |-> 0, attempts |-> 0, token |-> 0,
            result |-> FALSE, code |-> "none"]

JobRows == [status : {"NONE"} \cup JobStates, rev : 0..LastRevision, attempts : 0..SendAttempts,
            token : Nat, result : BOOLEAN, code : {"none", "DISABLED", "ISSUED"}]
SenderStates ==
    [pc : {"off", "rest", "check", "issue", "retime", "attach", "guard", "wire", "record", "finish",
           "fail", "blame"},
     key : Keys, token : Nat, result : BOOLEAN,
     outcome : {"RETRY", "FAILED", "DELIVERY_UNKNOWN"}]
RequestStates ==
    [pc : {"ready", "done", "plan", "enqueue", "withdraw", "close", "followup", "text", "nudge", "unnudge"},
     rev : 0..LastRevision, todo : SUBSET Automations]

\* The rows and the steps of the workers and requests have their types; a job has a
\* lock token exactly while a worker has it.
LifecycleTypeOK ==
    /\ appt \in [status : {"CONFIRMED", "COMPLETED", "CANCELLED"}, rev : 1..LastRevision]
    /\ uses \subseteq Automations /\ settings \subseteq uses
    /\ early \in BOOLEAN /\ reach \in BOOLEAN /\ human \in BOOLEAN
    /\ upsets \in 0..2 /\ form \in {"assigned", "template"}
    /\ links \in [{"maia", "staff"} -> WaiverStates] /\ signed \in BOOLEAN
    /\ jobs \in [Keys -> JobRows]
    /\ \A k \in Keys : (jobs[k].token # 0) = (jobs[k].status \in {"PROCESSING", "SENDING"})
    /\ sender \in [Senders -> SenderStates] /\ request \in [Requests -> RequestStates]
    /\ sends \in [Keys -> 0..2] /\ obsolete \subseteq Keys /\ missed \in BOOLEAN

\* A request has just confirmed the appointment and will schedule its jobs.
LifecycleInit ==
    /\ appt = [status |-> "CONFIRMED", rev |-> 1]
    /\ \E s \in Studios : \E first \in s.calls :
         /\ uses = s.uses /\ upsets = s.upsets
         /\ sender = [w \in Senders |-> IF w \in s.crew THEN Resting ELSE Off]
         /\ request = [r \in Requests |-> [Ready EXCEPT !.pc =
              IF r = first THEN "plan" ELSE IF r \in s.calls THEN "ready" ELSE "done"]]
    /\ settings = uses
    /\ early = FALSE /\ reach = TRUE /\ human = FALSE
    /\ form \in {"assigned", "template"} /\ ("waiver" \notin uses => form = "assigned")
    /\ links = [by \in {"maia", "staff"} |-> "NONE"] /\ signed = FALSE
    /\ jobs = [k \in Keys |-> NoJob]
    /\ sends = [k \in Keys |-> 0] /\ obsolete = {} /\ missed = FALSE

-----------------------------------------------------------------------------
(* Statements on job rows.                                                  *)

Pending(rev) == [NoJob EXCEPT !.status = "PENDING", !.rev = rev]

\* INSERT ... ON CONFLICT DO NOTHING
Inserted(k, rev) == IF jobs[k].status = "NONE" THEN [jobs EXCEPT ![k] = Pending(rev)] ELSE jobs

Released(j, status) == [j EXCEPT !.status = status, !.token = 0]

Withdrawn(types) ==
    [k \in Keys |-> IF k[1] \in types /\ jobs[k].status \in Undelivered
                    THEN [Released(jobs[k], "CANCELLED") EXCEPT !.code = "none"] ELSE jobs[k]]

\* Faulty variant: an expired delivery is tried again.
SweptAgain(j) == Released(j, "RETRY")

\* What the claim makes of an expired lease: preparations are retried, deliveries never.
SweptRow(j) ==
    Released(j, IF j.status = "SENDING" THEN "DELIVERY_UNKNOWN"
                ELSE IF j.attempts < SendAttempts THEN "RETRY" ELSE "FAILED")

HoldsJob(w) == /\ jobs[sender[w].key].token = sender[w].token
               /\ jobs[sender[w].key].status \in {"PROCESSING", "SENDING"}

\* Every later write of a worker is fenced by its lock token.
Fenced(w, new) == IF HoldsJob(w) THEN [jobs EXCEPT ![sender[w].key] = new] ELSE jobs

\* syncArtistWaiverJobs: disabling cancels waiting waiver jobs; enabling, or a new
\* send time, inserts or revives the job of the current revision.
Synced(enabled) ==
    LET k == KeyOf("waiver", appt.rev)
        j == jobs[k]
    IN  IF ~enabled
        THEN [x \in Keys |-> IF x[1] = "waiver" /\ jobs[x].status \in Due
                             THEN [jobs[x] EXCEPT !.status = "CANCELLED", !.code = "DISABLED"]
                             ELSE jobs[x]]
        ELSE IF appt.status = "CONFIRMED" /\ reach
                /\ \/ j.status \in {"NONE"} \cup Due
                   \/ j.status = "CANCELLED" /\ j.code = "DISABLED"
        THEN [jobs EXCEPT ![k] = [j EXCEPT !.status = "PENDING", !.rev = appt.rev, !.code = "none"]]
        ELSE jobs

-----------------------------------------------------------------------------
(* Requests: staff, the AI, and payment events.                             *)

Step(r, pc) == request' = [request EXCEPT ![r].pc = pc]
Done(r) == request' = [request EXCEPT ![r] = [Ready EXCEPT !.pc = "done"]]

\* A move in the calendar gives the appointment a new start and revision.
Move(r) ==
    /\ request[r].pc = "ready" /\ appt.status = "CONFIRMED" /\ appt.rev < LastRevision
    /\ appt' = [appt EXCEPT !.rev = @ + 1]
    /\ early' \in {FALSE, "waiver" \in uses}
    /\ Step(r, "plan")
    /\ UNCHANGED <<uses, settings, reach, human, upsets, form, paper, jobs, sender, past>>

\* scheduleConfirmedAppointmentAutomations reads the row, then inserts one job at
\* a time; the payment's confirmation is inserted last, by its own function.
Plan(r) ==
    /\ request[r].pc = "plan"
    /\ IF appt.status = "CONFIRMED" /\ reach
       THEN request' = [request EXCEPT ![r] =
                [pc |-> "enqueue", rev |-> appt.rev,
                 todo |-> settings \cap {"reminder", "waiver", "confirmation"}]]
       ELSE Done(r)
    /\ missed' = (missed \/ ~reach)
    /\ UNCHANGED <<world, paper, jobs, sender, sends, obsolete>>

Next_Todo(todo) == CHOOSE t \in todo :
    t = "reminder" \/ (t = "waiver" /\ "reminder" \notin todo) \/ todo = {"confirmation"}

Enqueue(r) ==
    /\ request[r].pc = "enqueue"
    /\ IF request[r].todo = {}
       THEN Done(r) /\ UNCHANGED jobs
       ELSE LET t == Next_Todo(request[r].todo)
            IN  /\ jobs' = Inserted(KeyOf(t, request[r].rev), request[r].rev)
                /\ request' = [request EXCEPT ![r].todo = @ \ {t}]
    /\ UNCHANGED <<world, paper, sender, past>>

CancelAppointment(r) ==
    /\ request[r].pc = "ready" /\ appt.status # "CANCELLED"
    /\ appt' = [appt EXCEPT !.status = "CANCELLED"]
    /\ Step(r, "withdraw")
    /\ UNCHANGED <<uses, settings, early, reach, human, upsets, form, paper, jobs, sender, past>>

Withdraw(r) ==
    /\ request[r].pc = "withdraw"
    /\ jobs' = Withdrawn(Automations)
    /\ Done(r)
    /\ UNCHANGED <<world, paper, sender, past>>

\* Marking complete withdraws what precedes the visit and plans the follow-up;
\* marking it again only plans the follow-up.
CompleteAppointment(r) ==
    /\ request[r].pc = "ready"
    /\ \/ appt.status = "CONFIRMED" /\ Step(r, "close")
       \/ appt.status = "COMPLETED" /\ Step(r, "followup")
    /\ appt' = [appt EXCEPT !.status = "COMPLETED"]
    /\ UNCHANGED <<uses, settings, early, reach, human, upsets, form, paper, jobs, sender, past>>

CloseJobs(r) ==
    /\ request[r].pc = "close"
    /\ jobs' = Withdrawn(PreCompletion)
    /\ Step(r, "followup")
    /\ UNCHANGED <<world, paper, sender, past>>

PlanFollowup(r) ==
    /\ request[r].pc = "followup"
    /\ jobs' = IF appt.status = "COMPLETED" /\ reach /\ "followup" \in settings
               THEN Inserted(<<"followup", 0>>, appt.rev) ELSE jobs
    /\ Done(r)
    /\ UNCHANGED <<world, paper, sender, past>>

\* Staff create a waiver link, to hand over themselves or to text at once.
StaffLink(r) ==
    /\ request[r].pc = "ready" /\ "nudge" \in uses /\ form = "assigned" /\ links["staff"] = "NONE"
    /\ links' = [links EXCEPT !["staff"] = "PENDING"]
    /\ Done(r) \/ (reach /\ Step(r, "text"))
    /\ UNCHANGED <<world, signed, jobs, sender, past>>

StaffText(r) ==
    /\ request[r].pc = "text"
    /\ \/ links' = [links EXCEPT !["staff"] = "SENT"] /\ Step(r, "nudge")
       \/ links' = [links EXCEPT !["staff"] = "DELIVERY_FAILED"] /\ Done(r)
    /\ UNCHANGED <<world, signed, jobs, sender, past>>

StaffNudge(r) ==
    /\ request[r].pc = "nudge"
    /\ jobs' = Inserted(<<"nudge", 0>>, appt.rev)
    /\ Done(r)
    /\ UNCHANGED <<world, paper, sender, past>>

\* Staff mark a link as completed, reviewed or void.
StaffMark(r) ==
    /\ request[r].pc = "ready"
    /\ \E by \in {"maia", "staff"}, status \in {"COMPLETED", "REVIEWED", "VOID"} :
         /\ links[by] # "NONE"
         /\ status = "REVIEWED" => links[by] \in {"COMPLETED", "REVIEWED"}
         /\ links' = [links EXCEPT ![by] = status]
         /\ request' = [request EXCEPT ![r].pc = "unnudge",
                          ![r].todo = IF status = "VOID" THEN {"nudge"} ELSE PreCompletion]
    /\ UNCHANGED <<world, signed, jobs, sender, past>>

Unnudge(r) ==
    /\ request[r].pc = "unnudge"
    /\ jobs' = Withdrawn(request[r].todo)
    /\ Done(r)
    /\ UNCHANGED <<world, paper, sender, past>>

RequestStops(r) ==
    /\ request[r].pc \notin {"ready", "done"}
    /\ missed' = TRUE
    /\ Done(r)
    /\ UNCHANGED <<world, paper, jobs, sender, sends, obsolete>>

\* Saving the artist's settings, with the waiver jobs, in one transaction.
SaveSettings ==
    /\ upsets > 0 /\ upsets' = upsets - 1
    /\ early' \in {FALSE, "waiver" \in uses}
    /\ \E s \in SUBSET uses :
         /\ settings' = s
         /\ jobs' = IF ("waiver" \in s) # ("waiver" \in settings) \/ early' # early
                    THEN Synced("waiver" \in s) ELSE jobs
    /\ missed' = (missed \/ ~reach)
    /\ UNCHANGED <<appt, uses, reach, human, form, paper, sender, request, sends, obsolete>>

-----------------------------------------------------------------------------
(* The client, the clock, and staff in the inbox.                           *)

WorldChanges ==
    /\ upsets > 0 /\ upsets' = upsets - 1
    /\ \/ early /\ early' = FALSE /\ UNCHANGED <<reach, human>>
       \/ reach' = ~reach /\ UNCHANGED <<early, human>>
       \/ human' = ~human /\ UNCHANGED <<early, reach>>
    /\ UNCHANGED <<appt, uses, settings, form, paper, jobs, sender, request, past>>

\* The client signs the studio's own form, whose transaction withdraws the nudge, or
\* a template.
ClientSigns ==
    /\ \/ \E by \in {"maia", "staff"} :
            /\ links[by] \notin {"NONE", "COMPLETED", "REVIEWED", "VOID"} /\ appt.status # "CANCELLED"
            /\ links' = [links EXCEPT ![by] = "COMPLETED"]
            /\ jobs' = Withdrawn({"nudge"})
            /\ UNCHANGED signed
       \/ form = "template" /\ ~signed /\ signed' = TRUE /\ UNCHANGED <<links, jobs>>
    /\ UNCHANGED <<world, sender, request, past>>

\* The form provider reports a signature: whatever became of the link it is completed,
\* and what precedes the visit is withdrawn afterwards.
ProviderSigns(r) ==
    /\ request[r].pc = "ready"
    /\ \E by \in {"maia", "staff"} :
         /\ links[by] \notin {"NONE", "COMPLETED"}
         /\ links' = [links EXCEPT ![by] = "COMPLETED"]
    /\ jobs' = Withdrawn({"nudge"})
    /\ request' = [request EXCEPT ![r].pc = "unnudge", ![r].todo = PreCompletion]
    /\ UNCHANGED <<world, signed, sender, past>>

-----------------------------------------------------------------------------
(* Workers.                                                                 *)

Confirmed(rev) == appt.status = "CONFIRMED" /\ appt.rev = rev /\ reach

\* What the checks of each type of job ask of the appointment, the artist and the client.
ConfirmationApplies(rev) == Confirmed(rev) /\ ~human
ReminderApplies(rev) == Confirmed(rev) /\ "reminder" \in settings
WaiverApplies(rev) == Confirmed(rev) /\ "waiver" \in settings /\ ~human
FollowupApplies == appt.status = "COMPLETED" /\ reach /\ "followup" \in settings
NudgeApplies == links["staff"] = "SENT" /\ appt.status # "CANCELLED" /\ reach

Applies(type, rev) ==
    \/ type = "reminder" /\ ReminderApplies(rev)
    \/ type = "waiver" /\ WaiverApplies(rev)
    \/ type = "confirmation" /\ ConfirmationApplies(rev)
    \/ type = "followup" /\ FollowupApplies
    \/ type = "nudge" /\ NudgeApplies

\* The appointment a job was planned for is over, moved or not yet completed: none of
\* these is undone.
Outdated(k) ==
    CASE k[1] \in {"reminder", "waiver", "confirmation"} -> appt.status # "CONFIRMED" \/ appt.rev # jobs[k].rev
      [] k[1] = "followup" -> appt.status # "COMPLETED"
      [] k[1] = "nudge" -> FALSE

Issued == \E by \in {"maia", "staff"} : links[by] # "NONE"
Switched(k) == /\ k[1] = "waiver" /\ "waiver" \notin settings
               /\ appt.status = "CONFIRMED" /\ appt.rev = k[2]

To(w, pc) == sender' = [sender EXCEPT ![w].pc = pc]
Rest(w) == sender' = [sender EXCEPT ![w] = Resting]
GivesUp(w, code) ==
    /\ jobs' = Fenced(w, [Released(jobs[sender[w].key], "CANCELLED") EXCEPT !.code = code])
    /\ Rest(w)

ClaimJob(w) ==
    /\ sender[w].pc = "rest"
    /\ \E k \in Keys :
         LET j == jobs[k]
             fresh == CHOOSE n \in 1..(Cardinality(Senders) + 1) :
                        \A x \in Senders : sender[x].token # n
         IN  /\ j.status \in Due
             /\ jobs' = [jobs EXCEPT ![k] =
                          [j EXCEPT !.status = "PROCESSING", !.token = fresh, !.code = "none",
                             !.attempts = IF @ < SendAttempts THEN @ + 1 ELSE @]]
             /\ sender' = [sender EXCEPT ![w] = [Resting EXCEPT !.pc = "check", !.key = k,
                             !.token = fresh, !.result = j.result]]
    /\ UNCHANGED <<world, paper, request, past>>

\* The checks of each type of job, up to the message it finds or writes.
CheckJob(w) ==
    /\ sender[w].pc = "check"
    /\ LET k == sender[w].key IN
         CASE ~Applies(k[1], jobs[k].rev) -> GivesUp(w, IF Switched(k) THEN "DISABLED" ELSE "none")
           [] Applies(k[1], jobs[k].rev) /\ k[1] # "waiver" -> To(w, "attach") /\ UNCHANGED jobs
           [] Applies(k[1], jobs[k].rev) /\ k[1] = "waiver" ->
                CASE early -> jobs' = Fenced(w, Released(jobs[k], "RETRY")) /\ Rest(w)
                  [] ~early /\ signed -> GivesUp(w, "none")
                  [] ~early /\ ~signed /\ sender[w].result -> To(w, "retime") /\ UNCHANGED jobs
                  [] ~early /\ ~signed /\ ~sender[w].result /\ Issued -> GivesUp(w, "ISSUED")
                  [] OTHER -> To(w, "issue") /\ UNCHANGED jobs
    /\ UNCHANGED <<world, paper, request, past>>

\* One transaction, with the appointment locked, creates the link and its message.
IssueLink(w) ==
    /\ sender[w].pc = "issue"
    /\ IF Issued THEN GivesUp(w, "ISSUED") /\ UNCHANGED links
       ELSE /\ links' = IF form = "assigned" THEN [links EXCEPT !["maia"] = "PENDING"] ELSE links
            /\ To(w, "retime") /\ UNCHANGED jobs
    /\ UNCHANGED <<world, signed, request, past>>

\* The send time is read again; a job put off keeps its message.
Retime(w) ==
    /\ sender[w].pc = "retime"
    /\ IF early
       THEN /\ jobs' = Fenced(w, [Released(jobs[sender[w].key], "RETRY") EXCEPT !.result = TRUE])
            /\ Rest(w)
       ELSE To(w, "attach") /\ UNCHANGED jobs
    /\ UNCHANGED <<world, paper, request, past>>

Attach(w) ==
    /\ sender[w].pc = "attach"
    /\ LET k == sender[w].key IN
         IF HoldsJob(w)
         THEN /\ jobs' = [jobs EXCEPT ![k].status = "SENDING", ![k].result = TRUE]
              /\ To(w, IF k[1] = "nudge" THEN "wire" ELSE "guard")
              /\ obsolete' = IF Outdated(k) THEN obsolete \cup {k} ELSE obsolete
         ELSE Rest(w) /\ UNCHANGED <<jobs, obsolete>>
    /\ UNCHANGED <<world, paper, request, sends, missed>>

\* Faulty variant: the job is not checked again once it is SENDING.
GuardSkipped(w) ==
    /\ sender[w].pc = "guard"
    /\ To(w, "wire")
    /\ UNCHANGED <<world, paper, request, jobs, past>>

\* The last check reads everything again; a waiver link must still be waiting.
Guard(w) ==
    /\ sender[w].pc = "guard"
    /\ LET k == sender[w].key
           waiting == IF form = "assigned" THEN links["maia"] = "PENDING" ELSE ~signed
       IN  IF Applies(k[1], jobs[k].rev) /\ (k[1] = "waiver" => ~early /\ waiting)
           THEN To(w, "wire") /\ UNCHANGED jobs
           ELSE GivesUp(w, "none")
    /\ UNCHANGED <<world, paper, request, past>>

\* The provider accepts the message, refuses it for now or for good, or leaves the
\* outcome open.
Wire(w) ==
    /\ sender[w].pc = "wire"
    /\ LET k == sender[w].key
           Counted == [sends EXCEPT ![k] = IF @ < 2 THEN @ + 1 ELSE @]
       IN  \/ sends' = Counted /\ To(w, "record")
           \/ /\ sends' \in {sends, Counted}
              /\ sender' = [sender EXCEPT ![w].pc = "fail", ![w].outcome = "DELIVERY_UNKNOWN"]
           \/ /\ UNCHANGED sends
              /\ \E o \in {"FAILED", "RETRY"} :
                   sender' = [sender EXCEPT ![w].pc = "fail", ![w].outcome =
                     IF o = "RETRY" /\ jobs[k].attempts >= SendAttempts THEN "FAILED" ELSE o]
    /\ UNCHANGED <<world, paper, request, jobs, obsolete, missed>>

\* Its message, and the link it carried, are recorded as sent.
Record(w) ==
    /\ sender[w].pc = "record"
    /\ links' = IF sender[w].key[1] = "waiver" /\ form = "assigned"
                THEN [links EXCEPT !["maia"] = "SENT"] ELSE links
    /\ To(w, "finish")
    /\ UNCHANGED <<world, signed, jobs, request, past>>

FinishJob(w) ==
    /\ sender[w].pc = "finish"
    /\ jobs' = Fenced(w, Released(jobs[sender[w].key], "COMPLETED"))
    /\ Rest(w)
    /\ UNCHANGED <<world, paper, request, past>>

\* A failure releases the job; the link is updated only when the claimed copy of
\* the job already named its message.
FailJob(w) ==
    /\ sender[w].pc = "fail"
    /\ jobs' = Fenced(w, Released(jobs[sender[w].key], sender[w].outcome))
    /\ IF sender[w].result /\ sender[w].key[1] = "waiver" /\ form = "assigned"
       THEN To(w, "blame") ELSE Rest(w)
    /\ UNCHANGED <<world, paper, request, past>>

BlameLink(w) ==
    /\ sender[w].pc = "blame"
    /\ links' = [links EXCEPT !["maia"] =
                   CASE sender[w].outcome = "RETRY" -> "PENDING"
                     [] sender[w].outcome = "FAILED" -> "DELIVERY_FAILED"
                     [] sender[w].outcome = "DELIVERY_UNKNOWN" -> "DELIVERY_UNKNOWN"]
    /\ Rest(w)
    /\ UNCHANGED <<world, signed, jobs, request, past>>

\* Every claim first sweeps the jobs whose lease has run out.
Sweep ==
    /\ \E k \in Keys : /\ jobs[k].status \in {"PROCESSING", "SENDING"}
                       /\ jobs' = [jobs EXCEPT ![k] = SweptRow(jobs[k])]
    /\ UNCHANGED <<world, paper, sender, request, past>>

RequestStep(r) ==
    \/ Move(r) \/ Plan(r) \/ Enqueue(r)
    \/ CancelAppointment(r) \/ Withdraw(r) \/ CompleteAppointment(r) \/ CloseJobs(r)
    \/ PlanFollowup(r) \/ StaffLink(r) \/ StaffText(r) \/ StaffNudge(r) \/ StaffMark(r)
    \/ Unnudge(r) \/ ProviderSigns(r) \/ RequestStops(r)

SenderStep(w) ==
    \/ ClaimJob(w) \/ CheckJob(w) \/ IssueLink(w) \/ Retime(w) \/ Attach(w) \/ Guard(w)
    \/ Wire(w) \/ Record(w) \/ FinishJob(w) \/ FailJob(w) \/ BlameLink(w)

LifecycleNext ==
    \/ \E r \in Requests : RequestStep(r)
    \/ \E w \in Senders : SenderStep(w)
    \/ SaveSettings \/ WorldChanges \/ ClientSigns \/ Sweep

LifecycleSpec == LifecycleInit /\ [][LifecycleNext]_lifecycleVars

-----------------------------------------------------------------------------
(* Properties.                                                              *)

\* No job's message is accepted by the provider twice, whatever workers stop,
\* leases expire, or settings are saved; and of the jobs of all revisions only one
\* ever texts an assigned waiver link.
SentOnce ==
    /\ \A k \in Keys : sends[k] <= 1
    /\ form = "assigned" =>
         \A i, j \in 1..LastRevision :
           sends[<<"waiver", i>>] > 0 /\ sends[<<"waiver", j>>] > 0 => i = j

\* A message whose appointment was already over or moved when its job became SENDING
\* is not sent: the last check catches every earlier change.
ObsoleteNotSent == \A k \in obsolete : sends[k] = 0

\* Once every request has finished, none having died or met an unreachable client,
\* a confirmed appointment of an artist with waivers enabled has a waiver job of its
\* current revision, however moves, settings and scheduling overlapped.
RevisionCovered ==
    /\ ~missed /\ \A r \in Requests : request[r].pc \in {"ready", "done"}
    /\ appt.status = "CONFIRMED" /\ "waiver" \in settings
    => LET j == jobs[KeyOf("waiver", appt.rev)]
       IN  j.status # "NONE" /\ j.rev = appt.rev

\* What the run checks of deliveries: the rows have their types, and no message is
\* sent twice.
JobsSafe == LifecycleTypeOK /\ SentOnce
=============================================================================
