------------------------ MODULE CampaignRegistration ------------------------
(***************************************************************************)
(* The carrier (A2P) registration of a studio: the profile row, the        *)
(* resources filed at Twilio for it, and the requests that move it: saving *)
(* the intake, submitting it, the "sync" that walks customer profile, A2P  *)
(* profile, brand and campaigns, the cron job that only watches the        *)
(* business-profile review, and the adoption of an approved registration.  *)
(*                                                                         *)
(* Every request reads the profile row once and works from that copy while *)
(* the others go on; only the cron job checks, when it writes, that the    *)
(* row is still the one it read.  A request that dies is one that takes no *)
(* further step.  Twilio's answers are reviews of what was filed; a call   *)
(* to it may fail.  Abstracted: the intake's fields (assumed complete),    *)
(* the audit rows, and the phone numbers an approved campaign activates    *)
(* (module PhoneNumbers).  The simulated mode is left out.                 *)
(***************************************************************************)
EXTENDS Naturals, Sequences, FiniteSets

CONSTANTS ServiceCount,  \* messaging services of the studio, in order of id
          Adopted,       \* the service an adoption finds registered already
          Requests,      \* requests and cron runs, each doing one job
          RequestJobs,   \* the assignments of jobs to requests explored, each
                         \* with the stage the registration has reached
          FailLimit      \* calls to Twilio that fail

CampaignJobNames == {"submit", "sync", "track", "edit", "adopt"}

ASSUME CampaignBounds ==
    /\ ServiceCount \in Nat \ {0} /\ FailLimit \in Nat
    /\ Adopted \in 1 .. ServiceCount
    /\ RequestJobs \subseteq [job : [Requests -> CampaignJobNames],
                              from : {"new", "prior", "customer", "brand"}]

VARIABLES profile,    \* the complianceProfiles row
          campaigns,  \* the a2pCampaigns row of each service
          filed,      \* what Twilio holds: [kind, of, state] by sid
          task,       \* the stage at the start, and the job of each request
          request,    \* where each request stands, and its copy of the row
          failures

cvars == <<profile, campaigns, filed, task, request, failures>>

Underway == {"CUSTOMER_PROFILE_PENDING", "A2P_PROFILE_PENDING",
             "BRAND_PENDING", "CAMPAIGN_PENDING", "APPROVED"}
Watched == {"CUSTOMER_PROFILE_PENDING", "CUSTOMER_PROFILE_REJECTED"}
CustomerPieces == {"business", "representative", "address", "primary"}
MessagingPieces == {"a2pEndUser", "customerProfile"}
Unfiled == [sid |-> 0, state |-> "none"]
NewProfile == [status |-> "DRAFT", review |-> "none", customer |-> 0,
               trust |-> 0, brand |-> 0, pieces |-> {}, rev |-> 0]

Filed(kind, of, state) == [kind |-> kind, of |-> of, state |-> state]

\* What Twilio holds at each stage: nothing, a registration made before Maia,
\* a customer profile in review, or everything up to an approved brand.
FiledAt(from) ==
    CASE from = "new"      -> <<>>
      [] from = "customer" -> <<Filed("customer", 0, "review")>>
      [] from = "brand"    -> <<Filed("customer", 0, "approved"),
                                Filed("trust", 0, "approved"),
                                Filed("brand", 0, "approved")>>
      [] from = "prior"    -> <<Filed("customer", 0, "approved"),
                                Filed("trust", 0, "approved"),
                                Filed("brand", 0, "approved"),
                                Filed("campaign", Adopted, "approved")>>
\* ... and the row that belongs to it, as its own requests left it.
ProfileAt(from) ==
    CASE from = "customer" -> [NewProfile EXCEPT !.customer = 1, !.review = "review",
                                   !.status = "CUSTOMER_PROFILE_PENDING",
                                   !.pieces = CustomerPieces]
      [] from = "brand"    -> [NewProfile EXCEPT !.customer = 1, !.review = "review",
                                   !.trust = 2, !.brand = 3,
                                   !.status = "BRAND_PENDING",
                                   !.pieces = CustomerPieces \cup MessagingPieces]
      [] OTHER             -> NewProfile

CampaignInit ==
    /\ task \in RequestJobs
    /\ profile = ProfileAt(task.from)
    /\ campaigns = [s \in 1 .. ServiceCount |-> Unfiled]
    /\ filed = FiledAt(task.from)
    /\ request = [r \in Requests |->
           [pc |-> "start", saw |-> NewProfile, pieces |-> {}, sid |-> 0,
            at |-> 1, good |-> TRUE, status |-> "", answer |-> "none"]]
    /\ failures = 0

Doing(r, job, pc) == task.job[r] = job /\ request[r].pc = pc
Copy(r) == request[r].saw

\* saveProfile: the given columns of the row, whoever wrote it last; the new
\* updatedAt makes it another revision.
SaveProfile(row) == profile' = [row EXCEPT !.rev = profile.rev + 1]
NextStep(r, pc) == request' = [request EXCEPT ![r].pc = pc]
NewSid == Len(filed) + 1
FileNew(r, kind, of, state, pc) ==
    /\ filed' = Append(filed, Filed(kind, of, state))
    /\ request' = [request EXCEPT ![r].pc = pc, ![r].sid = NewSid,
                                  ![r].answer = state]
Reply(r, status, answer) ==
    request' = [request EXCEPT ![r].pc = "report", ![r].status = status,
                               ![r].answer = answer]
At(sid) == filed[sid].state

-----------------------------------------------------------------------------
\* Each request starts by reading the row, and may end there.
Look(r) ==
    LET open == profile.status \notin Underway
        next == CASE task.job[r] = "submit" -> IF open THEN "create" ELSE "done"
                  [] task.job[r] = "edit"   -> IF open THEN "edit" ELSE "done"
                  [] task.job[r] = "adopt"  -> IF task.from = "prior" THEN "adopt" ELSE "done"
                  [] task.job[r] = "sync"   -> IF profile.customer = 0
                                           THEN "failed" ELSE "customer"
                  [] task.job[r] = "track"  ->
                       IF /\ profile.status \in Watched
                          /\ profile.customer # 0
                          /\ profile.review \notin {"approved", "rejected"}
                       THEN "ask" ELSE "done"
    IN  /\ request[r].pc = "start"
        /\ request' = [request EXCEPT ![r].pc = next, ![r].saw = profile,
                                      ![r].pieces = profile.pieces]
        /\ UNCHANGED <<profile, campaigns, filed, task, failures>>

\* PUT: saving the intake makes the registration a draft again.
SaveIntake(r) ==
    /\ Doing(r, "edit", "edit")
    /\ SaveProfile([profile EXCEPT !.status = "DRAFT"])
    /\ NextStep(r, "done")
    /\ UNCHANGED <<campaigns, filed, task, failures>>

\* POST, startLiveRegistration: create the customer profile unless the copy
\* names one, and store its sid; the request goes on with the stored row.
CreateCustomer(r) ==
    /\ Doing(r, "submit", "create")
    /\ IF Copy(r).customer = 0
       THEN FileNew(r, "customer", 0, "draft", "keep")
       ELSE NextStep(r, "attach") /\ UNCHANGED filed
    /\ UNCHANGED <<profile, campaigns, task, failures>>

KeepCustomer(r) ==
    LET row == [profile EXCEPT !.customer = request[r].sid, !.review = "draft",
                               !.status = "CUSTOMER_PROFILE_DRAFT"]
    IN  /\ Doing(r, "submit", "keep")
        /\ SaveProfile(row)
        /\ request' = [request EXCEPT ![r].pc = "attach", ![r].saw = row]
        /\ UNCHANGED <<campaigns, filed, task, failures>>

\* The pieces missing from the request's list are created, assigned and the
\* whole list stored after each; taken together, since only the last counts.
AttachPieces(r, wanted, pc) ==
    /\ IF wanted \subseteq request[r].pieces
       THEN UNCHANGED profile
       ELSE SaveProfile([profile EXCEPT !.pieces = request[r].pieces \cup wanted])
    /\ request' = [request EXCEPT ![r].pc = pc, ![r].pieces = @ \cup wanted]
    /\ UNCHANGED <<campaigns, filed, task, failures>>

AttachCustomer(r) ==
    Doing(r, "submit", "attach") /\ AttachPieces(r, CustomerPieces, "send")

\* Twilio evaluates the bundle, then takes it for review unless it already has.
Submittable(sid) == At(sid) \in {"draft", "rejected"}
Submit(r, sid, status) ==
    /\ Submittable(sid)
    /\ filed' = [filed EXCEPT ![sid].state = "review"]
    /\ Reply(r, status, "review")

SendCustomer(r) ==
    /\ Doing(r, "submit", "send")
    /\ \/ Submit(r, Copy(r).customer, "CUSTOMER_PROFILE_PENDING")
       \/ Reply(r, "CUSTOMER_PROFILE_REJECTED", "same") /\ UNCHANGED filed
       \/ ~Submittable(Copy(r).customer) /\ NextStep(r, "failed") /\ UNCHANGED filed
    /\ UNCHANGED <<profile, campaigns, task, failures>>

-----------------------------------------------------------------------------
\* POST status, syncLiveRegistration: the customer profile first.
CheckCustomer(r) ==
    LET state == At(Copy(r).customer)
    IN  /\ Doing(r, "sync", "customer")
        /\ CASE state = "rejected" -> Reply(r, "CUSTOMER_PROFILE_REJECTED", state)
             [] state = "approved" ->
                  NextStep(r, IF Copy(r).trust = 0 THEN "a2p" ELSE "trust")
             [] OTHER -> Reply(r, "CUSTOMER_PROFILE_PENDING", state)
        /\ UNCHANGED <<profile, campaigns, filed, task, failures>>

CheckTrust(r) ==
    LET state == At(Copy(r).trust)
    IN  /\ Doing(r, "sync", "trust")
        /\ CASE state = "rejected" -> Reply(r, "A2P_PROFILE_REJECTED", "same")
             [] state = "draft"    -> NextStep(r, "a2p")
             [] state = "approved" -> NextStep(r, "brand")
             [] OTHER -> Reply(r, "A2P_PROFILE_PENDING", "same")
        /\ UNCHANGED <<profile, campaigns, filed, task, failures>>

\* createA2pProfile
CreateTrust(r) ==
    /\ Doing(r, "sync", "a2p")
    /\ IF Copy(r).trust = 0
       THEN FileNew(r, "trust", 0, "draft", "a2pKeep")
       ELSE /\ request' = [request EXCEPT ![r].pc = "a2pAttach",
                                          ![r].sid = Copy(r).trust]
            /\ UNCHANGED filed
    /\ UNCHANGED <<profile, campaigns, task, failures>>

KeepTrust(r) ==
    /\ Doing(r, "sync", "a2pKeep")
    /\ SaveProfile([profile EXCEPT !.trust = request[r].sid,
                                   !.status = "A2P_PROFILE_DRAFT"])
    /\ NextStep(r, "a2pAttach")
    /\ UNCHANGED <<campaigns, filed, task, failures>>

AttachTrust(r) ==
    Doing(r, "sync", "a2pAttach") /\ AttachPieces(r, MessagingPieces, "a2pSend")

SendTrust(r) ==
    /\ Doing(r, "sync", "a2pSend")
    /\ \/ /\ Submit(r, request[r].sid, "A2P_PROFILE_PENDING")
       \/ NextStep(r, "failed") /\ UNCHANGED filed
    /\ UNCHANGED <<profile, campaigns, task, failures>>

CheckBrand(r) ==
    /\ Doing(r, "sync", "brand")
    /\ IF Copy(r).brand = 0
       THEN FileNew(r, "brand", 0, "review", "brandKeep")
       ELSE /\ UNCHANGED filed
            /\ CASE At(Copy(r).brand) = "rejected" -> Reply(r, "BRAND_REJECTED", "same")
                 [] At(Copy(r).brand) = "approved" -> NextStep(r, "campaign")
                 [] OTHER -> Reply(r, "BRAND_PENDING", "same")
    /\ UNCHANGED <<profile, campaigns, task, failures>>

KeepBrand(r) ==
    /\ Doing(r, "sync", "brandKeep")
    /\ SaveProfile([profile EXCEPT !.brand = request[r].sid,
                                   !.status = "BRAND_PENDING"])
    /\ NextStep(r, "done")
    /\ UNCHANGED <<campaigns, filed, task, failures>>

\* The campaign of one service after the other: created when it has none, asked
\* after otherwise; the answer is stored in the service's row in a later step.
CheckCampaign(r) ==
    LET s == request[r].at
    IN  /\ Doing(r, "sync", "campaign")
        /\ IF campaigns[s].sid = 0
           THEN FileNew(r, "campaign", s, "review", "campaignAdd")
           ELSE /\ request' = [request EXCEPT ![r].pc = "campaignSet",
                                   ![r].sid = campaigns[s].sid,
                                   ![r].answer = At(campaigns[s].sid)]
                /\ UNCHANGED filed
        /\ UNCHANGED <<profile, campaigns, task, failures>>

\* allApproved: every service's campaign so far, and this one.
AllGood(good, answer) == good /\ answer = "approved"

Onward(r) ==
    request' = [request EXCEPT
        ![r].good = AllGood(@, request[r].answer),
        ![r].at = IF @ < ServiceCount THEN @ + 1 ELSE @,
        ![r].pc = IF request[r].at < ServiceCount THEN "campaign" ELSE "finish"]

\* messaging_service_id is unique: a second row is refused.
AddCampaign(r) ==
    LET s == request[r].at
    IN  /\ Doing(r, "sync", "campaignAdd")
        /\ IF campaigns[s].sid = 0
           THEN /\ campaigns' = [campaigns EXCEPT
                       ![s] = [sid |-> request[r].sid, state |-> "review"]]
                /\ Onward(r)
           ELSE NextStep(r, "failed") /\ UNCHANGED campaigns
        /\ UNCHANGED <<profile, filed, task, failures>>

SetCampaign(r) ==
    /\ Doing(r, "sync", "campaignSet")
    /\ campaigns' = [campaigns EXCEPT ![request[r].at].state = request[r].answer]
    /\ Onward(r)
    /\ UNCHANGED <<profile, filed, task, failures>>

FinishSync(r) ==
    /\ Doing(r, "sync", "finish")
    /\ SaveProfile([profile EXCEPT
           !.status = IF request[r].good THEN "APPROVED" ELSE "CAMPAIGN_PENDING"])
    /\ NextStep(r, "done")
    /\ UNCHANGED <<campaigns, filed, task, failures>>

\* The answer a request decided to store, as the last thing it does.
Report(r) ==
    /\ request[r].pc = "report"
    /\ SaveProfile([profile EXCEPT
           !.status = request[r].status,
           !.review = IF request[r].answer = "same" \/ request[r].status \notin
                           Watched THEN @ ELSE request[r].answer])
    /\ NextStep(r, "done")
    /\ UNCHANGED <<campaigns, filed, task, failures>>

CallsTwilio == {"create", "attach", "send", "customer", "trust", "a2p",
                "a2pAttach", "a2pSend", "brand", "campaign"}
FailCall(r) ==
    /\ request[r].pc \in CallsTwilio
    /\ failures < FailLimit
    /\ failures' = failures + 1
    /\ NextStep(r, "failed")
    /\ UNCHANGED <<profile, campaigns, filed, task>>

RecordError(r) ==
    /\ request[r].pc = "failed"
    /\ SaveProfile([profile EXCEPT !.status = "SUBMISSION_ERROR"])
    /\ NextStep(r, "done")
    /\ UNCHANGED <<campaigns, filed, task, failures>>

-----------------------------------------------------------------------------
\* Cron, trackBusinessProfileReviews: ask, then write only over the row read.
AskReview(r) ==
    /\ Doing(r, "track", "ask")
    /\ request' = [request EXCEPT ![r].pc = "note", ![r].answer = At(Copy(r).customer)]
    /\ UNCHANGED <<profile, campaigns, filed, task, failures>>

\* Faulty variant: whatever happened to the row meanwhile is overwritten.
SameProfile(seen) == profile.customer = seen.customer
\* The row is the one the check read: same bundle, status and updatedAt.
RowAsRead(seen) ==
    /\ profile.customer = seen.customer
    /\ profile.status = seen.status
    /\ profile.rev = seen.rev

NoteReview(r) ==
    LET answer == request[r].answer
        status == IF answer = "rejected" THEN "CUSTOMER_PROFILE_REJECTED"
                  ELSE "CUSTOMER_PROFILE_PENDING"
    IN  /\ Doing(r, "track", "note")
        /\ profile' = IF RowAsRead(Copy(r)) /\ answer # "draft"
                      THEN [profile EXCEPT !.status = status, !.review = answer]
                      ELSE profile
        /\ NextStep(r, "done")
        /\ UNCHANGED <<campaigns, filed, task, failures>>

\* POST adopt: an approved registration found at Twilio becomes the studio's,
\* in one transaction; the list of pieces is the one read before it.
AdoptRegistration(r) ==
    /\ Doing(r, "adopt", "adopt")
    /\ SaveProfile([profile EXCEPT !.status = "APPROVED", !.review = "approved",
                        !.customer = 1, !.trust = 2, !.brand = 3,
                        !.pieces = request[r].pieces \cup {"adopted"}])
    /\ campaigns' = [campaigns EXCEPT ![Adopted] = [sid |-> 4, state |-> "approved"]]
    /\ NextStep(r, "done")
    /\ UNCHANGED <<filed, task, failures>>

\* Twilio and the carriers decide.
Decide(sid) ==
    /\ At(sid) = "review"
    /\ \E verdict \in {"approved", "rejected"} :
           filed' = [filed EXCEPT ![sid].state = verdict]
    /\ UNCHANGED <<profile, campaigns, task, request, failures>>

RequestStep(r) ==
    \/ Look(r) \/ SaveIntake(r) \/ CreateCustomer(r) \/ KeepCustomer(r)
    \/ AttachCustomer(r) \/ SendCustomer(r) \/ CheckCustomer(r) \/ CheckTrust(r)
    \/ CreateTrust(r) \/ KeepTrust(r) \/ AttachTrust(r) \/ SendTrust(r)
    \/ CheckBrand(r) \/ KeepBrand(r) \/ CheckCampaign(r) \/ AddCampaign(r)
    \/ SetCampaign(r) \/ FinishSync(r) \/ Report(r) \/ FailCall(r)
    \/ RecordError(r) \/ AskReview(r) \/ NoteReview(r) \/ AdoptRegistration(r)

CampaignNext ==
    \/ \E r \in Requests : RequestStep(r)
    \/ \E sid \in DOMAIN filed : Decide(sid)

CampaignSpec == CampaignInit /\ [][CampaignNext]_cvars

-----------------------------------------------------------------------------
CampaignTypeOK ==
    /\ profile.rev \in Nat /\ profile.pieces \subseteq
           CustomerPieces \cup MessagingPieces \cup {"adopted"}
    /\ {profile.customer, profile.trust, profile.brand} \subseteq 0 .. Len(filed)
    /\ \A s \in DOMAIN campaigns : campaigns[s].sid \in 0 .. Len(filed)
    /\ failures \in 0 .. FailLimit

\* A registration shows as approved only if the campaign of every messaging
\* service was approved by the carriers, or the studio took over an approved brand,
\* whatever the requests overlapping with the sync did
\* (syncLiveRegistration, live-registration.ts:240-283).
ApprovedMeansApproved ==
    profile.status = "APPROVED" =>
        \/ task.from = "prior" /\ profile.brand = 3  \* the adopted brand
        \/ \A s \in 1 .. ServiceCount : \E sid \in DOMAIN filed :
               filed[sid] = Filed("campaign", s, "approved")

\* The background check of the business profile yields: it moves a profile only
\* while it waits for that review, never one that somebody saved after the check
\* read it, and it files nothing (live-registration.ts:178-214).
TrackerYieldsStep ==
    \A r \in Requests : task.job[r] = "track" /\ request'[r] # request[r] =>
        /\ filed' = filed
        /\ profile'.status # profile.status =>
               {profile.status, profile'.status} \subseteq Watched
                   /\ profile.rev = request[r].saw.rev
TrackerYields == [][TrackerYieldsStep]_cvars

\* What the run checks of registration: approval is real, trackers yield to edits.
CampaignSafe == []CampaignTypeOK /\ []ApprovedMeansApproved /\ TrackerYields
=============================================================================
