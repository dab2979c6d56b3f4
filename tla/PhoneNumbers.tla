------------------------------ MODULE PhoneNumbers ------------------------------
(***************************************************************************)
(* The telephone side of one artist: the Twilio account the owner creates, *)
(* the messaging service and the number bought under it, and the request   *)
(* to bring the studio's old number over.  A committed intent precedes     *)
(* every remote purchase; an answer that was lost is left to a review of   *)
(* what is on record, never repeated.                                      *)
(***************************************************************************)
EXTENDS Naturals, FiniteSets

CONSTANTS
    Offices,      \* requests
    OfficeJobs    \* what the requests of a run are: functions from Offices

ASSUME OfficeBounds ==
    \A j \in OfficeJobs : j \in [Offices -> {"account", "provision", "review", "port", "sync", "register"}]

VARIABLES
    jobs,        \* what each request is
    office,      \* the requests
    account,     \* account_creation_intents and twilio_accounts: none, INTENT, COMPLETED
    op,          \* twilio_provision_operations by step
    bought,      \* what Twilio has sold: accounts, services, numbers
    service,     \* the twilio_messaging_services row is there
    numbers,     \* phone_numbers: the temporary and the ported one
    ports,       \* phone_number_port_requests by the request that made them
    carrier,     \* port orders at Twilio by the request that placed them
    campaign     \* a2p_campaigns: approved at Twilio, and known to be

phoneVars == <<jobs, office, account, op, bought, service, numbers, ports, carrier, campaign>>

Things == {"SERVICE", "NUMBER", "ASSOCIATE"}
NoNumber == [there |-> FALSE, bound |-> FALSE, active |-> FALSE, primary |-> FALSE, role |-> "none"]
OfficeSteps == {"idle", "buy", "save", "next", "demote", "promote", "upload", "create", "submitted",
                "inventory", "upsert", "status", "done"}

\* Every row has its type; nothing stands on a row that is not there.
PhoneTypeOK ==
    /\ jobs \in OfficeJobs /\ account \in {"none", "INTENT", "COMPLETED"}
    /\ op \in [Things -> {"none", "INTENT", "COMPLETED"}] /\ service \in BOOLEAN
    /\ bought \in [{"ACCOUNT", "SERVICE", "NUMBER"} -> Nat]
    /\ \A n \in {"temporary", "ported"} :
         /\ numbers[n].role \in {"none", "TEMPORARY", "TEMPORARY_GRACE", "PORTED"}
         /\ numbers[n].there <=> numbers[n].role # "none"
         /\ numbers[n].bound => service
    /\ service => account = "COMPLETED"
    /\ \A o \in Offices :
         /\ office[o].pc \in OfficeSteps /\ office[o].thing \in Things \cup {"ACCOUNT", "none"}
         /\ ports[o] \in {"none", "UPLOADING_DOCUMENT", "CREATING_REQUEST", "IN_REVIEW", "SUBMISSION_ERROR",
                          "ACTION_REQUIRED", "COMPLETED_PENDING_INVENTORY", "COMPLETED"}
         /\ carrier[o] \in {"none", "open", "rejected", "moved"}

NoPorts == [o \in Offices |-> "none"]

PhoneInit ==
    /\ jobs \in OfficeJobs
    /\ office = [o \in Offices |-> [pc |-> "idle", thing |-> "none", old |-> FALSE, ok |-> FALSE, order |-> o]]
    /\ account = "none" /\ op = [t \in Things |-> "none"]
    /\ bought = [t \in {"ACCOUNT", "SERVICE", "NUMBER"} |-> 0] /\ service = FALSE
    /\ numbers = [n \in {"temporary", "ported"} |-> NoNumber]
    /\ ports = NoPorts /\ carrier = [o \in Offices |-> "none"]
    /\ campaign = [real |-> FALSE, known |-> FALSE]

Sits(o, job, pc) == jobs[o] = job /\ office[o].pc = pc
Turn(o, pc) == office' = [office EXCEPT ![o].pc = pc]

-----------------------------------------------------------------------------
(* The account and the purchases.                                           *)

\* One transaction: nothing exists yet and no other intent was made.
IntendAccount(o) ==
    /\ Sits(o, "account", "idle")
    /\ IF account = "none"
       THEN account' = "INTENT" /\ office' = [office EXCEPT ![o].pc = "buy", ![o].thing = "ACCOUNT"]
       ELSE Turn(o, "done") /\ UNCHANGED account
    /\ UNCHANGED <<jobs, op, bought, service, numbers, ports, carrier, campaign>>

\* The existing rows are read once, at the start; only a primary number counts.
ReadResources(o) ==
    LET primary == {n \in DOMAIN numbers : numbers[n].primary} IN
    /\ Sits(o, "provision", "idle")
    /\ office' = [office EXCEPT
         ![o].pc = IF account = "COMPLETED" /\ ~(service /\ \E n \in primary : numbers[n].bound)
                   THEN "next" ELSE "done",
         ![o].thing = IF ~service THEN "SERVICE" ELSE IF primary = {} THEN "NUMBER" ELSE "ASSOCIATE",
         ![o].old = primary # {}]
    /\ UNCHANGED <<jobs, account, op, bought, service, numbers, ports, carrier, campaign>>

Unintended(t) == op[t] = "none"

\* The intent is committed, or the request is refused for review.
ClaimStep(o) ==
    LET t == office[o].thing IN
    /\ Sits(o, "provision", "next")
    /\ IF Unintended(t) THEN op' = [op EXCEPT ![t] = "INTENT"] /\ Turn(o, "buy")
                        ELSE Turn(o, "done") /\ UNCHANGED op
    /\ UNCHANGED <<jobs, account, bought, service, numbers, ports, carrier, campaign>>

\* Twilio does it; its answer arrives, or is lost with the request.
Buy(o) ==
    LET t == office[o].thing IN
    /\ office[o].pc = "buy"
    /\ bought' = IF t = "ASSOCIATE" THEN bought ELSE [bought EXCEPT ![t] = @ + 1]
    /\ \E pc \in {"save", "done"} : Turn(o, pc)
    /\ UNCHANGED <<jobs, account, op, service, numbers, ports, carrier, campaign>>

\* Twilio refuses: the intent stays.
Refused(o) ==
    /\ office[o].pc = "buy" /\ Turn(o, "done")
    /\ UNCHANGED <<jobs, account, op, bought, service, numbers, ports, carrier, campaign>>

\* Account and binding are saved with the intent in one transaction.
SaveAccount(o) ==
    /\ Sits(o, "account", "save") /\ account' = "COMPLETED" /\ Turn(o, "done")
    /\ UNCHANGED <<jobs, op, bought, service, numbers, ports, carrier, campaign>>

\* The row is saved; then the operation is completed.
SaveThing(o) ==
    LET t == office[o].thing IN
    /\ Sits(o, "provision", "save") /\ Turn(o, "status")
    /\ service' = (service \/ t = "SERVICE")
    /\ numbers' = CASE t = "NUMBER" -> [numbers EXCEPT !["temporary"] =
                          [there |-> TRUE, bound |-> FALSE, active |-> FALSE, primary |-> TRUE, role |-> "TEMPORARY"]]
                    [] t = "ASSOCIATE" -> [numbers EXCEPT !["temporary"].bound = TRUE]
                    [] OTHER -> numbers
    /\ UNCHANGED <<jobs, account, op, bought, ports, carrier, campaign>>

StepAfter(o, t) == CASE t = "SERVICE" -> IF office[o].old THEN "ASSOCIATE" ELSE "NUMBER"
                  [] t = "NUMBER" -> "ASSOCIATE" [] OTHER -> "none"

CompleteStep(o) ==
    LET t == office[o].thing IN
    /\ Sits(o, "provision", "status")
    /\ op' = [op EXCEPT ![t] = "COMPLETED"]
    /\ office' = [office EXCEPT ![o].pc = IF t = "ASSOCIATE" THEN "done" ELSE "next", ![o].thing = StepAfter(o, t)]
    /\ UNCHANGED <<jobs, account, bought, service, numbers, ports, carrier, campaign>>

\* What the step was to leave behind is on record.
Persisted(t) ==
    CASE t = "SERVICE" -> service
      [] t = "NUMBER" -> numbers["temporary"].there /\ numbers["temporary"].primary
      [] OTHER -> service /\ numbers["temporary"].bound /\ numbers["temporary"].primary

\* An owner closes an intent that has been left open, under the row's lock.
ReviewIntent(o) ==
    /\ Sits(o, "review", "idle") /\ Turn(o, "done")
    /\ \E t \in Things :
         op' = IF op[t] = "INTENT" /\ Persisted(t) THEN [op EXCEPT ![t] = "COMPLETED"] ELSE op
    /\ UNCHANGED <<jobs, account, bought, service, numbers, ports, carrier, campaign>>

-----------------------------------------------------------------------------
(* Registration's part: Twilio approves the campaign, a status check        *)
(* activates the numbers of the service and puts a ported one first.        *)

CampaignApproved ==
    /\ service /\ ~campaign.real /\ campaign' = [campaign EXCEPT !.real = TRUE]
    /\ UNCHANGED <<jobs, office, account, op, bought, service, numbers, ports, carrier>>

ActivateNumbers(o) ==
    /\ Sits(o, "register", "idle") /\ campaign.real
    /\ campaign' = [campaign EXCEPT !.known = TRUE]
    /\ numbers' = [n \in DOMAIN numbers |-> IF numbers[n].bound THEN [numbers[n] EXCEPT !.active = TRUE]
                                            ELSE numbers[n]]
    /\ Turn(o, IF numbers["ported"].role = "PORTED" THEN "demote" ELSE "done")
    /\ UNCHANGED <<jobs, account, op, bought, service, ports, carrier>>

\* Every primary number of the service steps back, the ported one included.
DemoteAll(o) ==
    /\ Sits(o, "register", "demote") /\ Turn(o, "promote")
    /\ numbers' = [n \in DOMAIN numbers |->
         IF numbers[n].bound /\ numbers[n].primary
         THEN [numbers[n] EXCEPT !.primary = FALSE, !.role = "TEMPORARY_GRACE"] ELSE numbers[n]]
    /\ UNCHANGED <<jobs, account, op, bought, service, ports, carrier, campaign>>

PromotePorted(o) ==
    /\ Sits(o, "register", "promote") /\ Turn(o, "done")
    /\ numbers' = [numbers EXCEPT !["ported"].primary = TRUE, !["ported"].role = "PORTED"]
    /\ UNCHANGED <<jobs, account, op, bought, service, ports, carrier, campaign>>

-----------------------------------------------------------------------------
(* Bringing the old number over.                                            *)

\* Faulty variant: a number without approval may be replaced.
AnyNumber == numbers["temporary"].there

\* The temporary number works before the old one leaves its carrier.
Approved == numbers["temporary"].primary /\ numbers["temporary"].active

BeginPort(o) ==
    /\ Sits(o, "port", "idle")
    /\ IF service /\ Approved /\ \A p \in Offices : ports[p] \in {"none", "COMPLETED"}
       THEN ports' = [ports EXCEPT ![o] = "UPLOADING_DOCUMENT"] /\ Turn(o, "upload")
       ELSE Turn(o, "done") /\ UNCHANGED ports
    /\ UNCHANGED <<jobs, account, op, bought, service, numbers, carrier, campaign>>

UploadBill(o) ==
    /\ Sits(o, "port", "upload") /\ Turn(o, "create")
    /\ ports' = [ports EXCEPT ![o] = "CREATING_REQUEST"]
    /\ UNCHANGED <<jobs, account, op, bought, service, numbers, carrier, campaign>>

\* The order is placed; the answer may be lost.
PlaceOrder(o) ==
    /\ Sits(o, "port", "create") /\ carrier' = [carrier EXCEPT ![o] = "open"]
    /\ \E pc \in {"submitted", "done"} : Turn(o, pc)
    /\ UNCHANGED <<jobs, account, op, bought, service, numbers, ports, campaign>>

RecordOrder(o) ==
    /\ Sits(o, "port", "submitted") /\ ports' = [ports EXCEPT ![o] = "IN_REVIEW"] /\ Turn(o, "done")
    /\ UNCHANGED <<jobs, account, op, bought, service, numbers, carrier, campaign>>

FailPort(o) ==
    /\ jobs[o] = "port" /\ office[o].pc \in {"upload", "create"}
    /\ ports' = [ports EXCEPT ![o] = "SUBMISSION_ERROR"] /\ Turn(o, "done")
    /\ UNCHANGED <<jobs, account, op, bought, service, numbers, carrier, campaign>>

CarrierDecides(p) ==
    /\ carrier[p] = "open" /\ \E s \in {"moved", "rejected"} : carrier' = [carrier EXCEPT ![p] = s]
    /\ UNCHANGED <<jobs, office, account, op, bought, service, numbers, ports, campaign>>

Submitted(p) == ports[p] \in {"IN_REVIEW", "ACTION_REQUIRED", "COMPLETED_PENDING_INVENTORY", "COMPLETED"}

\* The order is read.  When it is complete the campaign is read and the
\* number looked up; it may not be in the inventory yet.
ReadOrder(o) ==
    /\ Sits(o, "sync", "idle")
    /\ \E p \in {p \in Offices : Submitted(p)} :
        IF carrier[p] = "moved"
        THEN /\ \E pc \in {"upsert", "inventory"} :
                 office' = [office EXCEPT ![o].pc = pc, ![o].order = p, ![o].ok = campaign.known]
             /\ UNCHANGED ports
        ELSE /\ ports' = [ports EXCEPT ![p] = IF carrier[p] = "rejected" THEN "ACTION_REQUIRED" ELSE "IN_REVIEW"]
             /\ Turn(o, "done")
    /\ UNCHANGED <<jobs, account, op, bought, service, numbers, carrier, campaign>>

\* Only an approved campaign lets the ported number send.
MaySend(o) == office[o].ok

\* The number is configured and joined to the service; its row is written.
UpsertPorted(o) ==
    /\ Sits(o, "sync", "upsert")
    /\ numbers' = [numbers EXCEPT !["ported"] =
          [there |-> TRUE, bound |-> TRUE, active |-> MaySend(o), primary |-> MaySend(o), role |-> "PORTED"]]
    /\ Turn(o, IF MaySend(o) THEN "demote" ELSE "status")
    /\ UNCHANGED <<jobs, account, op, bought, service, ports, carrier, campaign>>

RetireTemporary(o) ==
    /\ Sits(o, "sync", "demote") /\ Turn(o, "status")
    /\ numbers' = [numbers EXCEPT !["temporary"] =
          IF @.primary THEN [@ EXCEPT !.primary = FALSE, !.role = "TEMPORARY_GRACE"] ELSE @]
    /\ UNCHANGED <<jobs, account, op, bought, service, ports, carrier, campaign>>

RecordPort(o) ==
    /\ jobs[o] = "sync" /\ office[o].pc \in {"status", "inventory"} /\ Turn(o, "done")
    /\ ports' = [ports EXCEPT ![office[o].order] =
                    IF office[o].pc = "inventory" THEN "COMPLETED_PENDING_INVENTORY" ELSE "COMPLETED"]
    /\ UNCHANGED <<jobs, account, op, bought, service, numbers, carrier, campaign>>

\* The process stops, or a write fails, anywhere between two steps.
OfficeStops(o) ==
    /\ office[o].pc \in {"save", "next", "status", "demote", "promote", "upsert", "submitted"} /\ Turn(o, "done")
    /\ UNCHANGED <<jobs, account, op, bought, service, numbers, ports, carrier, campaign>>

OfficeStep(o) ==
    \/ IntendAccount(o) \/ ReadResources(o) \/ ClaimStep(o) \/ Buy(o) \/ Refused(o) \/ SaveAccount(o)
    \/ SaveThing(o) \/ CompleteStep(o) \/ ReviewIntent(o) \/ ActivateNumbers(o) \/ DemoteAll(o)
    \/ PromotePorted(o) \/ BeginPort(o) \/ UploadBill(o) \/ PlaceOrder(o) \/ RecordOrder(o) \/ FailPort(o)
    \/ ReadOrder(o) \/ UpsertPorted(o) \/ RetireTemporary(o) \/ RecordPort(o) \/ OfficeStops(o)
    \/ CarrierDecides(o)

PhoneNext == CampaignApproved \/ \E o \in Offices : OfficeStep(o)

PhoneSpec == PhoneInit /\ [][PhoneNext]_phoneVars

-----------------------------------------------------------------------------
(* However requests overlap, stop and are repeated, one account, service   *)
(* and number are bought at most, and what was bought is on record or      *)
(* its intent is still open for review: nothing is paid for and forgotten. *)
PurchasesAccounted ==
    /\ \A t \in DOMAIN bought : bought[t] <= 1
    /\ bought["ACCOUNT"] = 1 => account # "none"
    /\ bought["SERVICE"] = 1 => service \/ op["SERVICE"] = "INTENT"
    /\ bought["NUMBER"] = 1 => numbers["temporary"].there \/ op["NUMBER"] = "INTENT"

\* A text is sent from any one of the primary numbers that are active.
Senders == {n \in DOMAIN numbers : numbers[n].primary /\ numbers[n].active}

\* The setup page: one of them has its account and its messaging service.
ReadyToSend == \E n \in Senders : account = "COMPLETED" /\ service /\ numbers[n].bound

(* Whichever number a text is sent from, the carriers approved its campaign *)
(* and it goes through the messaging service: though a ported and a         *)
(* temporary number may both be primary for a while, and rows are written   *)
(* by requests that read the approval earlier.  So a studio shown as ready  *)
(* to send has no sender that is not.                                       *)
SendersApproved ==
    /\ \A n \in Senders : campaign.real /\ numbers[n].bound
    /\ Senders # {} => ReadyToSend

(* The number clients know is not retired before the ported one is in      *)
(* place and its campaign approved, and no order is placed while the       *)
(* temporary number cannot take over.                                      *)
NoGapInService ==
    /\ numbers["temporary"].role = "TEMPORARY_GRACE" => numbers["ported"].there /\ campaign.known
    /\ \A o \in Offices : carrier[o] # "none" => campaign.known

\* What the run checks of numbers: nothing bought unseen, no gap in service.
PhonesSafe == PhoneTypeOK /\ PurchasesAccounted /\ SendersApproved /\ NoGapInService
=============================================================================
