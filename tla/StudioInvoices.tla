----------------------------- MODULE StudioInvoices -----------------------------
(***************************************************************************)
(* One invoice: its row, the invoice Stripe keeps, and the text message    *)
(* with its link.  Each request holds an advisory lock of the invoice for  *)
(* as long as its connection lives; a process that stops in the middle     *)
(* releases it, and the next request goes through the same calls again.    *)
(* Stripe forgets an idempotency key after a day.                          *)
(***************************************************************************)
EXTENDS Naturals, FiniteSets

CONSTANTS
    Clerks,   \* requests: ISSUE, SYNC or SEND_SMS
    Items,    \* the lines of the invoice
    Sends     \* bound on requests that stop or fail half-way

ASSUME InvoiceBounds == Sends \in Nat /\ IsFiniteSet(Items)

VARIABLES
    bill,     \* studio_invoices: status, stripeInvoiceId, smsStatus
    age,      \* since issuingAt: fresh, old (23 hours, keys still valid) or forgotten
    remote,   \* invoices at Stripe: state and how often each line is on it
    made,     \* invoices created at Stripe
    clerk,    \* the requests
    texts,    \* messages the provider took
    crashes   \* requests that stopped

invoiceVars == <<bill, age, remote, made, clerk, texts, crashes>>

NoRemote == [state |-> "none", on |-> [i \in Items |-> 0]]
Steps == {"idle", "bind", "create", "save", "list", "line", "check", "finalize", "read", "status",
          "sms", "claim", "send", "sent", "failed", "done"}

\* Every row has its type; a finalized invoice is one whose row knows its id.
InvoiceTypeOK ==
    /\ bill \in [status : {"DRAFT", "ISSUING", "OPEN", "PAID", "VOID"}, id : BOOLEAN,
                 sms : {"NOT_SENT", "SENDING", "SENT", "UNKNOWN"}]
    /\ age \in {"fresh", "old", "forgotten"}
    /\ remote.state \in {"none", "draft", "open", "paid", "void"}
    /\ \A c \in Clerks : clerk[c].pc \in Steps /\ clerk[c].todo \subseteq Items
    /\ remote.state \in {"open", "paid", "void"} => bill.id
    /\ Cardinality({c \in Clerks : clerk[c].pc \notin {"idle", "done"}}) <= 1

InvoiceInit ==
    /\ bill = [status |-> "DRAFT", id |-> FALSE, sms |-> "NOT_SENT"] /\ age = "fresh"
    /\ remote = NoRemote /\ made = 0 /\ texts = 0 /\ crashes = 0
    /\ clerk = [c \in Clerks |-> [pc |-> "idle", todo |-> {}, saw |-> "none"]]

Proceed(c, pc) == clerk' = [clerk EXCEPT ![c].pc = pc]
Atop(c, pc) == clerk[c].pc = pc

\* pg_advisory_lock of the invoice
Unclaimed == \A c \in Clerks : clerk[c].pc \in {"idle", "done"}

-----------------------------------------------------------------------------
(* Issuing.                                                                 *)

\* Faulty variant: an old attempt whose invoice is unknown is repeated.
AnyAge == TRUE

\* Nothing is created again once Stripe may have forgotten the keys.
MayRepeat == ~(bill.status = "ISSUING" /\ ~bill.id /\ age # "fresh")

BeginIssue(c) ==
    /\ Atop(c, "idle") /\ Unclaimed /\ bill.status \in {"DRAFT", "ISSUING"}
    /\ IF MayRepeat THEN Proceed(c, IF bill.id THEN "list" ELSE "create") ELSE Proceed(c, "done")
    /\ bill' = IF MayRepeat THEN [bill EXCEPT !.status = "ISSUING"] ELSE bill
    /\ UNCHANGED <<age, remote, made, texts, crashes>>

\* Under its key a repeated call finds the invoice, unless the key is forgotten.
CreateInvoice(c) ==
    /\ Atop(c, "create") /\ Proceed(c, "save")
    /\ IF made = 0 \/ age = "forgotten"
       THEN made' = made + 1 /\ remote' = [NoRemote EXCEPT !.state = "draft"]
       ELSE UNCHANGED <<made, remote>>
    /\ UNCHANGED <<bill, age, texts, crashes>>

SaveInvoiceId(c) ==
    /\ Atop(c, "save") /\ bill' = [bill EXCEPT !.id = TRUE] /\ Proceed(c, "list")
    /\ UNCHANGED <<age, remote, made, texts, crashes>>

\* Lines already there are left alone.
Missing == {i \in Items : remote.on[i] = 0}

ListLines(c) ==
    /\ Atop(c, "list")
    /\ clerk' = [clerk EXCEPT ![c].pc = IF remote.state = "draft" THEN "line" ELSE "read", ![c].todo = Missing]
    /\ UNCHANGED <<bill, age, remote, made, texts, crashes>>

AddLine(c) ==
    /\ Atop(c, "line") /\ clerk[c].todo # {}
    /\ \E i \in clerk[c].todo :
        /\ remote' = IF remote.on[i] = 0 \/ age = "forgotten"
                     THEN [remote EXCEPT !.on[i] = @ + 1] ELSE remote
        /\ clerk' = [clerk EXCEPT ![c].todo = @ \ {i}]
    /\ UNCHANGED <<bill, age, made, texts, crashes>>

\* The total is compared before the invoice is finalized.
Finalize(c) ==
    /\ Atop(c, "line") /\ clerk[c].todo = {}
    /\ IF remote.state = "draft" /\ \A i \in Items : remote.on[i] = 1
       THEN remote' = [remote EXCEPT !.state = "open"] /\ Proceed(c, "read")
       ELSE UNCHANGED remote /\ Proceed(c, "done")
    /\ UNCHANGED <<bill, age, made, texts, crashes>>

\* The invoice is read, and its status written, in issueInvoice as in SYNC.
ReadInvoice(c) ==
    /\ Atop(c, "read") /\ clerk' = [clerk EXCEPT ![c].pc = "status", ![c].saw = remote.state]
    /\ UNCHANGED <<bill, age, remote, made, texts, crashes>>

StatusOf(state) == CASE state = "draft" -> "ISSUING" [] state = "open" -> "OPEN"
                     [] state = "paid" -> "PAID" [] state = "void" -> "VOID"

WriteStatus(c) ==
    /\ Atop(c, "status") /\ bill' = [bill EXCEPT !.status = StatusOf(clerk[c].saw)] /\ Proceed(c, "done")
    /\ UNCHANGED <<age, remote, made, texts, crashes>>

BeginSync(c) ==
    /\ Atop(c, "idle") /\ Unclaimed /\ bill.id /\ Proceed(c, "read")
    /\ UNCHANGED <<bill, age, remote, made, texts, crashes>>

-----------------------------------------------------------------------------
(* The text message.                                                        *)

BeginText(c) ==
    /\ Atop(c, "idle") /\ Unclaimed /\ bill.id /\ remote.state = "open"
    /\ bill.status = "OPEN" /\ bill.sms = "NOT_SENT" /\ Proceed(c, "claim")
    /\ UNCHANGED <<bill, age, remote, made, texts, crashes>>

ClaimText(c) ==
    /\ Atop(c, "claim")
    /\ IF bill.sms = "NOT_SENT" THEN bill' = [bill EXCEPT !.sms = "SENDING"] /\ Proceed(c, "send")
       ELSE UNCHANGED bill /\ Proceed(c, "done")
    /\ UNCHANGED <<age, remote, made, texts, crashes>>

\* Refused before the call, taken, or nobody knows.
SendText(c) ==
    /\ Atop(c, "send")
    /\ \/ clerk' = [clerk EXCEPT ![c].pc = "failed", ![c].saw = "refused"] /\ UNCHANGED texts
       \/ Proceed(c, "sent") /\ texts' = texts + 1
       \/ clerk' = [clerk EXCEPT ![c].pc = "failed", ![c].saw = "unknown"] /\ texts' \in {texts, texts + 1}
    /\ UNCHANGED <<bill, age, remote, made, crashes>>

RecordText(c) ==
    /\ Atop(c, "sent")
    /\ \/ bill' = [bill EXCEPT !.sms = "SENT"] /\ Proceed(c, "done")
       \/ clerk' = [clerk EXCEPT ![c].pc = "failed", ![c].saw = "unknown"] /\ UNCHANGED bill
    /\ UNCHANGED <<age, remote, made, texts, crashes>>

SmsAfter(why) == IF why = "refused" THEN "NOT_SENT" ELSE "UNKNOWN"

FailText(c) ==
    /\ Atop(c, "failed") /\ bill' = [bill EXCEPT !.sms = SmsAfter(clerk[c].saw)] /\ Proceed(c, "done")
    /\ UNCHANGED <<age, remote, made, texts, crashes>>

-----------------------------------------------------------------------------
(* Stripe, the clock, and requests that stop.                               *)

InvoiceSettled ==
    /\ remote.state = "open" /\ \E s \in {"paid", "void"} : remote' = [remote EXCEPT !.state = s]
    /\ UNCHANGED <<bill, age, made, clerk, texts, crashes>>

\* A request is shorter than the hour between the limit and the keys' day.
DayPasses ==
    /\ bill.status = "ISSUING" /\ age # "forgotten"
    /\ age = "old" => \A c \in Clerks : ~Atop(c, "create")
    /\ age' = IF age = "fresh" THEN "old" ELSE "forgotten"
    /\ UNCHANGED <<bill, remote, made, clerk, texts, crashes>>

\* A call fails or the process stops: the lock is released, nothing else is undone.
StopClerk(c) ==
    /\ clerk[c].pc \notin {"idle", "done"} /\ crashes < Sends
    /\ crashes' = crashes + 1 /\ Proceed(c, "done")
    /\ UNCHANGED <<bill, age, remote, made, texts>>

ClerkStep(c) ==
    \/ BeginIssue(c) \/ CreateInvoice(c) \/ SaveInvoiceId(c) \/ ListLines(c) \/ AddLine(c) \/ Finalize(c)
    \/ ReadInvoice(c) \/ WriteStatus(c) \/ BeginSync(c) \/ BeginText(c) \/ ClaimText(c) \/ SendText(c)
    \/ RecordText(c) \/ FailText(c) \/ StopClerk(c)

InvoiceNext == InvoiceSettled \/ DayPasses \/ \E c \in Clerks : ClerkStep(c)

InvoiceSpec == InvoiceInit /\ [][InvoiceNext]_invoiceVars

-----------------------------------------------------------------------------
(* However often issuing is repeated after lost answers, stopped processes *)
(* and days of waiting, the client can be charged on one invoice only,     *)
(* with every line on it once.                                             *)
InvoicedOnce ==
    /\ made <= 1
    /\ remote.state \in {"open", "paid"} => \A i \in Items : remote.on[i] = 1

(* The link is texted once at most, whatever the provider answered and     *)
(* wherever a request stopped.                                             *)
TextedOnce == texts <= 1

\* What the run checks of invoices: issued once, texted once.
InvoicesSafe == InvoiceTypeOK /\ InvoicedOnce /\ TextedOnce
=============================================================================
