--------------------------- MODULE StudioPayments ---------------------------
(***************************************************************************)
(* The money of one appointment of Maia's own calendar, collected on the   *)
(* studio's Stripe account: deposit and balance, by checkout (hosted link  *)
(* or card form) and by Terminal, and its refunds, from the studio or from *)
(* the Stripe dashboard.                                                   *)
(*                                                                         *)
(* A transaction under the appointment's locks is one action.  Calls to    *)
(* Stripe made outside of one are actions of their own: a request that     *)
(* reserved a payment creates its session and saves the session's id in    *)
(* two more steps, and may die before either.                              *)
(*                                                                         *)
(* Whether the appointment's time is still free is decided by the calendar *)
(* (module ArtistCalendar); here either answer may come.                   *)
(***************************************************************************)
EXTENDS Integers, FiniteSets, Functions

CONSTANTS
    Attempts,   \* ids of payment rows
    Requests,   \* requests that are served at the same time
    Price, Deposit,
    Tips,       \* tips that are offered, 0 for none
    Refunders   \* who issues refunds: "studio" (in the app), "dashboard" (at Stripe)

ASSUME AmountsAreCents ==
    /\ Price \in Nat /\ Deposit \in Nat /\ Tips \subseteq Nat
    /\ Refunders \subseteq {"studio", "dashboard"}

VARIABLES
    status, depositStatus, \* of the appointment
    payment,  \* the payment rows
    session,  \* Stripe's checkout session or payment intent of each payment
    saved,    \* payments that have its id
    refund,   \* Stripe's refunds of each payment, by who issued them
    news,     \* payments with a refund event that Stripe has yet to deliver
    missed,   \* history: the last refund event was dropped for want of a row
    request   \* what each request is about to do: {} or {<<step, payment>>}

vars == <<status, depositStatus, payment, session, saved, refund, news, missed, request>>
appointment == <<status, depositStatus>>

RefundStatuses == {"REFUND_PENDING", "REFUND_REVIEW", "REFUNDED"}
Settled == {"PAID"} \cup RefundStatuses

Payments ==
    [provider : {"stripe_connect", "stripe_terminal"}, purpose : {"DEPOSIT", "BALANCE"},
     amount : Nat, tip : Nat, refunded : Nat,
     status : {"NONE", "PENDING", "EXPIRED"} \cup Settled]
Refunds == [amount : Nat, status : {"none", "pending", "succeeded", "failed"}]
Steps == {"create", "save", "refund", "reconcile"}

PaymentsTypeOK ==
    /\ status \in {"PAYMENT_PENDING", "CONFIRMED", "COMPLETED", "CANCELLED",
                   "PAYMENT_RECEIVED_SLOT_UNAVAILABLE"}
    /\ depositStatus \in {"PENDING", "WAIVED"} \cup Settled
    /\ payment \in [Attempts -> Payments]
    /\ session \in [Attempts -> {"none", "lapsed", "open", "paid", "expired"}]
    /\ saved \subseteq Attempts /\ news \subseteq Attempts /\ missed \subseteq Attempts
    /\ refund \in [Attempts -> [Refunders -> Refunds]]
    /\ request \in [Requests -> SUBSET (Steps \X Attempts)]

NoPayment == [provider |-> "stripe_connect", purpose |-> "DEPOSIT", amount |-> 0, tip |-> 0,
              refunded |-> 0, status |-> "NONE"]

Init ==
    /\ \/ status = "PAYMENT_PENDING" /\ depositStatus = "PENDING"
       \/ status = "CONFIRMED" /\ depositStatus = "WAIVED"
    /\ payment = [p \in Attempts |-> NoPayment]
    /\ session = [p \in Attempts |-> "none"]
    /\ saved = {} /\ news = {} /\ missed = {}
    /\ refund = [p \in Attempts |-> [w \in Refunders |-> [amount |-> 0, status |-> "none"]]]
    /\ request = [c \in Requests |-> {}]

Idle(c) == request[c] = {}
About(c, step, p) == request[c] = {<<step, p>>}
Continue(c, step, p) == request' = [request EXCEPT ![c] = {<<step, p>>}]
Finish(c) == request' = [request EXCEPT ![c] = {}]

HasStatus(s) == {p \in Attempts : payment[p].status = s}
SetStatus(p, s) == payment' = [payment EXCEPT ![p].status = s]

-----------------------------------------------------------------------------
(* Reserving a payment (reserveStudioPayment).                              *)

\* A tip is taken with the balance in the card form only; Terminal collects
\* balances only.
Offered(purpose, provider, tip) ==
    /\ tip > 0 => purpose = "BALANCE" /\ provider = "stripe_connect"
    /\ provider = "stripe_terminal" => purpose = "BALANCE"

Collectable(purpose) ==
    IF purpose = "DEPOSIT" THEN status = "PAYMENT_PENDING" /\ depositStatus = "PENDING"
                           ELSE status \in {"CONFIRMED", "COMPLETED"}

NoRefund == \A p \in Attempts : payment[p].status \notin RefundStatuses

\* What a payment contributes to the price.
Service == [p \in Attempts |-> payment[p].amount - payment[p].tip]

Due(purpose, credit) ==
    IF purpose = "DEPOSIT" THEN Deposit ELSE Price - SumFunctionOnSet(credit, HasStatus("PAID"))

Reserved(c, p, purpose, provider, tip, blocking, credit) ==
    /\ Idle(c) /\ payment[p].status = "NONE"
    /\ Offered(purpose, provider, tip) /\ Collectable(purpose) /\ NoRefund
    /\ blocking = {}
    /\ \E amount \in 1 .. (Price + Deposit) :
         /\ amount = Due(purpose, credit)
         /\ payment' = [payment EXCEPT ![p] =
                          [provider |-> provider, purpose |-> purpose, amount |-> amount + tip,
                           tip |-> tip, refunded |-> 0, status |-> "PENDING"]]
    /\ Continue(c, "create", p)
    /\ UNCHANGED <<appointment, session, saved, refund, news, missed>>

\* Pending payments that are returned instead of a new one, and those that
\* stand in its way.
Same(purpose, provider) ==
    {p \in HasStatus("PENDING") : payment[p].provider = provider /\ payment[p].purpose = purpose}
OtherProvider(provider) == {p \in HasStatus("PENDING") : payment[p].provider # provider}

\* Faulty variant: payments open with the other provider are not looked at.
ReserveBesides(c, p, purpose, provider, tip) ==
    Reserved(c, p, purpose, provider, tip, Same(purpose, provider), Service)
Reserve(c, p, purpose, provider, tip) ==
    Reserved(c, p, purpose, provider, tip, Same(purpose, provider) \cup OtherProvider(provider),
             Service)

\* A card session can be created until a minute before it would end; the
\* idempotency key brings back the session that another request created.
Creatable(p) == session[p] \in {"none", "open"} \/ payment[p].provider = "stripe_terminal"

\* The pending payment is taken up again.  Once its session is saved the
\* request only reads it back from Stripe, which changes nothing.
Resume(c, p, purpose, provider, tip) ==
    /\ Idle(c) /\ p \in Same(purpose, provider)
    /\ Collectable(purpose) /\ NoRefund
    /\ payment[p].tip = tip
    /\ p \notin saved /\ Creatable(p)
    /\ Continue(c, "create", p)
    /\ UNCHANGED <<appointment, payment, session, saved, refund, news, missed>>

CreateSession(c, p) ==
    /\ About(c, "create", p) /\ Creatable(p)
    /\ session' = [session EXCEPT ![p] = IF @ = "none" THEN "open" ELSE @]
    /\ Continue(c, "save", p)
    /\ UNCHANGED <<appointment, payment, saved, refund, news, missed>>

\* The id is saved, and only then are the link, the card form's secret or the
\* reader's secret given out.
SaveSession(c, p) ==
    /\ About(c, "save", p)
    /\ saved' = saved \cup {p}
    /\ Finish(c)
    /\ UNCHANGED <<appointment, payment, session, refund, news, missed>>

\* The time for creating a card session runs out.
Lapse(p) ==
    /\ payment[p].provider = "stripe_connect" /\ payment[p].status = "PENDING"
    /\ session[p] = "none"
    /\ session' = [session EXCEPT ![p] = "lapsed"]
    /\ UNCHANGED <<appointment, payment, saved, refund, news, missed, request>>

SessionEnds(p, s) ==
    /\ session[p] = "open"
    /\ session' = [session EXCEPT ![p] = s]
    /\ UNCHANGED <<appointment, payment, saved, refund, news, missed, request>>

\* Faulty variant: the link is given out before its id is saved.
ClientPaysEarly(p) == SessionEnds(p, "paid")

ClientPays(p) == p \in saved /\ SessionEnds(p, "paid")

\* The session's time is over, or the intent is cancelled at Stripe.
SessionExpires(p) == SessionEnds(p, "expired")

-----------------------------------------------------------------------------
(* Webhooks about payments.  Stripe repeats them until they are accepted,   *)
(* and they are refused while the session's id is not saved.                *)

Reported(p, provider, s) ==
    p \in saved /\ payment[p].provider = provider /\ session[p] = s

Completed(p, depositShown) ==
    /\ SetStatus(p, "PAID")
    /\ IF payment[p].purpose = "BALANCE"
       THEN UNCHANGED appointment
       ELSE /\ \E free \in BOOLEAN :
                 status' = CASE status = "PAYMENT_PENDING" /\ free -> "CONFIRMED"
                             [] status = "CANCELLED" -> "CANCELLED"
                             [] OTHER -> "PAYMENT_RECEIVED_SLOT_UNAVAILABLE"
            /\ depositStatus' = depositShown
    /\ UNCHANGED <<session, saved, refund, news, missed, request>>

\* checkout.session.completed; a replay finds the payment settled.
ConnectCompleted(p) ==
    /\ Reported(p, "stripe_connect", "paid") /\ payment[p].status \notin Settled
    /\ Completed(p, "PAID")

\* Faulty variant: the ledger gives a payment up while its session is open.
ConnectExpiredByTime(p) ==
    /\ payment[p].status = "PENDING" /\ SetStatus(p, "EXPIRED")
    /\ UNCHANGED <<appointment, session, saved, refund, news, missed, request>>
\* checkout.session.expired
ConnectExpired(p) ==
    /\ Reported(p, "stripe_connect", "expired") /\ payment[p].status = "PENDING"
    /\ SetStatus(p, "EXPIRED")
    /\ UNCHANGED <<appointment, session, saved, refund, news, missed, request>>

\* payment_intent.succeeded and payment_intent.canceled of a reader
TerminalEvent(p) ==
    /\ payment[p].status \notin Settled
    /\ \/ Reported(p, "stripe_terminal", "paid") /\ SetStatus(p, "PAID")
       \/ Reported(p, "stripe_terminal", "expired") /\ SetStatus(p, "EXPIRED")
    /\ UNCHANGED <<appointment, session, saved, refund, news, missed, request>>

-----------------------------------------------------------------------------
(* Refunds.                                                                 *)

\* A reader's payment has its intent's id once saved, a checkout when its
\* completion was recorded.
HasIntent(p) ==
    IF payment[p].provider = "stripe_terminal" THEN p \in saved ELSE payment[p].status \in Settled

With(p, states) == {w \in Refunders : refund[p][w].status \in states}
RefundTotal(p, states) ==
    SumFunctionOnSet([w \in Refunders |-> refund[p][w].amount], With(p, states))
Remaining(p) == payment[p].amount - RefundTotal(p, {"pending", "succeeded"})

\* An owner asks for the refund of a payment in full.
RefundRequest(c, p) ==
    /\ Idle(c) /\ HasIntent(p)
    /\ payment[p].status \in {"PAID", "REFUND_PENDING"}
    /\ SetStatus(p, "REFUND_PENDING")
    /\ depositStatus' = IF payment[p].purpose = "DEPOSIT" THEN "REFUND_PENDING" ELSE depositStatus
    /\ Continue(c, "refund", p)
    /\ UNCHANGED <<status, session, saved, refund, news, missed>>

Issue(p, who, amount, outcome) ==
    /\ refund' = [refund EXCEPT ![p][who] = [amount |-> amount, status |-> outcome]]
    /\ news' = news \cup {p}

\* Faulty variant: every request has a key of its own, so a refund that failed
\* is issued anew.
RefundCreateAnew(c, p) ==
    /\ About(c, "refund", p)
    /\ \E amount \in 1 .. payment[p].amount, outcome \in {"pending", "succeeded"} :
         amount = Remaining(p) /\ Issue(p, "studio", amount, outcome)
    /\ Continue(c, "reconcile", p)
    /\ UNCHANGED <<appointment, payment, session, saved, missed>>

\* The request asks Stripe for it, under a key that is the payment's: what an
\* earlier request got comes back.
RefundCreate(c, p) ==
    /\ About(c, "refund", p)
    /\ IF refund[p]["studio"].status = "none"
       THEN \E amount \in 1 .. payment[p].amount, outcome \in {"pending", "succeeded"} :
              amount = Remaining(p) /\ Issue(p, "studio", amount, outcome)
       ELSE UNCHANGED <<refund, news>>
    /\ Continue(c, "reconcile", p)
    /\ UNCHANGED <<appointment, payment, session, saved, missed>>

\* Somebody refunds part or all of a charge in the Stripe dashboard.
DashboardRefund(p) ==
    /\ "dashboard" \in Refunders /\ session[p] = "paid"
    /\ refund[p]["dashboard"].status = "none"
    /\ \E amount \in 1 .. payment[p].amount, outcome \in {"pending", "succeeded"} :
         amount <= Remaining(p) /\ Issue(p, "dashboard", amount, outcome)
    /\ UNCHANGED <<appointment, payment, session, saved, missed, request>>

\* The bank settles a refund, or returns it.
RefundSettles(p, who) ==
    /\ \/ refund[p][who].status = "pending" /\ Issue(p, who, refund[p][who].amount, "succeeded")
       \/ refund[p][who].status \in {"pending", "succeeded"}
          /\ Issue(p, who, refund[p][who].amount, "failed")
    /\ UNCHANGED <<appointment, payment, session, saved, missed, request>>

\* Faulty variant: money that came back hides a refund that is under way.
HastyVerdict(p) ==
    IF RefundTotal(p, {"succeeded"}) = payment[p].amount THEN "REFUNDED"
    ELSE IF RefundTotal(p, {"succeeded"}) > 0 THEN "REFUND_REVIEW" ELSE "REFUND_PENDING"

\* The status that Stripe's list of refunds calls for; none without refunds.
Verdict(p) ==
    IF RefundTotal(p, {"succeeded"}) = payment[p].amount /\ With(p, {"pending"}) = {} THEN "REFUNDED"
    ELSE IF With(p, {"pending"}) # {} THEN "REFUND_PENDING" ELSE "REFUND_REVIEW"

HasRefund(p) == With(p, {"pending", "succeeded", "failed"}) # {}

\* reconcileStudioRefund: the list is read under the locks.
Reconciled(p) ==
    IF HasIntent(p) /\ HasRefund(p)
    THEN /\ \E returned \in 0 .. payment[p].amount :
              /\ returned = RefundTotal(p, {"succeeded"})
              /\ payment' = [payment EXCEPT ![p].status = Verdict(p), ![p].refunded = returned]
         /\ depositStatus' = IF payment[p].purpose = "DEPOSIT" THEN Verdict(p) ELSE depositStatus
    ELSE UNCHANGED <<payment, depositStatus>>

Reconcile(c, p) ==
    /\ About(c, "reconcile", p)
    /\ Reconciled(p)
    /\ Finish(c)
    /\ UNCHANGED <<status, session, saved, refund, news, missed>>

\* A refund event, in any order and any number of times; without a row that
\* has the intent's id it is accepted and nothing is done.
RefundEvent(p) ==
    /\ HasRefund(p)
    /\ Reconciled(p)
    /\ news' = news \ {p}
    /\ missed' = IF HasIntent(p) THEN missed \ {p} ELSE missed \cup {p}
    /\ UNCHANGED <<status, session, saved, refund, request>>

-----------------------------------------------------------------------------
(* The appointment, and requests that end early.                            *)

Cancel ==
    /\ status' = "CANCELLED"
    /\ UNCHANGED <<depositStatus, payment, session, saved, refund, news, missed, request>>

Complete ==
    /\ status = "CONFIRMED" /\ status' = "COMPLETED"
    /\ UNCHANGED <<depositStatus, payment, session, saved, refund, news, missed, request>>

\* The process stops, or a call to Stripe fails: what is done stays done.
RequestDies(c) ==
    /\ ~Idle(c) /\ Finish(c)
    /\ UNCHANGED <<appointment, payment, session, saved, refund, news, missed>>

Collecting(c, p) ==
    \/ \E purpose \in {"DEPOSIT", "BALANCE"}, provider \in {"stripe_connect", "stripe_terminal"},
          tip \in Tips :
         Reserve(c, p, purpose, provider, tip) \/ Resume(c, p, purpose, provider, tip)
    \/ CreateSession(c, p) \/ SaveSession(c, p)

Refunding(c, p) ==
    "studio" \in Refunders /\ (RefundRequest(c, p) \/ RefundCreate(c, p) \/ Reconcile(c, p))

Stripe(p) ==
    \/ Lapse(p) \/ ClientPays(p) \/ SessionExpires(p)
    \/ ConnectCompleted(p) \/ ConnectExpired(p) \/ TerminalEvent(p)
    \/ DashboardRefund(p) \/ RefundEvent(p)
    \/ \E who \in Refunders : RefundSettles(p, who)

Next ==
    \/ \E c \in Requests, p \in Attempts : Collecting(c, p) \/ Refunding(c, p)
    \/ \E p \in Attempts : Stripe(p)
    \/ \E c \in Requests : RequestDies(c)
    \/ Cancel \/ Complete

Spec == Init /\ [][Next]_vars

\* Stripe repeats a webhook until it is accepted.
FairSpec ==
    Spec /\ \A p \in Attempts : WF_vars(ConnectCompleted(p)) /\ WF_vars(TerminalEvent(p))

-----------------------------------------------------------------------------
(* Properties.                                                              *)

\* The client can pay at most one session at a time: whichever mix of checkout,
\* card form and reader was started, retried or given up, two never accept money
\* together.
Payable(p) == session[p] = "open" /\ p \in saved
OneOpenCollection == \A p, q \in Attempts : Payable(p) /\ Payable(q) => p = q

\* Stripe never collects more for the service than it costs, tips aside, and with
\* the balance exactly the price, though a payment may be collected long before
\* the ledger hears of it, and after a cancellation or a refund.  Nothing keeps a
\* fixed deposit below the price (nativeDeposit): then the deposit alone is collected.
ServiceCollected == SumFunctionOnSet(Service, {p \in Attempts : session[p] = "paid"})
CollectedWithinPrice ==
    /\ ServiceCollected <= Price \/ ServiceCollected = Deposit
    /\ (\E p \in Attempts : session[p] = "paid" /\ payment[p].purpose = "BALANCE")
         => ServiceCollected = Price

\* Nothing undoes a refund in the ledger: no late, replayed or concurrent
\* completion, expiry or request returns a payment to an unrefunded status.
RefundsSurvive ==
    [][\A p \in Attempts : payment[p].status \in RefundStatuses
                             => payment'[p].status \in RefundStatuses]_vars

\* The appointment's deposit status is that of the one deposit that was collected,
\* through every refund state, and stays open or waived without one.
DepositShown ==
    LET deposits == {p \in Attempts : payment[p].purpose = "DEPOSIT" /\ payment[p].status \in Settled}
    IN  /\ \A p \in deposits : depositStatus = payment[p].status
        /\ deposits = {} => depositStatus \in {"PENDING", "WAIVED"}

\* Once every refund event was handled the ledger says what Stripe's refunds say,
\* status and amount, unless the last event came before the completion.
RefundsAgree ==
    \A p \in Attempts \ (news \cup missed) :
        HasIntent(p) /\ HasRefund(p)
          => /\ payment[p].refunded = RefundTotal(p, {"succeeded"})
             /\ payment[p].status = "REFUNDED" <=> payment[p].refunded = payment[p].amount
             /\ payment[p].status = "REFUND_PENDING" <=> With(p, {"pending"}) # {}
             /\ payment[p].status \in RefundStatuses

\* STUDIO_PAYMENTS.md:48: a failed refund needs a review, never a fresh attempt of
\* the app's; however often and concurrently owners ask, it issues one refund.
StudioRefundsOnce ==
    [][\A p \in Attempts : "studio" \in Refunders /\ refund[p]["studio"].status # "none"
         => /\ refund'[p]["studio"].amount = refund[p]["studio"].amount
            /\ refund[p]["studio"].status = "failed" => refund'[p]["studio"].status = "failed"]_vars

\* The ledger and the appointment tell what Stripe collected and how its refunds
\* stand.
LedgerAgrees == CollectedWithinPrice /\ RefundsAgree /\ DepositShown

\* What was refunded stays refunded, in the ledger and at Stripe.
RefundsStand == RefundsSurvive /\ StudioRefundsOnce

\* Money that Stripe collected reaches the ledger.
PaidIsRecorded ==
    \A p \in Attempts : (session[p] = "paid") ~> (payment[p].status \in Settled)

\* The promise to the client (module PaymentContract).
Stage ==
    [p \in Attempts |->
       CASE session[p] = "paid" -> "collected"
         [] session[p] \in {"lapsed", "expired"} -> "lapsed"
         [] session[p] \in {"none", "open"} /\ payment[p].status # "NONE" -> "asked"
         [] OTHER -> "new"]
Contract == INSTANCE PaymentContract WITH stage <- Stage, service <- Service
ImplementsContract == Contract!ContractSpec

\* studio-refund.server.ts:9: current totals are read "rather than trusting event
\* order": with every event handled, the ledger shows every refund.
RefundsKnown ==
    \A p \in Attempts \ news : HasIntent(p) /\ HasRefund(p) => payment[p].status \in RefundStatuses
=============================================================================
