----------------------------- MODULE CounterSales -----------------------------
(***************************************************************************)
(* One sale at the studio's counter.  The artist's device sends the same   *)
(* request again and again: as a cash sale, as a card checkout, to resume, *)
(* cancel or check the card.  Cash and card share an advisory lock held by *)
(* one transaction at a time; the calls to Stripe are outside it, and the  *)
(* webhook reconciles on its own.                                          *)
(***************************************************************************)
EXTENDS Naturals

CONSTANTS
    Tills,       \* requests of the device and deliveries of the webhook
    TillKinds,   \* what they do in a scenario
    Amounts      \* totals of the cart under the catalog's prices

ASSUME TillRequests ==
    \A kinds \in TillKinds : kinds \in [Tills -> {"cash", "card", "resume", "cancel", "check"}]

VARIABLES
    catalog,   \* the total the cart has now
    sale,      \* checkout_sales: none, or its tender and total
    attempt,   \* checkout_card_attempts
    session,   \* the Checkout session at Stripe; url: somebody can open it
    late,      \* the attempt is older than half an hour
    till       \* the requests

counterVars == <<catalog, sale, attempt, session, late, till>>

NoSale == [tender |-> "NONE", total |-> 0]
NoAttempt == [status |-> "NONE", session |-> FALSE, total |-> 0]
NoSession == [state |-> "none", amount |-> 0, url |-> FALSE]

\* Every row has its type; a card sale belongs to a paid attempt.
CounterTypeOK ==
    /\ catalog \in Amounts /\ sale.tender \in {"NONE", "CASH", "CARD"} /\ late \in BOOLEAN
    /\ attempt.status \in {"NONE", "PENDING", "PAID", "EXPIRED"} /\ attempt.session \in BOOLEAN
    /\ session.state \in {"none", "open", "paid", "expired"}
    /\ sale.tender = "CARD" <=> attempt.status = "PAID"
    /\ session.url => attempt.session

CounterInit ==
    /\ catalog \in Amounts /\ sale = NoSale /\ attempt = NoAttempt /\ session = NoSession /\ late = FALSE
    /\ \E kinds \in TillKinds :
        till = [t \in Tills |-> [kind |-> kinds[t], pc |-> "idle", copy |-> NoAttempt, total |-> 0,
                                 saw |-> "none"]]

Advance(t, pc) == till' = [till EXCEPT ![t].pc = pc]
At(t, pc) == till[t].pc = pc

-----------------------------------------------------------------------------
(* Recording a cash sale.                                                   *)

PriceCart(t) ==
    /\ At(t, "idle") /\ till[t].kind = "cash" /\ sale = NoSale
    /\ till' = [till EXCEPT ![t].pc = "cash", ![t].total = catalog]
    /\ UNCHANGED <<catalog, sale, attempt, session, late>>

\* Faulty variant: cash may be taken while a card checkout is open.
CardIgnored == TRUE

CardClosed == attempt.status \in {"NONE", "EXPIRED"}

RecordCash(t) ==
    /\ At(t, "cash") /\ Advance(t, "done")
    /\ sale' = IF sale = NoSale /\ CardClosed THEN [tender |-> "CASH", total |-> till[t].total] ELSE sale
    /\ UNCHANGED <<catalog, attempt, session, late>>

-----------------------------------------------------------------------------
(* The card.                                                                *)

\* startCardCheckout: a prior attempt keeps its prices.
StartCard(t) ==
    /\ At(t, "idle") /\ till[t].kind = "card" /\ sale = NoSale
    /\ attempt.status \in {"NONE", "PENDING"}
    /\ attempt' = IF attempt = NoAttempt THEN [status |-> "PENDING", session |-> FALSE, total |-> catalog]
                  ELSE attempt
    /\ till' = [till EXCEPT ![t].pc = "open", ![t].copy = attempt']
    /\ UNCHANGED <<catalog, sale, session, late>>

\* findCardAttempt, for RESUME, CANCEL, the status query and the webhook
FindAttempt(t) ==
    /\ At(t, "idle") /\ till[t].kind \in {"resume", "cancel", "check"} /\ attempt # NoAttempt
    /\ till[t].kind = "check" => attempt.session
    /\ till' = [till EXCEPT ![t].copy = attempt,
                            ![t].pc = CASE till[t].kind = "check" -> "retrieve"
                                        [] till[t].kind = "cancel" /\ attempt.session -> "expire"
                                        [] OTHER -> "open"]
    /\ UNCHANGED <<catalog, sale, attempt, session, late>>

\* openCardCheckout: the session is retrieved, or created under the attempt's key.
OpenSession(t) ==
    /\ At(t, "open")
    /\ \/ till[t].copy.session /\ Advance(t, "done") /\ UNCHANGED session
       \/ ~till[t].copy.session /\ late /\ Advance(t, "done") /\ UNCHANGED session
       \/ /\ ~till[t].copy.session /\ ~late
          /\ session' = IF session.state = "none"
                        THEN [state |-> "open", amount |-> till[t].copy.total, url |-> FALSE] ELSE session
          /\ \/ Advance(t, "save")
             \/ Advance(t, "done")    \* the answer is lost
    /\ UNCHANGED <<catalog, sale, attempt, late>>

\* The session is saved before anybody gets its address.
SaveSession(t) ==
    /\ At(t, "save") /\ attempt' = [attempt EXCEPT !.session = TRUE]
    /\ session' = [session EXCEPT !.url = @ \/ session.state = "open"]
    /\ Advance(t, IF till[t].kind = "cancel" /\ session.state = "open" THEN "expire" ELSE "done")
    /\ UNCHANGED <<catalog, sale, late>>

\* cancelCardCheckout: Stripe refuses to expire a session that was completed.
ExpireSession(t) ==
    /\ At(t, "expire")
    /\ \/ session.state = "open" /\ session' = [session EXCEPT !.state = "expired"] /\ Advance(t, "retrieve")
       \/ session.state # "open" /\ UNCHANGED session /\ Advance(t, "retrieve")
       \/ session.state = "paid" /\ UNCHANGED session /\ Advance(t, "done")   \* paid between the two calls
    /\ UNCHANGED <<catalog, sale, attempt, late>>

\* reconcileCardAttempt: Stripe's answer ...
RetrieveSession(t) ==
    /\ At(t, "retrieve")
    /\ till' = [till EXCEPT ![t].pc = "settle", ![t].saw = session.state]
    /\ UNCHANGED <<catalog, sale, attempt, session, late>>

ChargedTotal == attempt.total

\* ... and the transaction.
SettleCard(t) ==
    /\ At(t, "settle") /\ Advance(t, "done")
    /\ CASE till[t].saw = "paid" /\ sale.tender # "CASH" ->
              /\ sale' = IF sale = NoSale THEN [tender |-> "CARD", total |-> ChargedTotal] ELSE sale
              /\ attempt' = [attempt EXCEPT !.status = "PAID"]
         [] till[t].saw = "expired" /\ attempt.status # "PAID" ->
              attempt' = [attempt EXCEPT !.status = "EXPIRED"] /\ UNCHANGED sale
         [] OTHER -> UNCHANGED <<sale, attempt>>
    /\ UNCHANGED <<catalog, session, late>>

TillStep(t) ==
    \/ PriceCart(t) \/ RecordCash(t) \/ StartCard(t) \/ FindAttempt(t) \/ OpenSession(t) \/ SaveSession(t)
    \/ ExpireSession(t) \/ RetrieveSession(t) \/ SettleCard(t)

-----------------------------------------------------------------------------
(* The client, Stripe, the clock and the catalog.                           *)

ClientPays ==
    /\ session.state = "open" /\ session.url /\ session' = [session EXCEPT !.state = "paid"]
    /\ UNCHANGED <<catalog, sale, attempt, late, till>>

SessionEnds ==
    /\ session.state = "open" /\ late /\ session' = [session EXCEPT !.state = "expired"]
    /\ UNCHANGED <<catalog, sale, attempt, late, till>>

HalfHour ==
    /\ attempt # NoAttempt /\ ~late /\ late' = TRUE
    /\ UNCHANGED <<catalog, sale, attempt, session, till>>

CatalogChanges ==
    /\ catalog' \in Amounts /\ catalog' # catalog
    /\ UNCHANGED <<sale, attempt, session, late, till>>

CounterNext ==
    \/ ClientPays \/ SessionEnds \/ HalfHour \/ CatalogChanges
    \/ \E t \in Tills : TillStep(t)

CounterSpec == CounterInit /\ [][CounterNext]_counterVars

-----------------------------------------------------------------------------
(* One tender: whatever requests overlap, are cancelled, repeated or lose  *)
(* their answer, the client who paid by card was not charged in cash, and  *)
(* a card checkout that is open to be paid can be found by its webhook.    *)
OneTender ==
    /\ session.state = "paid" => sale.tender # "CASH" /\ attempt.session
    /\ sale.tender = "CASH" => ~(session.state = "open" /\ session.url)

(* The recorded card sale is for the amount the client was charged, though *)
(* the catalog changed between the first request and its repetitions.      *)
RecordedAsCharged ==
    sale.tender = "CARD" => session.state = "paid" /\ sale.total = session.amount

\* What the run checks of the counter: one tender, recorded as it was charged.
CounterSafe == CounterTypeOK /\ OneTender /\ RecordedAsCharged
=============================================================================
