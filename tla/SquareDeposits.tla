--------------------------- MODULE SquareDeposits ---------------------------
(***************************************************************************)
(* Deposits that clients pay through a Square payment link, and the        *)
(* webhook that turns a completed payment into an appointment of one       *)
(* artist.                                                                 *)
(*                                                                         *)
(* An offered appointment reserves nothing: several clients may hold links *)
(* for the same time and the first deposit wins it.  The webhook handler   *)
(* is cut where it awaits the database or Square, except that a            *)
(* transaction's writes are one step; "hook" holds the handlers that run.  *)
(* Square repeats an event until it is answered and may repeat it later,   *)
(* events of one payment arrive in any order, and a handler may stop       *)
(* anywhere.                                                               *)
(***************************************************************************)
EXTENDS Naturals, FiniteSets

CONSTANTS
    Appts,     \* appointment ids
    Hooks,     \* webhook handlers that may run at once
    Starts,    \* start times that are offered
    Durations, \* durations of the services
    Rows,      \* payment rows an appointment may get, for model checking
    Refusals   \* payment states other than COMPLETED that Square reports

ASSUME TimesAreUnits == Starts \subseteq Nat /\ Durations \subseteq Nat \ {0}
ASSUME RefusalsKnown == Refusals \subseteq {"FAILED", "CANCELED"}

VARIABLES
    appt,          \* the appointment rows
    ledger,        \* the payment rows of each: their status
    connection,    \* the artist's Square connection
    hook,          \* the webhook handlers
    link,          \* Square: the payment link and order of each appointment
    answered,      \* Square: appointments whose completed payment was answered
    held,          \* Square: appointments it holds a booking for
    unasked,       \* history: paid when the artist was disconnected from Square
    confirmations  \* confirmations sent to the client

vars == <<appt, ledger, connection, hook, link, answered, held, unasked, confirmations>>

Pending == "PAYMENT_PENDING"
Unavailable == "PAYMENT_RECEIVED_SLOT_UNAVAILABLE"
\* Staff write CANCELLED, the webhook writes CANCELED.
Cancelled == {"CANCELLED", "CANCELED"}

Appointments ==
    [status : {"NONE", Pending, "CONFIRMED", Unavailable} \cup Cancelled,
     start : Nat, finish : Nat, scheduling : {"INTERNAL", "SQUARE"},
     booking : {"none", "booked"}, deposit : {"PENDING", "PAID"}]
PaymentStatuses == {"NONE", "PENDING", "PAID", "FAILED", "CANCELED"}
NoRow == "no row"
Losers == [appt : Appts, row : Rows \cup {NoRow}, step : {"link", "no link", "payment", "appointment"}]
Handlers ==
    [step : {"search", "book", "claim", "commit", "ledger", "mark", "select", "losers"},
     appt : Appts, row : Rows, booking : {"none", "booked"}, losers : SUBSET Losers]
Idle == [step |-> "idle"]

SquareTypeOK ==
    /\ appt \in [Appts -> Appointments]
    /\ ledger \in [Appts -> [Rows -> PaymentStatuses]]
    /\ connection \in {"CONNECTED", "DISCONNECTED"}
    /\ hook \in [Hooks -> Handlers \cup {Idle}]
    /\ link \in [Appts -> {"none", "open", "paid", "deleted"}]
    /\ answered \subseteq Appts /\ held \subseteq Appts /\ unasked \subseteq Appts
    /\ confirmations \in [Appts -> Nat]

NoAppointment ==
    [status |-> "NONE", start |-> 0, finish |-> 0, scheduling |-> "INTERNAL",
     booking |-> "none", deposit |-> "PENDING"]

Init ==
    /\ appt = [a \in Appts |-> NoAppointment]
    /\ ledger = [a \in Appts |-> [r \in Rows |-> "NONE"]]
    /\ connection \in {"CONNECTED", "DISCONNECTED"}
    /\ hook = [h \in Hooks |-> Idle]
    /\ link = [a \in Appts |-> "none"]
    /\ answered = {} /\ held = {} /\ unasked = {}
    /\ confirmations = [a \in Appts |-> 0]

-----------------------------------------------------------------------------
(* Offers, links and staff.                                                 *)

Apart(p, q) == p.finish <= q.start \/ q.finish <= p.start

FreeAtSquare(a) == \A b \in held : Apart(appt[b], appt[a])

Insert(a, start, length, scheduling, booking) ==
    /\ appt[a].status = "NONE"
    /\ appt' = [appt EXCEPT ![a] =
                  [status |-> Pending, start |-> start, finish |-> start + length,
                   scheduling |-> scheduling, booking |-> booking, deposit |-> "PENDING"]]

\* createBookingHold for a service with a deposit: availability was looked up
\* before, and nothing is reserved.
Offer(a, start, length) ==
    /\ Insert(a, start, length,
              IF connection = "CONNECTED" THEN "SQUARE" ELSE "INTERNAL", "none")
    /\ UNCHANGED <<ledger, connection, hook, link, answered, held, unasked, confirmations>>

\* An approved quote is booked at Square before its deposit is asked for.
OfferBooked(a, start, length) ==
    /\ connection = "CONNECTED"
    /\ Insert(a, start, length, "SQUARE", "booked")
    /\ \A b \in held : Apart(appt[b], appt'[a])
    /\ held' = held \cup {a}
    /\ UNCHANGED <<ledger, connection, hook, link, answered, unasked, confirmations>>

\* createDepositRequest: a pending payment is reused; otherwise Square is asked
\* for the link with a key that is the appointment's, and a row is inserted.
RequestLink(a, r) ==
    /\ appt[a].status = Pending /\ appt[a].deposit # "PAID" /\ connection = "CONNECTED"
    /\ \A s \in Rows : ledger[a][s] # "PENDING"
    /\ ledger[a][r] = "NONE"
    /\ ledger' = [ledger EXCEPT ![a][r] = "PENDING"]
    /\ link' = [link EXCEPT ![a] = IF @ = "none" THEN "open" ELSE @]
    /\ UNCHANGED <<appt, connection, hook, answered, held, unasked, confirmations>>

\* DELETE /api/appointments/[id].
Cancel(a) ==
    /\ appt[a].status # "NONE"
    /\ appt' = [appt EXCEPT ![a].status = "CANCELLED"]
    /\ UNCHANGED <<ledger, connection, hook, link, answered, held, unasked, confirmations>>

Connect ==
    /\ connection' = "CONNECTED"
    /\ UNCHANGED <<appt, ledger, hook, link, answered, held, unasked, confirmations>>

Disconnect ==
    /\ connection' = "DISCONNECTED"
    /\ UNCHANGED <<appt, ledger, hook, link, answered, held, unasked, confirmations>>

-----------------------------------------------------------------------------
(* The client at Square.                                                    *)

ClientPays(a) ==
    /\ link[a] = "open"
    /\ link' = [link EXCEPT ![a] = "paid"]
    /\ UNCHANGED <<appt, ledger, connection, hook, answered, held, unasked, confirmations>>

-----------------------------------------------------------------------------
(* The webhook: a completed payment.                                        *)

\* Every row of an appointment has the order of its one link: any may be found.
Found(a, r) == ledger[a][r] # "NONE"

AsksSquare(a) == appt[a].booking = "none" /\ connection = "CONNECTED"

\* The handler looks up the payment and copies the appointment.
Begin(h, a, r) ==
    /\ hook[h] = Idle /\ link[a] = "paid" /\ Found(a, r)
    /\ hook' = [hook EXCEPT ![h] =
                  [step |-> IF appt[a].status # Pending THEN "ledger"
                            ELSE IF AsksSquare(a) THEN "search" ELSE "claim",
                   appt |-> a, row |-> r, booking |-> appt[a].booking, losers |-> {}]]
    /\ unasked' = IF /\ appt[a].scheduling = "SQUARE" /\ appt[a].booking = "none"
                     /\ connection = "DISCONNECTED"
                  THEN unasked \cup {a} ELSE unasked
    /\ UNCHANGED <<appt, ledger, connection, link, answered, held, confirmations>>

Receive(h, a, r) == a \notin answered /\ Begin(h, a, r)

ReceiveAgain(h, a, r) == a \in answered /\ Begin(h, a, r)

At(h, step) == hook[h].step = step
Mine(h) == hook[h].appt
MyRow(h) == appt[hook[h].appt]
Go(h, step) == hook' = [hook EXCEPT ![h].step = step]
Answer(h) == hook' = [hook EXCEPT ![h] = Idle] /\ answered' = answered \cup {Mine(h)}

\* createBooking first searches for exactly this time.  The search, or a check
\* before it, may fail for other reasons too.
Search(h) ==
    /\ At(h, "search")
    /\ \/ FreeAtSquare(Mine(h)) /\ Go(h, "book")
       \/ Go(h, "ledger")
    /\ UNCHANGED <<appt, ledger, connection, link, answered, held, unasked, confirmations>>

Booked(h) == hook' = [hook EXCEPT ![h].step = "claim", ![h].booking = "booked"]

BookingAnswered(h, refusal) ==
    /\ At(h, "book")
    /\ \/ Mine(h) \in held /\ Booked(h) /\ UNCHANGED held
       \/ /\ Mine(h) \notin held /\ FreeAtSquare(Mine(h))
          /\ held' = held \cup {Mine(h)}
          /\ Booked(h) \/ Go(h, "ledger")
       \/ Go(h, refusal) /\ UNCHANGED held
    /\ UNCHANGED <<appt, ledger, connection, link, answered, unasked, confirmations>>

\* Faulty variant: a refused booking does not keep the row from being confirmed.
BookAnyway(h) == BookingAnswered(h, "claim")

\* The booking has a key that is the appointment's.  Square may refuse it, and
\* its answer may be lost after the booking was made.
Book(h) == BookingAnswered(h, "ledger")

\* Rows that stand against a row that is scheduled by Maia: only confirmed ones,
\* and one that ends as this one starts is counted.
Meets(p, q) == p.start < q.finish /\ p.finish >= q.start
Conflict(a) == \E b \in Appts \ {a} : appt[b].status = "CONFIRMED" /\ Meets(appt[b], appt[a])

\* pg_advisory_xact_lock on the artist and the start time.
Locked(h) ==
    \E g \in Hooks \ {h} : At(g, "commit") /\ MyRow(g).start = MyRow(h).start

ClaimIf(h, free) ==
    /\ At(h, "claim") /\ MyRow(h).scheduling = "INTERNAL" /\ free
    /\ Go(h, IF Conflict(Mine(h)) THEN "ledger" ELSE "commit")
    /\ UNCHANGED <<appt, ledger, connection, link, answered, held, unasked, confirmations>>

\* Faulty variant: no lock.
ClaimUnlocked(h) == ClaimIf(h, TRUE)

\* A row scheduled by Maia waits for the lock and checks for conflicts.
Claim(h) == ClaimIf(h, ~Locked(h))

Paid(h) == [ledger EXCEPT ![Mine(h)][hook[h].row] = "PAID"]

CommitRow(h, ok) ==
    /\ \/ At(h, "commit")
       \/ At(h, "claim") /\ MyRow(h).scheduling = "SQUARE"
    /\ ledger' = Paid(h)
    /\ IF ok
       THEN /\ appt' = [appt EXCEPT ![Mine(h)].status = "CONFIRMED", ![Mine(h)].deposit = "PAID",
                                    ![Mine(h)].booking = hook[h].booking]
            /\ Go(h, "select")
       ELSE UNCHANGED appt /\ Go(h, "ledger")
    /\ UNCHANGED <<connection, link, answered, held, unasked, confirmations>>

\* Faulty variant: the update is not restricted to rows that are still pending.
CommitBlindly(h) == CommitRow(h, TRUE)

\* The transaction's updates; the row may have changed since it was copied.
Commit(h) == CommitRow(h, MyRow(h).status = Pending)

\* No confirmation: the payment is recorded ...
Ledger(h) ==
    /\ At(h, "ledger")
    /\ ledger' = Paid(h) /\ Go(h, "mark")
    /\ UNCHANGED <<appt, connection, link, answered, held, unasked, confirmations>>

MarkedIf(h, change) ==
    /\ At(h, "mark")
    /\ appt' = IF change
               THEN [appt EXCEPT ![Mine(h)].status = Unavailable, ![Mine(h)].deposit = "PAID"]
               ELSE appt
    /\ Answer(h)
    /\ UNCHANGED <<ledger, connection, link, held, unasked, confirmations>>

\* ... and then the appointment is marked, in a statement of its own.
Mark(h) == MarkedIf(h, MyRow(h).status = Pending)

-----------------------------------------------------------------------------
(* The webhook: clients who lost the slot, and the confirmation.            *)

Competing(a) == {b \in Appts \ {a} : appt[b].status = Pending /\ Meets(appt[b], appt[a])}

PendingRows(b) ==
    IF \E r \in Rows : ledger[b][r] = "PENDING"
    THEN {r \in Rows : ledger[b][r] = "PENDING"} ELSE {NoRow}

\* Unpaid appointments that overlap are read with their pending payments.
SelectLosers(h) ==
    /\ At(h, "select")
    /\ hook' = [hook EXCEPT ![h].step = "losers", ![h].losers =
          {l \in Losers : /\ l.appt \in Competing(Mine(h)) /\ l.row \in PendingRows(l.appt)
                          /\ l.step = IF connection = "CONNECTED" /\ l.row # NoRow
                                      THEN "link" ELSE "no link"}]
    /\ UNCHANGED <<appt, ledger, connection, link, answered, held, unasked, confirmations>>

\* The losers are handled one after the other.
Current(h, l, steps) ==
    /\ At(h, "losers") /\ l \in hook[h].losers /\ l.step \in steps
    /\ \A m \in hook[h].losers \ {l} : m.step \in {"link", "no link"}

Advance(h, l, step) ==
    hook' = [hook EXCEPT ![h].losers = (@ \ {l}) \cup {[l EXCEPT !.step = step]}]

\* The link is deleted at Square; a failure is only logged.
DeleteLink(h, l) ==
    /\ Current(h, l, {"link"})
    /\ link' \in {link, [link EXCEPT ![l.appt] = IF @ = "open" THEN "deleted" ELSE @]}
    /\ Advance(h, l, "payment")
    /\ UNCHANGED <<appt, ledger, connection, answered, held, unasked, confirmations>>

\* The payment row is cancelled, whatever became of it since it was read.
CancelPayment(h, l) ==
    /\ Current(h, l, {"no link", "payment"})
    /\ ledger' = IF l.row = NoRow THEN ledger ELSE [ledger EXCEPT ![l.appt][l.row] = "CANCELED"]
    /\ Advance(h, l, "appointment")
    /\ UNCHANGED <<appt, connection, link, answered, held, unasked, confirmations>>

LoserBecomes(h, l, status) ==
    /\ Current(h, l, {"appointment"})
    /\ appt' = IF appt[l.appt].status = Pending
               THEN [appt EXCEPT ![l.appt].status = status] ELSE appt
    /\ hook' = [hook EXCEPT ![h].losers = @ \ {l}]
    /\ UNCHANGED <<ledger, connection, link, answered, held, unasked, confirmations>>

CancelLoser(h, l) == LoserBecomes(h, l, "CANCELED")

\* The client is told, and the event is answered.
Confirm(h) ==
    /\ At(h, "losers") /\ hook[h].losers = {}
    /\ confirmations' = [confirmations EXCEPT ![Mine(h)] = @ + 1]
    /\ Answer(h)
    /\ UNCHANGED <<appt, ledger, connection, link, held, unasked>>

-----------------------------------------------------------------------------
(* The webhook: other events, and failures.                                 *)

\* An earlier attempt to pay failed or was cancelled: that is written over
\* whatever the row says.
RefusalEvent(a, r, status) ==
    /\ Found(a, r) /\ ledger[a][r] # status
    /\ ledger' = [ledger EXCEPT ![a][r] = status]
    /\ UNCHANGED <<appt, connection, hook, link, answered, held, unasked, confirmations>>

\* The process, or a call the handler does not catch, fails: no answer.
HookDies(h) ==
    /\ hook[h] # Idle
    /\ hook' = [hook EXCEPT ![h] = Idle]
    /\ UNCHANGED <<appt, ledger, connection, link, answered, held, unasked, confirmations>>

-----------------------------------------------------------------------------
Client(a) ==
    \/ \E start \in Starts, length \in Durations :
           Offer(a, start, length) \/ OfferBooked(a, start, length)
    \/ \E r \in Rows : RequestLink(a, r)
    \/ Cancel(a) \/ ClientPays(a)
    \/ \E r \in Rows, status \in Refusals : RefusalEvent(a, r, status)

Progress(h) ==
    \/ Search(h) \/ Book(h) \/ Claim(h) \/ Commit(h) \/ Ledger(h) \/ Mark(h) \/ SelectLosers(h)
    \/ \E l \in Losers : DeleteLink(h, l) \/ CancelPayment(h, l) \/ CancelLoser(h, l)
    \/ Confirm(h)

Webhook(h) ==
    \/ \E a \in Appts, r \in Rows : Receive(h, a, r) \/ ReceiveAgain(h, a, r)
    \/ Progress(h) \/ HookDies(h)

Next ==
    \/ \E a \in Appts : Client(a)
    \/ Connect \/ Disconnect
    \/ \E h \in Hooks : Webhook(h)

Spec == Init /\ [][Next]_vars

-----------------------------------------------------------------------------
(* Properties.                                                              *)

IsConfirmed(a) == appt[a].status = "CONFIRMED"

\* Two confirmed appointments that Square schedules never overlap, whichever
\* deposits race and whatever Square answers; an appointment whose payment came
\* while the artist was disconnected is not checked by anybody.
SquareRowsApart ==
    \A a, b \in Appts \ unasked :
        /\ a # b /\ IsConfirmed(a) /\ IsConfirmed(b)
        /\ appt[a].scheduling = "SQUARE" /\ appt[b].scheduling = "SQUARE"
        => Apart(appt[a], appt[b])

\* Of the appointments that Maia schedules for one start time the deposits
\* confirm one.
SameStartOnce ==
    \A a, b \in Appts :
        /\ a # b /\ IsConfirmed(a) /\ IsConfirmed(b)
        /\ appt[a].scheduling = "INTERNAL" /\ appt[b].scheduling = "INTERNAL"
        => appt[a].start # appt[b].start

\* Events that are repeated, or handled twice at once, do not confirm an
\* appointment to its client twice.
ConfirmedOnce == \A a \in Appts : confirmations[a] <= 1

\* A deposit that arrives late, or a race that is lost, does not bring a
\* cancelled appointment back.
CancelledStays ==
    [][\A a \in Appts : appt[a].status \in Cancelled => appt'[a].status \in Cancelled]_vars

\* Square stops repeating a payment only when the appointment shows it, confirmed
\* or kept for a refund, or was cancelled before.
Decided(a) ==
    \/ appt[a].status \in Cancelled
    \/ appt[a].status \in {"CONFIRMED", Unavailable} /\ appt[a].deposit = "PAID"

AnsweredIsDecided == \A a \in answered : Decided(a)

\* Repeated events confirm no appointment twice, and none is left undecided.
DepositsDecided == ConfirmedOnce /\ AnsweredIsDecided
=============================================================================
