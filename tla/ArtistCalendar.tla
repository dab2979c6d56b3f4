--------------------------- MODULE ArtistCalendar ---------------------------
(***************************************************************************)
(* The calendar of one artist who is scheduled by Maia itself: legacy      *)
(* holds, bookings made by staff and by the receptionist, deposits,        *)
(* rescheduling, time off and bookable hours.                              *)
(*                                                                         *)
(* Every transaction that takes the artist row lock is one action: they    *)
(* exclude each other.  A request that reads before its transaction is two *)
(* actions, and the copy it took is kept in "request".                     *)
(*                                                                         *)
(* Time is cut into units; a period is start <= t < finish.  A hold may    *)
(* run out at any moment, except that the hold of a Connect checkout (32   *)
(* minutes) outlives its payment session (31 minutes).                     *)
(***************************************************************************)
EXTENDS Naturals, FiniteSets

CONSTANTS
    Appts,          \* appointment ids
    Starts,         \* start times that are asked for
    Durations,      \* durations of the services
    Extras,         \* extra time a reschedule request may add, 0 for none
    MaxLength,      \* no appointment grows beyond this (24 hours)
    OpeningHours,   \* the bookable hours the artist may set: sets of units
    TimeOffs,       \* periods of time off that are asked for
    Providers,      \* deposit providers of the services
    ConnectEnabled, \* MAIA_STRIPE_CONNECT_ENABLED
    MaxRevision     \* bound on schedule revisions, for model checking

ASSUME TimesAreUnits ==
    /\ Starts \subseteq Nat /\ Durations \subseteq Nat \ {0} /\ Extras \subseteq Nat
    /\ MaxLength \in Nat /\ MaxRevision \in Nat
    /\ TimeOffs \subseteq [start : Nat, finish : Nat]
ASSUME ProvidersKnown == Providers \subseteq {"STRIPE", "VENMO_MANUAL"} /\ ConnectEnabled \in BOOLEAN

VARIABLES
    appt,     \* the appointment rows
    payment,  \* the deposit payment of each: [kind, status]
    session,  \* the provider's payment session behind it
    hours,    \* bookable units of the artist
    timeOff,  \* time-off periods
    request,  \* one request per appointment that has read and not yet written
    view,     \* what a staff browser shows of the appointment: {} or one copy
    unchecked \* history: confirmed by the legacy webhook, without a slot check

vars == <<appt, payment, session, hours, timeOff, request, view, unchecked>>

Statuses == {"NONE", "TENTATIVE", "PAYMENT_PENDING", "CONFIRMED", "COMPLETED", "CANCELLED",
             "PAYMENT_RECEIVED_SLOT_UNAVAILABLE"}
Appointments ==
    [status : Statuses, start : Nat, finish : Nat, hold : {"none", "active", "expired"},
     deposit : BOOLEAN, depositStatus : {"PENDING", "PAID", "WAIVED"},
     provider : {"STRIPE", "VENMO_MANUAL"}, scheduling : {"INTERNAL", "none"}, revision : Nat]
Payments == [kind : {"none", "connect", "legacy", "venmo"},
             status : {"NONE", "PENDING", "PAID", "EXPIRED"}]
Requests == [step : {"idle", "confirm", "deposit", "legacy"}, start : Nat, finish : Nat]
Views == [revision : Nat, start : Nat, finish : Nat]

CalendarTypeOK ==
    /\ appt \in [Appts -> Appointments]
    /\ payment \in [Appts -> Payments]
    /\ session \in [Appts -> {"none", "open", "paid", "expired"}]
    /\ hours \in OpeningHours /\ timeOff \subseteq TimeOffs
    /\ request \in [Appts -> Requests]
    /\ view \in [Appts -> SUBSET Views]
    /\ unchecked \subseteq Appts

Idle == [step |-> "idle", start |-> 0, finish |-> 0]
NoAppointment ==
    [status |-> "NONE", start |-> 0, finish |-> 0, hold |-> "none", deposit |-> FALSE,
     depositStatus |-> "PENDING", provider |-> "STRIPE", scheduling |-> "none", revision |-> 0]

Init ==
    /\ appt = [a \in Appts |-> NoAppointment]
    /\ payment = [a \in Appts |-> [kind |-> "none", status |-> "NONE"]]
    /\ session = [a \in Appts |-> "none"]
    /\ hours \in OpeningHours /\ timeOff = {}
    /\ request = [a \in Appts |-> Idle]
    /\ view = [a \in Appts |-> {}]
    /\ unchecked = {}

-----------------------------------------------------------------------------
(* The availability check.                                                  *)

Apart(p, q) == p.finish <= q.start \/ q.finish <= p.start

\* Rows that keep their period from everybody else: an unpaid appointment only
\* while a checkout holds it.
Blocking(row) ==
    \/ row.status \in {"CONFIRMED", "COMPLETED"}
    \/ row.status = "PAYMENT_PENDING" /\ row.hold = "active"
    \/ row.status = "TENTATIVE" /\ row.hold # "expired"

Blocks(a) == Blocking(appt[a])

Internal(a) == appt[a].scheduling = "INTERNAL"

\* Faulty variant: time off is forgotten.
SlotAvailableAnyDay(a, period) ==
    /\ period.start .. (period.finish - 1) \subseteq hours
    /\ \A b \in Appts \ {a} : Blocks(b) => Apart(appt[b], period)

SlotAvailable(a, period) ==
    /\ period.start .. (period.finish - 1) \subseteq hours
    /\ \A b \in Appts \ {a} : Blocks(b) => Apart(appt[b], period)
    /\ \A t \in timeOff : Apart(t, period)

Period(start, length) == [start |-> start, finish |-> start + length]

-----------------------------------------------------------------------------
(* Booking.                                                                 *)

\* A row as it is inserted; without a deposit to wait for it is confirmed.
NewRow(status, period, deposit, provider) ==
    [status |-> status, start |-> period.start, finish |-> period.finish,
     hold |-> IF status = "TENTATIVE" THEN "active" ELSE "none",
     deposit |-> deposit, depositStatus |-> IF status = "CONFIRMED" THEN "WAIVED" ELSE "PENDING",
     provider |-> provider, scheduling |-> IF status = "TENTATIVE" THEN "none" ELSE "INTERNAL",
     revision |-> 0]

Insert(a, status, period, deposit, provider) ==
    /\ appt[a].status = "NONE"
    /\ appt' = [appt EXCEPT ![a] = NewRow(status, period, deposit, provider)]
    /\ UNCHANGED <<payment, session, hours, timeOff, request, view, unchecked>>

\* POST /api/booking/hold: a tentative row that is held for some minutes.
Hold(a, start, length, deposit, provider) ==
    /\ SlotAvailable(a, Period(start, length))
    /\ Insert(a, "TENTATIVE", Period(start, length), deposit, provider)

\* POST /api/calendar, and the receptionist's booking of a service without a
\* deposit.
Book(a, start, length, deposit, provider) ==
    /\ SlotAvailable(a, Period(start, length))
    /\ Insert(a, IF deposit THEN "PAYMENT_PENDING" ELSE "CONFIRMED",
              Period(start, length), deposit, provider)

\* The receptionist offers a slot against a deposit.  Its availability check
\* runs outside any lock, so the slot may be gone when the row is inserted; the
\* row reserves nothing.
OfferForDeposit(a, start, length, provider) ==
    Insert(a, "PAYMENT_PENDING", Period(start, length), TRUE, provider)

\* POST /api/booking/confirm reads the hold ...
ConfirmRead(a) ==
    /\ appt[a].status = "TENTATIVE" /\ appt[a].hold # "expired" /\ ~appt[a].deposit
    /\ request[a].step = "idle"
    /\ request' = [request EXCEPT ![a] = [step |-> "confirm", start |-> appt[a].start,
                                          finish |-> appt[a].finish]]
    /\ UNCHANGED <<appt, payment, session, hours, timeOff, view, unchecked>>

HoldConfirmed(a, free) ==
    /\ request[a].step = "confirm"
    /\ appt' = IF appt[a].status = "TENTATIVE" /\ free
               THEN [appt EXCEPT ![a].status = "CONFIRMED", ![a].depositStatus = "WAIVED",
                                 ![a].hold = "none"]
               ELSE appt
    /\ request' = [request EXCEPT ![a] = Idle]
    /\ UNCHANGED <<payment, session, hours, timeOff, view, unchecked>>

\* Faulty variant: the hold was found valid already, so the slot is not checked.
ConfirmUnchecked(a) == HoldConfirmed(a, TRUE)

\* ... and confirms it in a transaction if the slot is still free.
ConfirmHold(a) == HoldConfirmed(a, SlotAvailable(a, request[a]))

HoldExpires(a) ==
    /\ appt[a].hold = "active"
    /\ appt[a].status = "PAYMENT_PENDING" => session[a] # "open"
    /\ appt' = [appt EXCEPT ![a].hold = "expired"]
    /\ UNCHANGED <<payment, session, hours, timeOff, request, view, unchecked>>

-----------------------------------------------------------------------------
(* Staff.                                                                   *)

\* A browser loads the calendar week.
View(a) ==
    /\ appt[a].status # "NONE"
    /\ view' = [view EXCEPT ![a] = {[revision |-> appt[a].revision, start |-> appt[a].start,
                                     finish |-> appt[a].finish]}]
    /\ UNCHANGED <<appt, payment, session, hours, timeOff, request, unchecked>>

\* A confirmed appointment may move; one that awaits its deposit may only get
\* extra time.
Movable(a, start, extra) ==
    /\ Internal(a)
    /\ \/ appt[a].status = "CONFIRMED"
       \/ appt[a].status = "PAYMENT_PENDING" /\ extra > 0 /\ start = appt[a].start

Moved(a, start, extra) == Period(start, appt[a].finish - appt[a].start + extra)

Rescheduled(a, start, extra, revision) ==
    LET new == Moved(a, start, extra) IN
    /\ Movable(a, start, extra)
    /\ new.finish - new.start <= MaxLength
    /\ \E v \in view[a] : v.revision = appt[a].revision
    /\ SlotAvailable(a, new) /\ ~(start = appt[a].start /\ extra = 0)
    /\ appt[a].revision < MaxRevision
    /\ appt' = [appt EXCEPT ![a].start = new.start, ![a].finish = new.finish,
                            ![a].revision = revision]
    /\ UNCHANGED <<payment, session, hours, timeOff, request, view, unchecked>>

\* PATCH /api/calendar, sent with the revision the browser shows.
Reschedule(a, start, extra) == Rescheduled(a, start, extra, appt[a].revision + 1)

\* DELETE /api/appointments/[id] asks for no status and takes no lock.
Cancel(a) ==
    /\ appt[a].status # "NONE"
    /\ appt' = [appt EXCEPT ![a].status = "CANCELLED", ![a].hold = "none"]
    /\ UNCHANGED <<payment, session, hours, timeOff, request, view, unchecked>>

Complete(a) ==
    /\ appt[a].status = "CONFIRMED"
    /\ appt' = [appt EXCEPT ![a].status = "COMPLETED"]
    /\ UNCHANGED <<payment, session, hours, timeOff, request, view, unchecked>>

AddTimeOff(t) ==
    /\ t \notin timeOff /\ t.start < t.finish
    /\ \A a \in Appts : Blocks(a) => Apart(appt[a], t)
    /\ timeOff' = timeOff \cup {t}
    /\ UNCHANGED <<appt, payment, session, hours, request, view, unchecked>>

RemoveTimeOff(t) ==
    /\ t \in timeOff
    /\ timeOff' = timeOff \ {t}
    /\ UNCHANGED <<appt, payment, session, hours, request, view, unchecked>>

SetHours(h) ==
    /\ hours' = h
    /\ UNCHANGED <<appt, payment, session, timeOff, request, view, unchecked>>

-----------------------------------------------------------------------------
(* Deposits: opening a payment.                                             *)

Open(a, kind) == [payment EXCEPT ![a] = [kind |-> kind, status |-> "PENDING"]]

AwaitsConnectDeposit(a) ==
    /\ ConnectEnabled /\ Internal(a) /\ appt[a].provider = "STRIPE"
    /\ appt[a].status = "PAYMENT_PENDING" /\ appt[a].depositStatus = "PENDING"

NewAttempt(a) ==
    /\ SlotAvailable(a, appt[a])
    /\ appt' = [appt EXCEPT ![a].hold = "active"]
    /\ payment' = Open(a, "connect")
    /\ session' = [session EXCEPT ![a] = "none"]
    /\ UNCHANGED <<hours, timeOff, request, view, unchecked>>

\* Faulty variant: a pending payment is not reused.
ReserveAgain(a) == AwaitsConnectDeposit(a) /\ NewAttempt(a)

\* reserveStudioPayment for a deposit: a pending payment is reused, otherwise
\* the slot is checked and held while the client pays.
Reserve(a) == AwaitsConnectDeposit(a) /\ payment[a].status # "PENDING" /\ NewAttempt(a)

\* studioCheckout creates the session within the time of the hold, stores its
\* id and only then returns its address.
OpenSession(a) ==
    /\ payment[a] = [kind |-> "connect", status |-> "PENDING"]
    /\ session[a] = "none" /\ appt[a].hold = "active"
    /\ session' = [session EXCEPT ![a] = "open"]
    /\ UNCHANGED <<appt, payment, hours, timeOff, request, view, unchecked>>

\* The first Stripe checkout, kept for holds and for deployments without
\* Connect: its session is not bound to the hold.
LegacyCheckout(a) ==
    /\ appt[a].provider = "STRIPE" /\ appt[a].deposit
    /\ ~(ConnectEnabled /\ Internal(a))
    /\ \/ appt[a].status = "TENTATIVE" /\ appt[a].hold # "expired"
       \/ appt[a].status = "PAYMENT_PENDING" /\ appt[a].depositStatus # "PAID"
    /\ payment[a].status \in {"NONE", "EXPIRED"}
    /\ payment' = Open(a, "legacy")
    /\ session' = [session EXCEPT ![a] = "open"]
    /\ UNCHANGED <<appt, hours, timeOff, request, view, unchecked>>

\* The client is told how to pay by Venmo and a pending payment is noted.
RequestVenmo(a) ==
    /\ appt[a].provider = "VENMO_MANUAL"
    /\ appt[a].status = "PAYMENT_PENDING" /\ appt[a].depositStatus # "PAID"
    /\ payment[a].status = "NONE"
    /\ payment' = Open(a, "venmo")
    /\ UNCHANGED <<appt, session, hours, timeOff, request, view, unchecked>>

\* The client pays, or lets the session run out.
ClientPays(a) ==
    /\ session[a] = "open"
    /\ session' = [session EXCEPT ![a] = "paid"]
    /\ UNCHANGED <<appt, payment, hours, timeOff, request, view, unchecked>>

SessionExpires(a) ==
    /\ session[a] = "open"
    /\ session' = [session EXCEPT ![a] = "expired"]
    /\ UNCHANGED <<appt, payment, hours, timeOff, request, view, unchecked>>

-----------------------------------------------------------------------------
(* Deposits: webhooks and the manual confirmation.                          *)

Unavailable == "PAYMENT_RECEIVED_SLOT_UNAVAILABLE"

Paid(a) == [payment EXCEPT ![a].status = "PAID"]

ConnectPays(a, status, depositStatus) ==
    /\ payment[a].kind = "connect" /\ session[a] = "paid" /\ payment[a].status # "PAID"
    /\ payment' = Paid(a)
    /\ appt' = [appt EXCEPT ![a].status = status, ![a].depositStatus = depositStatus, ![a].hold = "none"]
    /\ UNCHANGED <<session, hours, timeOff, request, view, unchecked>>

CanConfirm(a) == appt[a].status = "PAYMENT_PENDING" /\ SlotAvailable(a, appt[a])

\* Connect webhook, checkout.session.completed; a replay finds the payment paid.
ConnectCompleted(a) ==
    ConnectPays(a, CASE CanConfirm(a) -> "CONFIRMED"
                     [] appt[a].status = "CANCELLED" -> "CANCELLED"
                     [] OTHER -> Unavailable, "PAID")

\* Either webhook, checkout.session.expired: the hold is left to run out.
SessionExpiredEvent(a) ==
    /\ session[a] = "expired" /\ payment[a].status = "PENDING"
    /\ payment' = [payment EXCEPT ![a].status = "EXPIRED"]
    /\ UNCHANGED <<appt, session, hours, timeOff, request, view, unchecked>>

\* confirmAppointmentDeposit reads the appointment: called by staff for Venmo
\* and by the legacy webhook for a paid session ...
DepositRead(a) ==
    /\ request[a].step = "idle"
    /\ appt[a].status = "PAYMENT_PENDING" /\ appt[a].depositStatus = "PENDING"
    /\ appt[a].hold # "expired"
    /\ \/ appt[a].provider = "VENMO_MANUAL"
       \/ payment[a] = [kind |-> "legacy", status |-> "PENDING"] /\ session[a] = "paid"
    /\ request' = [request EXCEPT ![a] = [step |-> "deposit", start |-> appt[a].start,
                                          finish |-> appt[a].finish]]
    /\ UNCHANGED <<appt, payment, session, hours, timeOff, view, unchecked>>

Deposited(a) ==
    [appt EXCEPT ![a].status = IF Internal(a) => SlotAvailable(a, appt[a]) THEN "CONFIRMED" ELSE Unavailable,
                 ![a].depositStatus = "PAID", ![a].hold = "none",
                 ![a].start = request[a].start, ![a].finish = request[a].finish]

DepositWritten(a, ok) ==
    /\ request[a].step = "deposit"
    /\ IF ok
       THEN /\ appt' = Deposited(a)
            /\ payment' = [payment EXCEPT ![a].status = "PAID",
                                          ![a].kind = IF @ = "none" THEN "venmo" ELSE @]
       ELSE UNCHANGED <<appt, payment>>
    /\ request' = [request EXCEPT ![a] = Idle]
    /\ UNCHANGED <<session, hours, timeOff, view, unchecked>>

\* ... and commits under the locks: the row is checked again, and the slot for
\* the period it has now, but the period written is the one read before.
DepositCommit(a) ==
    DepositWritten(a, /\ appt[a].status = "PAYMENT_PENDING" /\ appt[a].depositStatus = "PENDING"
                      /\ payment[a].status \in {"NONE", "PENDING"})

\* The legacy webhook sees a paid hold ...
LegacyRead(a) ==
    /\ request[a].step = "idle"
    /\ payment[a].kind = "legacy" /\ session[a] = "paid" /\ appt[a].status = "TENTATIVE"
    /\ request' = [request EXCEPT ![a] = [Idle EXCEPT !.step = "legacy"]]
    /\ UNCHANGED <<appt, payment, session, hours, timeOff, view, unchecked>>

\* ... and confirms it: neither the hold's end nor the slot is looked at.
LegacyConfirm(a) ==
    /\ request[a].step = "legacy"
    /\ payment' = Paid(a)
    /\ IF appt[a].status = "TENTATIVE"
       THEN /\ appt' = [appt EXCEPT ![a].status = "CONFIRMED", ![a].depositStatus = "PAID",
                                    ![a].hold = "none"]
            /\ unchecked' = unchecked \cup {a}
       ELSE UNCHANGED <<appt, unchecked>>
    /\ request' = [request EXCEPT ![a] = Idle]
    /\ UNCHANGED <<session, hours, timeOff, view>>

\* The process serving a request stops between its read and its transaction.
RequestDies(a) ==
    /\ request[a].step # "idle"
    /\ request' = [request EXCEPT ![a] = Idle]
    /\ UNCHANGED <<appt, payment, session, hours, timeOff, view, unchecked>>

-----------------------------------------------------------------------------
Booking(a) ==
    \E start \in Starts, length \in Durations, provider \in Providers :
        \/ \E deposit \in BOOLEAN : \/ Hold(a, start, length, deposit, provider)
                                    \/ Book(a, start, length, deposit, provider)
        \/ OfferForDeposit(a, start, length, provider)

Staff(a) ==
    \/ ConfirmRead(a) \/ ConfirmHold(a)
    \/ View(a) \/ Cancel(a) \/ Complete(a)
    \/ \E start \in Starts, extra \in Extras : Reschedule(a, start, extra)

Deposit(a) ==
    \/ Reserve(a) \/ OpenSession(a) \/ LegacyCheckout(a) \/ RequestVenmo(a)
    \/ ClientPays(a) \/ SessionExpires(a)
    \/ ConnectCompleted(a) \/ SessionExpiredEvent(a)
    \/ DepositRead(a) \/ DepositCommit(a)
    \/ LegacyRead(a) \/ LegacyConfirm(a)

Next ==
    \/ \E a \in Appts : Booking(a) \/ Staff(a) \/ Deposit(a) \/ HoldExpires(a) \/ RequestDies(a)
    \/ \E t \in TimeOffs : AddTimeOff(t) \/ RemoveTimeOff(t)
    \/ \E h \in OpeningHours : SetHours(h)

Spec == Init /\ [][Next]_vars

-----------------------------------------------------------------------------
(* Properties.                                                              *)

Overlap(a, b) == ~Apart(appt[a], appt[b])
Firm(a) == appt[a].status \in {"CONFIRMED", "COMPLETED"}

\* Two rows that block the calendar overlap only if the legacy webhook confirmed
\* one of them: whatever holds expire, checkouts pay late and appointments move,
\* the artist lock and the check keep every other pair apart.
BlocksApart ==
    \A a, b \in Appts \ unchecked : a # b /\ Blocks(a) /\ Blocks(b) => ~Overlap(a, b)

\* Time off and blocking appointments never overlap, whichever came first.
TimeOffRespected ==
    \A a \in Appts \ unchecked, t \in timeOff : Blocks(a) => Apart(appt[a], t)

\* The period a confirmation read earlier, and will check or write, still starts
\* with the appointment and is no longer than it: staff may only have added time.
SnapshotsInside ==
    \A a \in Appts :
        /\ request[a].step = "confirm" /\ appt[a].status = "TENTATIVE"
             => request[a].start = appt[a].start /\ request[a].finish = appt[a].finish
        /\ request[a].step = "deposit" /\ appt[a].status = "PAYMENT_PENDING"
             => request[a].start = appt[a].start /\ request[a].finish <= appt[a].finish
        /\ request[a].step # "idle" => appt[a].status # "NONE"

\* A firm appointment's deposit is settled: paid where the service asks for
\* one, waived where it does not.
FirmMeansSettled ==
    \A a \in Appts : Firm(a) => appt[a].depositStatus = IF appt[a].deposit THEN "PAID" ELSE "WAIVED"

\* Money in the ledger shows on the appointment, whatever became of it: the
\* deposit is paid and the appointment is no longer waiting for it.
PaidIsShown ==
    \A a \in Appts : payment[a].status = "PAID" /\ payment[a].kind # "legacy"
        => /\ appt[a].depositStatus = "PAID"
           /\ appt[a].status \in {"CONFIRMED", "COMPLETED", "CANCELLED", Unavailable}

\* The calendar tells the truth: nobody is booked into time off, a request that
\* read the calendar still means the appointment it read, a firm appointment's
\* deposit is settled, and money in the ledger shows on the appointment.
CalendarSafe == TimeOffRespected /\ SnapshotsInside /\ FirmMeansSettled /\ PaidIsShown

\* No webhook, confirmation or reschedule that was under way brings a cancelled
\* appointment back.
CancelledStaysCancelled ==
    [][\A a \in Appts : appt[a].status = "CANCELLED" => appt'[a].status = "CANCELLED"]_vars

\* Once the client has paid a session no other one is opened for the deposit.
NoSecondCollection ==
    [][\A a \in Appts : session[a] = "paid" => session'[a] = "paid"]_vars

Edit(a) == \E start \in Starts, extra \in Extras : Reschedule(a, start, extra)

\* A confirmation by hand or by the legacy webhook may have written an older
\* end over extra time, under the same revision.
TakenBack(a) == payment[a].status = "PAID" /\ payment[a].kind # "connect"

\* A reschedule request is carried out only on the period its browser shows; the
\* one difference it may have missed is extra time that a deposit took back.
StaleEditsRejected ==
    [][\A a \in Appts : Edit(a) =>
         \E v \in view[a] :
            /\ v.start = appt[a].start
            /\ v.finish = appt[a].finish \/ (TakenBack(a) /\ v.finish > appt[a].finish)]_vars

\* What happened to an appointment is not undone behind anyone's back.
HistoryKept == NoSecondCollection /\ CancelledStaysCancelled /\ StaleEditsRejected

\* NATIVE_CALENDAR.md:11: confirmed appointments and active holds block
\* overlapping intervals.
NoDoubleBooking == \A a, b \in Appts : a # b /\ Firm(a) /\ Firm(b) => ~Overlap(a, b)
=============================================================================
