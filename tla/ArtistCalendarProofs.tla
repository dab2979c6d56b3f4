------------------------ MODULE ArtistCalendarProofs ------------------------
(***************************************************************************)
(* Proofs about the calendar of one artist, for any number of              *)
(* appointments, periods and offers.                                       *)
(***************************************************************************)
EXTENDS ArtistCalendar, TLAPS

\* Every period ends after it starts.
Ordered == \A a \in Appts : appt[a].start <= appt[a].finish /\ request[a].start <= request[a].finish

\* Deposits are awaited only by rows of Maia's own scheduling.
UnpaidNative ==
    \A a \in Appts : appt[a].status = "PAYMENT_PENDING" => Internal(a)

CalendarInv == CalendarTypeOK /\ Ordered /\ UnpaidNative /\ SnapshotsInside /\ BlocksApart /\ TimeOffRespected

\* A period that a keeps from the checked appointments and from time off.
Clear(a, start, finish) ==
    /\ \A b \in (Appts \ unchecked) \ {a} :
         Blocks(b) => appt[b].finish <= start \/ finish <= appt[b].start
    /\ \A t \in timeOff : t.finish <= start \/ finish <= t.start

LEMMA AvailableIsClear ==
    ASSUME NEW a \in Appts, NEW p, SlotAvailable(a, p)
    PROVE  Clear(a, p.start, p.finish)
BY DEF SlotAvailable, Clear, Apart

LEMMA BlockedIsClear ==
    ASSUME NEW a \in Appts \ unchecked, Blocks(a), BlocksApart, TimeOffRespected
    PROVE  Clear(a, appt[a].start, appt[a].finish)
BY DEF BlocksApart, TimeOffRespected, Overlap, Clear, Apart

\* Only appointment a changes, and if it blocks its period lies in a clear one.
LEMMA OneRowMoves ==
    ASSUME BlocksApart, TimeOffRespected, timeOff \subseteq TimeOffs, timeOff' = timeOff,
           appt \in [Appts -> Appointments], appt' \in [Appts -> Appointments],
           unchecked \subseteq unchecked',
           NEW a \in Appts, \A b \in Appts \ {a} : appt'[b] = appt[b],
           NEW start \in Nat, NEW finish \in Nat,
           Blocks(a)' /\ a \notin unchecked'
             => Clear(a, start, finish) /\ start <= appt'[a].start /\ appt'[a].finish <= finish
    PROVE  BlocksApart' /\ TimeOffRespected'
<1>1. \A b \in Appts : /\ appt[b].start \in Nat /\ appt[b].finish \in Nat
                       /\ appt'[b].start \in Nat /\ appt'[b].finish \in Nat
  BY DEF Appointments
<1>2. \A t \in timeOff : t.start \in Nat /\ t.finish \in Nat
  BY TimesAreUnits
<1>3. \A b \in Appts \ {a} : Blocks(b)' <=> Blocks(b)
  BY DEF Blocks
<1>4. ASSUME Blocks(a)', a \notin unchecked', NEW b \in (Appts \ unchecked') \ {a}, Blocks(b)
      PROVE  appt'[b].finish <= appt'[a].start \/ appt'[a].finish <= appt'[b].start
  BY <1>1, <1>4 DEF Clear
<1>5. ASSUME Blocks(a)', a \notin unchecked', NEW t \in timeOff
      PROVE  t.finish <= appt'[a].start \/ appt'[a].finish <= t.start
  BY <1>1, <1>2, <1>5 DEF Clear
<1>6. BlocksApart'
  BY <1>3, <1>4 DEF BlocksApart, Overlap, Apart
<1>7. TimeOffRespected'
  BY <1>3, <1>5 DEF TimeOffRespected, Apart
<1> QED BY <1>6, <1>7

\* The calendar stays as it is.
LEMMA RowsKept ==
    ASSUME CalendarInv, UNCHANGED <<appt, timeOff, unchecked>>
    PROVE  BlocksApart' /\ TimeOffRespected'
BY DEF CalendarInv, BlocksApart, TimeOffRespected, Overlap, Apart, Blocks

-----------------------------------------------------------------------------
(* Rows.                                                                    *)

LEMMA InsertedRow ==
    ASSUME NEW start \in Nat, NEW length \in Nat, NEW status \in Statuses,
           NEW deposit \in BOOLEAN, NEW provider \in Providers, NEW row,
           row = NewRow(status, Period(start, length), deposit, provider)
    PROVE  /\ row \in Appointments /\ row.status = status
           /\ row.start = start /\ row.finish = start + length
           /\ row.status = "PAYMENT_PENDING" => row.scheduling = "INTERNAL"
<1> DEFINE finish == start + length
           hold == IF status = "TENTATIVE" THEN "active" ELSE "none"
           waived == IF status = "CONFIRMED" THEN "WAIVED" ELSE "PENDING"
           scheduling == IF status = "TENTATIVE" THEN "none" ELSE "INTERNAL"
<1>1. finish \in Nat /\ 0 \in Nat
  OBVIOUS
<1>2. row = [status |-> status, start |-> start, finish |-> finish, hold |-> hold,
             deposit |-> deposit, depositStatus |-> waived,
             provider |-> provider, scheduling |-> scheduling, revision |-> 0]
  BY Zenon DEF NewRow, Period
<1>3. /\ provider \in {"STRIPE", "VENMO_MANUAL"} /\ scheduling \in {"INTERNAL", "none"}
      /\ hold \in {"none", "active", "expired"} /\ waived \in {"PENDING", "PAID", "WAIVED"}
  BY ProvidersKnown
<1>6. status = "PAYMENT_PENDING" => row.scheduling = "INTERNAL"
  BY <1>2
<1> HIDE DEF finish, hold, waived, scheduling
<1>4. row \in Appointments
  BY <1>1, <1>2, <1>3 DEF Appointments
<1>5. row.status = status /\ row.start = start /\ row.finish = finish
  BY <1>2
<1> QED BY <1>4, <1>5, <1>6 DEF finish

LEMMA InsertKeeps ==
    ASSUME CalendarInv, NEW a \in Appts, NEW start \in Nat, NEW length \in Nat,
           NEW status \in Statuses, NEW deposit \in BOOLEAN, NEW provider \in Providers,
           Insert(a, status, Period(start, length), deposit, provider),
           status # "PAYMENT_PENDING" => SlotAvailable(a, Period(start, length))
    PROVE  CalendarInv'
<1> USE DEF CalendarInv
<1> DEFINE row == NewRow(status, Period(start, length), deposit, provider)
<1>1. /\ row \in Appointments /\ row.status = status
      /\ row.start = start /\ row.finish = start + length
      /\ row.status = "PAYMENT_PENDING" => row.scheduling = "INTERNAL"
  BY InsertedRow
<1>2. /\ appt' = [appt EXCEPT ![a] = row] /\ appt[a].status = "NONE"
      /\ UNCHANGED <<payment, session, hours, timeOff, request, view, unchecked>>
  BY DEF Insert
<1>3. status = "PAYMENT_PENDING" => row.hold = "none"
  BY DEF NewRow
<1> HIDE DEF row
<1>4. CalendarTypeOK'
  BY <1>1, <1>2 DEF CalendarTypeOK
<1>5. appt'[a] = row /\ \A b \in Appts \ {a} : appt'[b] = appt[b]
  BY <1>2 DEF CalendarTypeOK
<1>6. Ordered' /\ UnpaidNative'
  BY <1>1, <1>2, <1>5 DEF Ordered, UnpaidNative, Internal
<1>7. SnapshotsInside'
  BY <1>2, <1>5 DEF SnapshotsInside
<1>8. Blocks(a)' => Clear(a, start, start + length)
  BY <1>1, <1>3, <1>5, AvailableIsClear DEF Blocks, Blocking, Period
<1>9. BlocksApart' /\ TimeOffRespected'
  <2>1. start + length \in Nat
    OBVIOUS
  <2> QED BY <1>1, <1>2, <1>4, <1>5, <1>8, <2>1, OneRowMoves DEF CalendarTypeOK
<1> QED BY <1>4, <1>6, <1>7, <1>9

\* An operation writes row to appointment a.  Its period may only be checked
\* anew, kept or cut; an appointment that waits for its deposit keeps its start
\* and is not cut.
LEMMA UpdateKeeps ==
    ASSUME CalendarInv, NEW a \in Appts, NEW row \in Appointments,
           appt' = [appt EXCEPT ![a] = row],
           CalendarTypeOK', timeOff' = timeOff, unchecked \subseteq unchecked',
           \/ request' = request
           \/ request' = [request EXCEPT ![a] = Idle],
           row.start <= row.finish, row.status = "NONE" => appt[a].status = "NONE",
           row.status = "PAYMENT_PENDING"
             => /\ appt[a].status = "PAYMENT_PENDING" /\ row.scheduling = appt[a].scheduling
                /\ row.start = appt[a].start /\ appt[a].finish <= row.finish,
           row.status = "TENTATIVE"
             => /\ appt[a].status = "TENTATIVE"
                /\ row.start = appt[a].start /\ appt[a].finish = row.finish,
           NEW start \in Nat, NEW finish \in Nat,
           Blocking(row) /\ a \notin unchecked'
             => Clear(a, start, finish) /\ start <= row.start /\ row.finish <= finish
    PROVE  CalendarInv'
<1> USE DEF CalendarInv
<1>1. appt'[a] = row /\ \A b \in Appts \ {a} : appt'[b] = appt[b]
  BY DEF CalendarTypeOK
<1>2. \A b \in Appts : request'[b] = request[b] \/ (b = a /\ request'[b] = Idle)
  BY DEF CalendarTypeOK
<1>3. Ordered' /\ UnpaidNative'
  BY <1>1, <1>2 DEF Ordered, UnpaidNative, Internal, Idle
<1>4. SnapshotsInside'
  <2>1. \A b \in Appts : /\ appt[b].start \in Nat /\ appt[b].finish \in Nat
                         /\ request[b].start \in Nat /\ request[b].finish \in Nat
    BY DEF CalendarTypeOK, Appointments, Requests
  <2>2. row.start \in Nat /\ row.finish \in Nat
    BY DEF Appointments
  <2>3. Idle.step = "idle"
    BY DEF Idle
  <2> QED BY <1>1, <1>2, <2>1, <2>2, <2>3 DEF SnapshotsInside
<1>5. BlocksApart' /\ TimeOffRespected'
  <2>1. Blocks(a)' <=> Blocking(row)
    BY <1>1 DEF Blocks
  <2> QED BY <1>1, <2>1, OneRowMoves DEF CalendarTypeOK
<1> QED BY <1>3, <1>4, <1>5

\* Nothing but a request changes: it reads the row, or is done.
LEMMA RequestKeeps ==
    ASSUME CalendarInv, NEW a \in Appts, NEW step \in {"idle", "confirm", "deposit", "legacy"},
           UNCHANGED <<appt, hours, timeOff, view, unchecked>>,
           payment' \in [Appts -> Payments],
           session' \in [Appts -> {"none", "open", "paid", "expired"}],
           \/ request' = [request EXCEPT ![a] = Idle]
           \/ /\ appt[a].status # "NONE"
              /\ request' = [request EXCEPT ![a] = [step |-> step, start |-> appt[a].start,
                                                    finish |-> appt[a].finish]]
           \/ /\ appt[a].status # "NONE" /\ step = "legacy"
              /\ request' = [request EXCEPT ![a] = [Idle EXCEPT !.step = step]]
    PROVE  CalendarInv'
<1> USE DEF CalendarInv
<1>1. \A b \in Appts : appt[b].start \in Nat /\ appt[b].finish \in Nat
  BY DEF CalendarTypeOK, Appointments
<1>2. PICK r \in Requests :
        /\ request' = [request EXCEPT ![a] = r]
        /\ \/ r.step = "idle" /\ r.start = 0 /\ r.finish = 0
           \/ appt[a].status # "NONE" /\ r.start = appt[a].start /\ r.finish = appt[a].finish
           \/ appt[a].status # "NONE" /\ r.step = "legacy" /\ r.start = 0 /\ r.finish = 0
  <2>1. /\ Idle \in Requests /\ Idle.step = "idle" /\ Idle.start = 0 /\ Idle.finish = 0
        /\ [Idle EXCEPT !.step = "legacy"] \in Requests
        /\ [step |-> step, start |-> appt[a].start, finish |-> appt[a].finish] \in Requests
    BY <1>1 DEF Idle, Requests
  <2>2. /\ [Idle EXCEPT !.step = "legacy"].step = "legacy"
        /\ [Idle EXCEPT !.step = "legacy"].start = 0 /\ [Idle EXCEPT !.step = "legacy"].finish = 0
    BY DEF Idle
  <2> QED BY <2>1, <2>2
<1>3. CalendarTypeOK'
  BY <1>2 DEF CalendarTypeOK
<1>4. request'[a] = r /\ \A b \in Appts \ {a} : request'[b] = request[b]
  BY <1>2 DEF CalendarTypeOK
<1>5. Ordered' /\ UnpaidNative'
  BY <1>2, <1>4 DEF Ordered, UnpaidNative, Internal
<1>6. SnapshotsInside'
  BY <1>1, <1>2, <1>4 DEF SnapshotsInside
<1>7. BlocksApart' /\ TimeOffRespected'
  BY RowsKept
<1> QED BY <1>3, <1>5, <1>6, <1>7

\* Only payments, sessions, hours or views change.
LEMMA BesideKeeps ==
    ASSUME CalendarInv, CalendarTypeOK', UNCHANGED <<appt, timeOff, request, unchecked>>
    PROVE  CalendarInv'
<1>1. Ordered' /\ UnpaidNative' /\ SnapshotsInside'
  BY DEF CalendarInv, Ordered, UnpaidNative, Internal, SnapshotsInside
<1> QED BY <1>1, RowsKept DEF CalendarInv

-----------------------------------------------------------------------------
(* The operations.                                                          *)

\* Booking inserts rows that wait for a deposit or lie in an available slot.
LEMMA BookingKeeps ==
    ASSUME CalendarInv, NEW a \in Appts, Booking(a) PROVE CalendarInv'
<1>1. PICK start \in Starts, length \in Durations, provider \in Providers :
        \/ \E deposit \in BOOLEAN : \/ Hold(a, start, length, deposit, provider)
                                    \/ Book(a, start, length, deposit, provider)
        \/ OfferForDeposit(a, start, length, provider)
  BY DEF Booking
<1>2. start \in Nat /\ length \in Nat
  BY TimesAreUnits
<1>3. {"TENTATIVE", "PAYMENT_PENDING", "CONFIRMED"} \subseteq Statuses /\ TRUE \in BOOLEAN
  BY DEF Statuses
<1>4. CASE \E deposit \in BOOLEAN : Hold(a, start, length, deposit, provider)
  BY <1>2, <1>3, <1>4, InsertKeeps DEF Hold
<1>5. CASE \E deposit \in BOOLEAN : Book(a, start, length, deposit, provider)
  <2>1. PICK deposit \in BOOLEAN : Book(a, start, length, deposit, provider)
    BY <1>5
  <2>2. CASE deposit
    <3>1. Insert(a, "PAYMENT_PENDING", Period(start, length), deposit, provider)
      BY <2>1, <2>2 DEF Book
    <3> QED BY <1>2, <1>3, <3>1, InsertKeeps
  <2>3. CASE ~deposit
    <3>1. /\ Insert(a, "CONFIRMED", Period(start, length), deposit, provider)
          /\ SlotAvailable(a, Period(start, length))
      BY <2>1, <2>3 DEF Book
    <3> QED BY <1>2, <1>3, <3>1, InsertKeeps
  <2> QED BY <2>2, <2>3
<1>6. CASE OfferForDeposit(a, start, length, provider)
  BY <1>2, <1>3, <1>6, InsertKeeps DEF OfferForDeposit
<1> QED BY <1>1, <1>4, <1>5, <1>6

\* An appointment keeps its period; its status and hold change.
LEMMA StatusKeeps ==
    ASSUME CalendarInv, NEW a \in Appts, NEW status \in Statuses,
           NEW hold \in {"none", "active", "expired"}, NEW ds \in {"PENDING", "PAID", "WAIVED"},
           appt' = [appt EXCEPT ![a].status = status, ![a].depositStatus = ds, ![a].hold = hold],
           payment' \in [Appts -> Payments],
           session' \in [Appts -> {"none", "open", "paid", "expired"}],
           UNCHANGED <<hours, timeOff, view>>,
           unchecked \subseteq unchecked', unchecked' \subseteq Appts,
           \/ request' = request
           \/ request' = [request EXCEPT ![a] = Idle],
           status \in {"NONE", "PAYMENT_PENDING", "TENTATIVE"} => appt[a].status = status,
           \/ a \in unchecked'
           \/ status \notin {"TENTATIVE", "PAYMENT_PENDING", "CONFIRMED", "COMPLETED"}
           \/ status \in {"TENTATIVE", "PAYMENT_PENDING"} /\ hold = "expired"
           \/ Blocks(a)
           \/ SlotAvailable(a, appt[a])
    PROVE  CalendarInv'
<1> DEFINE start == appt[a].start
           finish == appt[a].finish
           row == [appt[a] EXCEPT !.status = status, !.depositStatus = ds, !.hold = hold]
<1>1. start \in Nat /\ finish \in Nat /\ appt[a] \in Appointments /\ start <= finish
  BY DEF CalendarInv, CalendarTypeOK, Appointments, Ordered
<1>2. /\ row \in Appointments /\ row.status = status /\ row.hold = hold
      /\ row.start = start /\ row.finish = finish /\ row.scheduling = appt[a].scheduling
  BY <1>1 DEF Appointments
<1>3. appt' = [appt EXCEPT ![a] = row]
  BY DEF CalendarInv, CalendarTypeOK
<1> HIDE DEF row
<1>4. Idle \in Requests
  BY DEF Idle, Requests
<1>5. CalendarTypeOK'
  <2>1. CalendarTypeOK
    BY DEF CalendarInv
  <2>2. appt' \in [Appts -> Appointments]
    BY <1>2, <1>3, <2>1, ZenonT(40) DEF CalendarTypeOK
  <2>3. request' \in [Appts -> Requests]
    BY <1>4, <2>1 DEF CalendarTypeOK
  <2> QED BY <2>1, <2>2, <2>3 DEF CalendarTypeOK
<1>6. Blocking(row) /\ a \notin unchecked' => Clear(a, start, finish)
  BY <1>2, AvailableIsClear, BlockedIsClear DEF CalendarInv, CalendarTypeOK, Blocking
<1> HIDE DEF start, finish
<1>7. /\ row.start <= row.finish /\ start <= row.start /\ row.finish <= finish
      /\ row.start = appt[a].start /\ appt[a].finish = row.finish /\ appt[a].finish <= row.finish
  BY <1>1, <1>2 DEF start, finish
<1>8. /\ row.status = "NONE" => appt[a].status = "NONE"
      /\ row.status = "PAYMENT_PENDING" => appt[a].status = "PAYMENT_PENDING" /\ row.scheduling = appt[a].scheduling
      /\ row.status = "TENTATIVE" => appt[a].status = "TENTATIVE"
  BY <1>2
<1>9. start \in Nat /\ finish \in Nat
  BY <1>1
<1>10. Blocking(row) /\ a \notin unchecked'
         => Clear(a, start, finish) /\ start <= row.start /\ row.finish <= finish
  BY <1>6, <1>7
<1> QED BY <1>2, <1>3, <1>5, <1>7, <1>8, <1>9, <1>10, UpdateKeeps

\* Writing a field its own value changes nothing.
LEMMA SameFields ==
    ASSUME appt \in [Appts -> Appointments], NEW a \in Appts, NEW status, NEW hold
    PROVE  /\ [appt EXCEPT ![a].hold = hold]
                = [appt EXCEPT ![a].status = appt[a].status,
                               ![a].depositStatus = appt[a].depositStatus, ![a].hold = hold]
           /\ [appt EXCEPT ![a].status = status, ![a].hold = hold]
                = [appt EXCEPT ![a].status = status,
                               ![a].depositStatus = appt[a].depositStatus, ![a].hold = hold]
           /\ [appt EXCEPT ![a].status = status]
                = [appt EXCEPT ![a].status = status,
                               ![a].depositStatus = appt[a].depositStatus, ![a].hold = appt[a].hold]
BY DEF Appointments

LEMMA FieldTypes ==
    ASSUME CalendarInv, NEW a \in Appts
    PROVE  /\ appt \in [Appts -> Appointments] /\ appt[a].status \in Statuses
           /\ appt[a].hold \in {"none", "active", "expired"}
           /\ appt[a].depositStatus \in {"PENDING", "PAID", "WAIVED"}
           /\ payment \in [Appts -> Payments]
           /\ session \in [Appts -> {"none", "open", "paid", "expired"}]
           /\ unchecked \subseteq Appts
BY DEF CalendarInv, CalendarTypeOK, Appointments

LEMMA ExpiryKeeps ==
    ASSUME CalendarInv, NEW a \in Appts, HoldExpires(a) PROVE CalendarInv'
<1>1. /\ appt' = [appt EXCEPT ![a].status = appt[a].status,
                              ![a].depositStatus = appt[a].depositStatus, ![a].hold = "expired"]
      /\ UNCHANGED <<payment, session, hours, timeOff, request, view, unchecked>>
  BY FieldTypes, SameFields DEF HoldExpires
<1>2. \/ appt[a].status \notin {"TENTATIVE", "PAYMENT_PENDING", "CONFIRMED", "COMPLETED"}
      \/ appt[a].status \in {"TENTATIVE", "PAYMENT_PENDING"}
      \/ Blocks(a)
  BY DEF Blocks, Blocking
<1> QED BY <1>1, <1>2, FieldTypes, StatusKeeps

LEMMA CancelKeeps ==
    ASSUME CalendarInv, NEW a \in Appts, Cancel(a) PROVE CalendarInv'
<1>1. /\ appt' = [appt EXCEPT ![a].status = "CANCELLED",
                              ![a].depositStatus = appt[a].depositStatus, ![a].hold = "none"]
      /\ UNCHANGED <<payment, session, hours, timeOff, request, view, unchecked>>
  BY FieldTypes, SameFields, ZenonT(40) DEF Cancel
<1>2. /\ "CANCELLED" \in Statuses /\ payment' = payment /\ session' = session
      /\ request' = request /\ unchecked' = unchecked /\ UNCHANGED <<hours, timeOff, view>>
      /\ "CANCELLED" \notin {"NONE", "TENTATIVE", "PAYMENT_PENDING", "CONFIRMED", "COMPLETED"}
  BY <1>1 DEF Statuses
<1> QED BY <1>1, <1>2, FieldTypes, StatusKeeps, ZenonT(40)

LEMMA CompleteKeeps ==
    ASSUME CalendarInv, NEW a \in Appts, Complete(a) PROVE CalendarInv'
<1>1. /\ appt' = [appt EXCEPT ![a].status = "COMPLETED",
                              ![a].depositStatus = appt[a].depositStatus, ![a].hold = appt[a].hold]
      /\ UNCHANGED <<payment, session, hours, timeOff, request, view, unchecked>>
  BY FieldTypes, SameFields DEF Complete
<1>2. "COMPLETED" \in Statuses /\ Blocks(a)
  BY DEF Statuses, Complete, Blocks, Blocking
<1> QED BY <1>1, <1>2, FieldTypes, StatusKeeps, ZenonT(40)

\* The confirmation of a hold checks the period it read, which is still the row's.
LEMMA ConfirmKeeps ==
    ASSUME CalendarInv, NEW a \in Appts, ConfirmHold(a) PROVE CalendarInv'
<1>1. UNCHANGED <<payment, session, hours, timeOff, view, unchecked>>
      /\ request' = [request EXCEPT ![a] = Idle] /\ request[a].step = "confirm"
  BY DEF ConfirmHold, HoldConfirmed
<1>2. CASE appt[a].status = "TENTATIVE" /\ SlotAvailable(a, request[a])
  <2>1. appt' = [appt EXCEPT ![a].status = "CONFIRMED", ![a].depositStatus = "WAIVED", ![a].hold = "none"]
    BY <1>2 DEF ConfirmHold, HoldConfirmed
  <2>2. SlotAvailable(a, appt[a])
    BY <1>1, <1>2 DEF CalendarInv, SnapshotsInside, SlotAvailable, Apart
  <2>3. "CONFIRMED" \in Statuses
    BY DEF Statuses
  <2> QED BY <1>1, <2>1, <2>2, <2>3, FieldTypes, StatusKeeps, ZenonT(40)
<1>3. CASE ~(appt[a].status = "TENTATIVE" /\ SlotAvailable(a, request[a]))
  <2>1. appt' = appt
    BY <1>3 DEF ConfirmHold, HoldConfirmed
  <2>2. "idle" \in {"idle", "confirm", "deposit", "legacy"} /\ payment' = payment /\ session' = session
    BY <1>1
  <2> QED BY <1>1, <2>1, <2>2, FieldTypes, RequestKeeps
<1> QED BY <1>2, <1>3

\* A new checkout holds a slot it has checked.
LEMMA ReserveKeeps ==
    ASSUME CalendarInv, NEW a \in Appts, Reserve(a) PROVE CalendarInv'
<1>1. /\ appt' = [appt EXCEPT ![a].status = appt[a].status,
                              ![a].depositStatus = appt[a].depositStatus, ![a].hold = "active"]
      /\ SlotAvailable(a, appt[a])
      /\ UNCHANGED <<hours, timeOff, request, view, unchecked>>
  BY FieldTypes, SameFields DEF Reserve, NewAttempt
<1>2. payment' \in [Appts -> Payments] /\ session' \in [Appts -> {"none", "open", "paid", "expired"}]
  BY FieldTypes DEF Reserve, NewAttempt, Open, Payments
<1> QED BY <1>1, <1>2, FieldTypes, StatusKeeps

\* A Connect payment confirms only into a slot that is still free.
LEMMA ConnectKeeps ==
    ASSUME CalendarInv, NEW a \in Appts, ConnectCompleted(a) PROVE CalendarInv'
<1> DEFINE status == CASE CanConfirm(a) -> "CONFIRMED"
                       [] appt[a].status = "CANCELLED" -> "CANCELLED"
                       [] OTHER -> Unavailable
<1>1. /\ appt' = [appt EXCEPT ![a].status = status, ![a].depositStatus = "PAID", ![a].hold = "none"]
      /\ UNCHANGED <<session, hours, timeOff, request, view, unchecked>>
  BY DEF ConnectCompleted, ConnectPays
<1>2. payment' \in [Appts -> Payments]
  BY FieldTypes DEF ConnectCompleted, ConnectPays, Paid, Payments
<1>3. \/ status = "CONFIRMED" /\ SlotAvailable(a, appt[a])
      \/ status \in {"CANCELLED", "PAYMENT_RECEIVED_SLOT_UNAVAILABLE"}
  BY DEF CanConfirm, Unavailable
<1>4. status \in Statuses
  BY <1>3 DEF Statuses
<1> HIDE DEF status
<1> QED BY <1>1, <1>2, <1>3, <1>4, FieldTypes, StatusKeeps

\* The legacy webhook confirms without a check, and is on record for it.
LEMMA LegacyKeeps ==
    ASSUME CalendarInv, NEW a \in Appts, LegacyConfirm(a) PROVE CalendarInv'
<1>1. /\ UNCHANGED <<session, hours, timeOff, view>>
      /\ request' = [request EXCEPT ![a] = Idle] /\ payment' = Paid(a)
  BY DEF LegacyConfirm
<1>2. payment' \in [Appts -> Payments]
  BY <1>1, FieldTypes DEF Paid, Payments
<1>3. CASE appt[a].status = "TENTATIVE"
  <2>1. /\ appt' = [appt EXCEPT ![a].status = "CONFIRMED", ![a].depositStatus = "PAID", ![a].hold = "none"]
        /\ unchecked' = unchecked \cup {a}
    BY <1>3 DEF LegacyConfirm
  <2>2. "CONFIRMED" \in Statuses
    BY DEF Statuses
  <2> QED BY <1>1, <1>2, <2>1, <2>2, FieldTypes, StatusKeeps
<1>4. CASE appt[a].status # "TENTATIVE"
  <2>1. UNCHANGED <<appt, unchecked>>
    BY <1>4 DEF LegacyConfirm
  <2> QED BY <1>1, <1>2, <2>1, FieldTypes, RequestKeeps
<1> QED BY <1>3, <1>4

\* A deposit confirmation checks the row's period and writes the one it read,
\* which lies inside it.
LEMMA DepositKeeps ==
    ASSUME CalendarInv, NEW a \in Appts, DepositCommit(a) PROVE CalendarInv'
<1>1. /\ UNCHANGED <<session, hours, timeOff, view, unchecked>>
      /\ request' = [request EXCEPT ![a] = Idle] /\ request[a].step = "deposit"
  BY DEF DepositCommit, DepositWritten
<1>2. CASE UNCHANGED <<appt, payment>>
  BY <1>1, <1>2, FieldTypes, RequestKeeps
<1>3. CASE /\ appt[a].status = "PAYMENT_PENDING" /\ appt' = Deposited(a)
           /\ payment' = [payment EXCEPT ![a].status = "PAID",
                                         ![a].kind = IF @ = "none" THEN "venmo" ELSE @]
  <2> DEFINE status == IF Internal(a) => SlotAvailable(a, appt[a]) THEN "CONFIRMED" ELSE Unavailable
             row == [appt[a] EXCEPT !.status = status, !.depositStatus = "PAID", !.hold = "none",
                                    !.start = request[a].start, !.finish = request[a].finish]
  <2>1. status \in Statuses /\ status \in {"CONFIRMED", "PAYMENT_RECEIVED_SLOT_UNAVAILABLE"}
    BY DEF Unavailable, Statuses
  <2>2. appt' = [appt EXCEPT ![a] = row]
    BY <1>3, FieldTypes DEF Deposited
  <2>3. /\ request[a].start \in Nat /\ request[a].finish \in Nat /\ appt[a] \in Appointments
        /\ appt[a].start \in Nat /\ appt[a].finish \in Nat
        /\ request[a].start <= request[a].finish
        /\ request[a].start = appt[a].start /\ request[a].finish <= appt[a].finish
    BY <1>1, <1>3 DEF CalendarInv, CalendarTypeOK, Requests, Appointments, Ordered, SnapshotsInside
  <2>4. status = "CONFIRMED" => SlotAvailable(a, appt[a])
    BY <1>3 DEF Unavailable, CalendarInv, UnpaidNative
  <2> HIDE DEF status
  <2>5. /\ row \in Appointments /\ row.status = status
        /\ row.start = request[a].start /\ row.finish = request[a].finish
    <3> DEFINE start == request[a].start
               finish == request[a].finish
               was == appt[a]
    <3>1. /\ "PAID" \in {"PENDING", "PAID", "WAIVED"} /\ "none" \in {"none", "active", "expired"}
          /\ was \in Appointments /\ start \in Nat /\ finish \in Nat
      BY <2>3
    <3>2. row = [was EXCEPT !.status = status, !.depositStatus = "PAID", !.hold = "none",
                            !.start = start, !.finish = finish]
      OBVIOUS
    <3> HIDE DEF row, was, start, finish
    <3>3. /\ row \in Appointments /\ row.status = status
          /\ row.start = start /\ row.finish = finish
      BY <2>1, <3>1, <3>2 DEF Appointments
    <3> QED BY <3>3 DEF start, finish
  <2> HIDE DEF row
  <2>6. CalendarTypeOK'
    <3>1. payment' \in [Appts -> Payments]
      BY <1>3, FieldTypes DEF Payments
    <3>2. request' \in [Appts -> Requests]
      BY <1>1 DEF CalendarInv, CalendarTypeOK, Idle, Requests
    <3>3. appt' \in [Appts -> Appointments]
      BY <2>2, <2>5, FieldTypes
    <3> QED BY <1>1, <3>1, <3>2, <3>3 DEF CalendarInv, CalendarTypeOK
  <2>7. Blocking(row) => Clear(a, appt[a].start, appt[a].finish)
    BY <2>1, <2>4, <2>5, AvailableIsClear DEF Blocking
  <2>8. /\ row.start <= row.finish /\ appt[a].start <= row.start /\ row.finish <= appt[a].finish
        /\ row.status \notin {"NONE", "PAYMENT_PENDING", "TENTATIVE"}
    BY <2>1, <2>3, <2>5
  <2> QED BY <1>1, <2>2, <2>3, <2>5, <2>6, <2>7, <2>8, UpdateKeeps
<1> QED BY <1>2, <1>3 DEF DepositCommit, DepositWritten

\* A reschedule writes a period it has checked; without a deposit yet, only a
\* longer one.
LEMMA RescheduleKeeps ==
    ASSUME CalendarInv, NEW a \in Appts, NEW start \in Starts, NEW extra \in Extras,
           Reschedule(a, start, extra)
    PROVE  CalendarInv'
<1> DEFINE finish == start + (appt[a].finish - appt[a].start + extra)
           revision == appt[a].revision + 1
           row == [appt[a] EXCEPT !.start = start, !.finish = finish, !.revision = revision]
<1>1. /\ appt[a] \in Appointments /\ start \in Nat /\ extra \in Nat
      /\ appt[a].start \in Nat /\ appt[a].finish \in Nat /\ appt[a].start <= appt[a].finish
      /\ appt[a].revision \in Nat
  BY TimesAreUnits DEF CalendarInv, CalendarTypeOK, Ordered, Appointments
<1>2. finish \in Nat /\ start <= finish /\ revision \in Nat
  BY <1>1
<1>3. start = appt[a].start => appt[a].finish <= finish
  BY <1>1
<1>4. /\ Moved(a, start, extra).start = start /\ Moved(a, start, extra).finish = finish
      /\ SlotAvailable(a, Moved(a, start, extra))
      /\ UNCHANGED <<payment, session, hours, timeOff, request, view, unchecked>>
      /\ appt[a].status = "PAYMENT_PENDING" => start = appt[a].start
      /\ appt[a].status \in {"CONFIRMED", "PAYMENT_PENDING"}
  BY DEF Reschedule, Rescheduled, Moved, Period, Movable
<1>5. appt' = [appt EXCEPT ![a] = row]
  BY <1>4, FieldTypes DEF Reschedule, Rescheduled
<1>6. Clear(a, start, finish)
  BY <1>4, AvailableIsClear
<1> HIDE DEF finish, revision
<1>7. /\ row \in Appointments /\ row.status = appt[a].status /\ row.start = start /\ row.finish = finish
      /\ row.scheduling = appt[a].scheduling
  BY <1>1, <1>2 DEF Appointments
<1> HIDE DEF row
<1>8. CalendarTypeOK'
  <2>1. appt' \in [Appts -> Appointments]
    BY <1>5, <1>7, FieldTypes
  <2> QED BY <1>4, <2>1 DEF CalendarInv, CalendarTypeOK
<1>9. /\ row.start <= row.finish /\ start <= row.start /\ row.finish <= finish
      /\ timeOff' = timeOff /\ unchecked' = unchecked /\ request' = request
  BY <1>1, <1>2, <1>4, <1>7
<1>10. row.status \notin {"NONE", "TENTATIVE"}
  BY <1>4, <1>7
<1>11. row.status = "PAYMENT_PENDING"
         => /\ appt[a].status = "PAYMENT_PENDING" /\ row.scheduling = appt[a].scheduling
            /\ row.start = appt[a].start /\ appt[a].finish <= row.finish
  BY <1>3, <1>4, <1>7
<1> QED BY <1>1, <1>2, <1>5, <1>6, <1>7, <1>8, <1>9, <1>10, <1>11, UpdateKeeps

\* Time off is only added where no appointment blocks.
LEMMA TimeOffKeeps ==
    ASSUME CalendarInv, NEW t \in TimeOffs, AddTimeOff(t) \/ RemoveTimeOff(t)
    PROVE  CalendarInv'
<1> USE DEF CalendarInv
<1>1. UNCHANGED <<appt, payment, session, hours, request, view, unchecked>>
  BY DEF AddTimeOff, RemoveTimeOff
<1>2. CalendarTypeOK'
  BY <1>1 DEF CalendarTypeOK, AddTimeOff, RemoveTimeOff
<1>3. Ordered' /\ UnpaidNative' /\ SnapshotsInside' /\ BlocksApart'
  BY <1>1 DEF Ordered, UnpaidNative, Internal, SnapshotsInside, BlocksApart, Overlap, Apart, Blocks
<1>4. TimeOffRespected'
  <2>1. \A a \in Appts : Blocks(a)' <=> Blocks(a)
    BY <1>1 DEF Blocks
  <2>2. \A a \in Appts \ unchecked, u \in timeOff' : Blocks(a) => Apart(appt[a], u)
    <3>1. CASE AddTimeOff(t)
      BY <3>1 DEF AddTimeOff, TimeOffRespected
    <3>2. CASE RemoveTimeOff(t)
      BY <3>2 DEF RemoveTimeOff, TimeOffRespected
    <3> QED BY <3>1, <3>2
  <2> QED BY <1>1, <2>1, <2>2 DEF TimeOffRespected, Apart
<1> QED BY <1>2, <1>3, <1>4

\* The remaining operations leave the rows, the blocks and the requests alone,
\* or only take or drop a copy of a row.
LEMMA ReadKeeps ==
    ASSUME CalendarInv, NEW a \in Appts,
           ConfirmRead(a) \/ DepositRead(a) \/ LegacyRead(a) \/ RequestDies(a)
    PROVE  CalendarInv'
<1>1. /\ UNCHANGED <<appt, hours, timeOff, view, unchecked>>
      /\ payment' = payment /\ session' = session
  BY DEF ConfirmRead, DepositRead, LegacyRead, RequestDies
<1>2. CASE ConfirmRead(a)
  BY <1>1, <1>2, FieldTypes, RequestKeeps DEF ConfirmRead
<1>3. CASE DepositRead(a)
  BY <1>1, <1>3, FieldTypes, RequestKeeps DEF DepositRead
<1>4. CASE LegacyRead(a)
  BY <1>1, <1>4, FieldTypes, RequestKeeps DEF LegacyRead
<1>5. CASE RequestDies(a)
  BY <1>1, <1>5, FieldTypes, RequestKeeps DEF RequestDies
<1> QED BY <1>2, <1>3, <1>4, <1>5

LEMMA PaymentKeeps ==
    ASSUME CalendarInv, NEW a \in Appts,
           \/ OpenSession(a) \/ LegacyCheckout(a) \/ RequestVenmo(a) \/ ClientPays(a)
           \/ SessionExpires(a) \/ SessionExpiredEvent(a)
    PROVE  CalendarInv'
<1>1. UNCHANGED <<appt, hours, timeOff, request, view, unchecked>>
  BY DEF OpenSession, LegacyCheckout, RequestVenmo, ClientPays, SessionExpires, SessionExpiredEvent
<1>2. payment' \in [Appts -> Payments]
  BY FieldTypes DEF OpenSession, LegacyCheckout, RequestVenmo, ClientPays, SessionExpires,
                    SessionExpiredEvent, Open, Payments
<1>3. session' \in [Appts -> {"none", "open", "paid", "expired"}]
  BY FieldTypes DEF OpenSession, LegacyCheckout, RequestVenmo, ClientPays, SessionExpires,
                    SessionExpiredEvent
<1>4. CalendarTypeOK'
  BY <1>1, <1>2, <1>3 DEF CalendarInv, CalendarTypeOK
<1> QED BY <1>1, <1>4, BesideKeeps

LEMMA ViewKeeps ==
    ASSUME CalendarInv, NEW a \in Appts, View(a) PROVE CalendarInv'
<1>1. UNCHANGED <<appt, payment, session, hours, timeOff, request, unchecked>>
  BY DEF View
<1>2. [revision |-> appt[a].revision, start |-> appt[a].start, finish |-> appt[a].finish] \in Views
  BY DEF CalendarInv, CalendarTypeOK, Appointments, Views
<1>3. CalendarTypeOK'
  BY <1>1, <1>2 DEF View, CalendarInv, CalendarTypeOK
<1> QED BY <1>1, <1>3, BesideKeeps

-----------------------------------------------------------------------------
(* The theorems.                                                            *)

LEMMA CalendarInitInv == Init => CalendarInv
<1> SUFFICES ASSUME Init PROVE CalendarInv
  OBVIOUS
<1>1. NoAppointment \in Appointments /\ NoAppointment.status = "NONE"
      /\ NoAppointment.start = 0 /\ NoAppointment.finish = 0
  BY DEF NoAppointment, Appointments, Statuses
<1>2. Idle \in Requests /\ Idle.step = "idle" /\ Idle.start = 0 /\ Idle.finish = 0
  BY DEF Idle, Requests
<1>3. [kind |-> "none", status |-> "NONE"] \in Payments
  BY DEF Payments
<1>4. CalendarTypeOK
  BY <1>1, <1>2, <1>3 DEF Init, CalendarTypeOK
<1>5. \A a \in Appts : appt[a] = NoAppointment /\ request[a] = Idle /\ ~Blocks(a)
  BY <1>1 DEF Init, Blocks, Blocking
<1>6. Ordered /\ UnpaidNative /\ SnapshotsInside
  BY <1>1, <1>2, <1>5 DEF Ordered, UnpaidNative, SnapshotsInside
<1>7. BlocksApart /\ TimeOffRespected
  BY <1>5 DEF BlocksApart, TimeOffRespected
<1> QED BY <1>4, <1>6, <1>7 DEF CalendarInv

LEMMA CalendarStep == CalendarInv /\ [Next]_vars => CalendarInv'
<1> SUFFICES ASSUME CalendarInv, [Next]_vars PROVE CalendarInv'
  OBVIOUS
<1>1. CASE UNCHANGED vars
  <2>1. CalendarTypeOK'
    BY <1>1 DEF vars, CalendarInv, CalendarTypeOK
  <2> QED BY <1>1, <2>1, BesideKeeps DEF vars
<1>2. ASSUME NEW a \in Appts, Staff(a) PROVE CalendarInv'
  BY <1>2, ReadKeeps, ConfirmKeeps, ViewKeeps, CancelKeeps, CompleteKeeps, RescheduleKeeps DEF Staff
<1>3. ASSUME NEW a \in Appts, Deposit(a) PROVE CalendarInv'
  BY <1>3, ReserveKeeps, PaymentKeeps, ConnectKeeps, ReadKeeps, DepositKeeps, LegacyKeeps DEF Deposit
<1>4. ASSUME NEW h \in OpeningHours, SetHours(h) PROVE CalendarInv'
  <2>1. CalendarTypeOK'
    BY <1>4 DEF SetHours, CalendarInv, CalendarTypeOK
  <2> QED BY <1>4, <2>1, BesideKeeps DEF SetHours
<1> QED BY <1>1, <1>2, <1>3, <1>4, BookingKeeps, ExpiryKeeps, ReadKeeps, TimeOffKeeps DEF Next

LEMMA CalendarInvariant == Spec => []CalendarInv
BY CalendarInitInv, CalendarStep, PTL DEF Spec

\* The rows, payments and copies of rows keep their types.
THEOREM CalendarTypeCorrect == Spec => []CalendarTypeOK
<1>1. CalendarInv => CalendarTypeOK
  BY DEF CalendarInv
<1> QED BY <1>1, CalendarInvariant, PTL

\* For any number of appointments and requests, two rows that block the artist's
\* time overlap only after a confirmation by the legacy webhook.
THEOREM NoOverlapUnderTheLock == Spec => []BlocksApart
<1>1. CalendarInv => BlocksApart
  BY DEF CalendarInv
<1> QED BY <1>1, CalendarInvariant, PTL

\* Time off never overlaps a blocking appointment, but for those.
THEOREM TimeOffIsFree == Spec => []TimeOffRespected
<1>1. CalendarInv => TimeOffRespected
  BY DEF CalendarInv
<1> QED BY <1>1, CalendarInvariant, PTL

\* What a confirmation is about to write lies inside the row's own period.
THEOREM SnapshotsStayInside == Spec => []SnapshotsInside
<1>1. CalendarInv => SnapshotsInside
  BY DEF CalendarInv
<1> QED BY <1>1, CalendarInvariant, PTL
-----------------------------------------------------------------------------
(* The ledger and the appointment.  A deposit is looked at row by row: what  *)
(* the kind of a payment, a request under way and an unpaid status each say  *)
(* about the row they belong to.                                             *)

LedgerRow(a) ==
    /\ Firm(a) => appt[a].depositStatus = IF appt[a].deposit THEN "PAID" ELSE "WAIVED"
    /\ payment[a].status = "PAID" /\ payment[a].kind # "legacy"
         => /\ appt[a].depositStatus = "PAID"
            /\ appt[a].status \in {"CONFIRMED", "COMPLETED", "CANCELLED", Unavailable}
    /\ appt[a].status = "PAYMENT_PENDING" => appt[a].deposit
    /\ request[a].step = "confirm" => ~appt[a].deposit
    /\ request[a].step = "legacy" => payment[a].kind = "legacy"
    /\ appt[a].status = "NONE" => payment[a].kind = "none" /\ request[a].step = "idle"
    /\ payment[a].kind = "none" => payment[a].status # "PAID"
    /\ payment[a].kind = "legacy"
         => /\ appt[a].deposit /\ appt[a].provider = "STRIPE"
            /\ ~(ConnectEnabled /\ Internal(a))
    /\ payment[a].kind = "connect" => appt[a].provider = "STRIPE" /\ ConnectEnabled /\ Internal(a)
    /\ request[a].step = "deposit" => appt[a].provider = "VENMO_MANUAL" \/ payment[a].kind = "legacy"

LedgerInv == \A a \in Appts : LedgerRow(a)

\* A step that touches the rows of a alone has to be looked at for a alone.
LEMMA OtherLedgersKept ==
    ASSUME LedgerInv, NEW a \in Appts, LedgerRow(a)',
           \A b \in Appts \ {a} :
             appt'[b] = appt[b] /\ payment'[b] = payment[b] /\ request'[b] = request[b]
    PROVE  LedgerInv'
<1> SUFFICES ASSUME NEW b \in Appts, b # a PROVE LedgerRow(b)'
  BY DEF LedgerInv
<1> QED BY DEF LedgerInv, LedgerRow, Firm, Internal

LEMMA LedgerUntouched ==
    ASSUME LedgerInv, UNCHANGED <<appt, payment, request>>
    PROVE  LedgerInv'
BY DEF LedgerInv, LedgerRow, Firm, Internal

LEMMA InsertLedger ==
    ASSUME CalendarInv, LedgerInv, NEW a \in Appts, NEW period, NEW provider, NEW deposit \in BOOLEAN,
           NEW status \in {"TENTATIVE", "PAYMENT_PENDING", "CONFIRMED"},
           Insert(a, status, period, deposit, provider),
           status = "PAYMENT_PENDING" => deposit, status = "CONFIRMED" => ~deposit
    PROVE  LedgerInv'
<1>1. appt[a].status = "NONE" /\ UNCHANGED <<payment, request>>
      /\ appt' = [appt EXCEPT ![a] = NewRow(status, period, deposit, provider)]
  BY DEF Insert
<1>2. appt'[a] = NewRow(status, period, deposit, provider)
      /\ \A b \in Appts \ {a} : appt'[b] = appt[b]
  BY <1>1 DEF CalendarInv, CalendarTypeOK
<1>3. /\ appt'[a].status = status /\ appt'[a].deposit = deposit
      /\ status = "CONFIRMED" => appt'[a].depositStatus = "WAIVED"
  BY <1>2 DEF NewRow
<1>4. LedgerRow(a)'
  BY <1>1, <1>3 DEF LedgerInv, LedgerRow, Firm
<1> QED BY <1>1, <1>2, <1>4, OtherLedgersKept

LEMMA BookingLedger ==
    ASSUME CalendarInv, LedgerInv, NEW a \in Appts, Booking(a) PROVE LedgerInv'
<1>1. PICK start \in Starts, length \in Durations, provider \in Providers :
        \/ \E deposit \in BOOLEAN : \/ Hold(a, start, length, deposit, provider)
                                    \/ Book(a, start, length, deposit, provider)
        \/ OfferForDeposit(a, start, length, provider)
  BY DEF Booking
<1> DEFINE period == Period(start, length)
<1>2. ASSUME NEW deposit \in BOOLEAN, Hold(a, start, length, deposit, provider) PROVE LedgerInv'
  <2>1. Insert(a, "TENTATIVE", period, deposit, provider)
    BY <1>2 DEF Hold
  <2> QED BY <2>1, InsertLedger
<1>3. ASSUME NEW deposit \in BOOLEAN, Book(a, start, length, deposit, provider) PROVE LedgerInv'
  <2>1. Insert(a, IF deposit THEN "PAYMENT_PENDING" ELSE "CONFIRMED", period, deposit, provider)
    BY <1>3 DEF Book
  <2>2. CASE deposit
    <3>1. Insert(a, "PAYMENT_PENDING", period, deposit, provider)
      BY <2>1, <2>2
    <3> QED BY <2>2, <3>1, InsertLedger
  <2>3. CASE ~deposit
    <3>1. Insert(a, "CONFIRMED", period, deposit, provider)
      BY <2>1, <2>3
    <3> QED BY <2>3, <3>1, InsertLedger
  <2> QED BY <2>2, <2>3
<1>4. ASSUME OfferForDeposit(a, start, length, provider) PROVE LedgerInv'
  <2>1. Insert(a, "PAYMENT_PENDING", period, TRUE, provider)
    BY <1>4 DEF OfferForDeposit
  <2> QED BY <2>1, InsertLedger
<1> QED BY <1>1, <1>2, <1>3, <1>4

LEMMA StaffLedger ==
    ASSUME CalendarInv, LedgerInv, NEW a \in Appts, Staff(a) PROVE LedgerInv'
<1> USE DEF CalendarInv, CalendarTypeOK, Appointments, Requests
<1>1. CASE ConfirmRead(a)
  <2>1. /\ UNCHANGED <<appt, payment>> /\ request'[a].step = "confirm"
        /\ ~appt[a].deposit /\ appt[a].status = "TENTATIVE"
        /\ \A b \in Appts \ {a} : request'[b] = request[b]
    BY <1>1 DEF ConfirmRead
  <2>2. LedgerRow(a)'
    BY <2>1 DEF LedgerInv, LedgerRow, Firm, Internal
  <2> QED BY <2>1, <2>2, OtherLedgersKept
<1>2. CASE ConfirmHold(a)
  <2>1. /\ UNCHANGED payment /\ request[a].step = "confirm" /\ request'[a].step = "idle"
        /\ \A b \in Appts \ {a} : request'[b] = request[b] /\ appt'[b] = appt[b]
        /\ \/ appt' = appt
           \/ /\ appt[a].status = "TENTATIVE"
              /\ appt'[a] = [appt[a] EXCEPT !.status = "CONFIRMED", !.depositStatus = "WAIVED", !.hold = "none"]
    BY <1>2 DEF ConfirmHold, HoldConfirmed, Idle
  <2>2. CASE appt' = appt
    <3>1. LedgerRow(a)'
      BY <2>1, <2>2 DEF LedgerInv, LedgerRow, Firm, Internal
    <3> QED BY <2>1, <3>1, OtherLedgersKept
  <2>3. CASE /\ appt[a].status = "TENTATIVE"
             /\ appt'[a] = [appt[a] EXCEPT !.status = "CONFIRMED", !.depositStatus = "WAIVED", !.hold = "none"]
    <3>1. /\ appt'[a].status = "CONFIRMED" /\ appt'[a].depositStatus = "WAIVED"
          /\ appt'[a].deposit = appt[a].deposit /\ appt'[a].provider = appt[a].provider
          /\ appt'[a].scheduling = appt[a].scheduling
      BY <2>1, <2>3
    <3>2. payment' = payment /\ request'[a].step = "idle" /\ request[a].step = "confirm"
      BY <2>1
    <3>3. ~appt[a].deposit /\ ~(payment[a].status = "PAID" /\ payment[a].kind # "legacy")
          /\ payment[a].kind # "legacy"
      BY <2>3, <3>2 DEF LedgerInv, LedgerRow, Unavailable
    <3>4. LedgerRow(a)'
      BY <3>1, <3>2, <3>3 DEF LedgerInv, LedgerRow, Firm, Internal
    <3> QED BY <2>1, <3>4, OtherLedgersKept
  <2> QED BY <2>1, <2>2, <2>3
<1>3. CASE View(a)
  BY <1>3, LedgerUntouched DEF View
<1>4. CASE Cancel(a) \/ Complete(a)
  <2>1. /\ UNCHANGED <<payment, request>> /\ \A b \in Appts \ {a} : appt'[b] = appt[b]
        /\ \/ appt[a].status # "NONE" /\ appt'[a].status = "CANCELLED"
           \/ appt[a].status = "CONFIRMED" /\ appt'[a].status = "COMPLETED"
        /\ appt'[a].depositStatus = appt[a].depositStatus
        /\ appt'[a].deposit = appt[a].deposit /\ appt'[a].provider = appt[a].provider
        /\ appt'[a].scheduling = appt[a].scheduling
    BY <1>4 DEF Cancel, Complete
  <2>2. LedgerRow(a)'
    BY <2>1 DEF LedgerInv, LedgerRow, Firm, Internal
  <2> QED BY <2>1, <2>2, OtherLedgersKept
<1>5. ASSUME NEW start \in Starts, NEW extra \in Extras, Reschedule(a, start, extra)
      PROVE  LedgerInv'
  <2> DEFINE new == Moved(a, start, extra)
  <2>1. /\ UNCHANGED <<payment, request>> /\ \A b \in Appts \ {a} : appt'[b] = appt[b]
        /\ appt'[a] = [appt[a] EXCEPT !.start = new.start, !.finish = new.finish,
                                      !.revision = appt[a].revision + 1]
    BY <1>5 DEF Reschedule, Rescheduled
  <2> HIDE DEF new
  <2>2. LedgerRow(a)'
    BY <2>1 DEF LedgerInv, LedgerRow, Firm, Internal
  <2> QED BY <2>1, <2>2, OtherLedgersKept
<1> QED BY <1>1, <1>2, <1>3, <1>4, <1>5 DEF Staff

LEMMA OpeningLedger ==
    ASSUME CalendarInv, LedgerInv, NEW a \in Appts,
           \/ Reserve(a) \/ OpenSession(a) \/ LegacyCheckout(a) \/ RequestVenmo(a)
           \/ ClientPays(a) \/ SessionExpires(a) \/ SessionExpiredEvent(a)
    PROVE  LedgerInv'
<1> USE DEF CalendarInv, CalendarTypeOK, Appointments, Payments
<1>1. CASE Reserve(a)
  <2>1. /\ UNCHANGED request /\ AwaitsConnectDeposit(a)
        /\ payment'[a] = [kind |-> "connect", status |-> "PENDING"]
        /\ appt'[a] = [appt[a] EXCEPT !.hold = "active"]
        /\ \A b \in Appts \ {a} : appt'[b] = appt[b] /\ payment'[b] = payment[b]
    BY <1>1 DEF Reserve, NewAttempt, Open
  <2>2. request[a].step # "legacy"
    BY <2>1 DEF LedgerInv, LedgerRow, AwaitsConnectDeposit
  <2>3. LedgerRow(a)'
    BY <2>1, <2>2 DEF LedgerInv, LedgerRow, Firm, Internal, AwaitsConnectDeposit
  <2> QED BY <2>1, <2>3, OtherLedgersKept
<1>2. CASE OpenSession(a) \/ ClientPays(a) \/ SessionExpires(a)
  BY <1>2, LedgerUntouched DEF OpenSession, ClientPays, SessionExpires
<1>3. CASE LegacyCheckout(a)
  <2>1. /\ UNCHANGED <<appt, request>> /\ payment'[a] = [kind |-> "legacy", status |-> "PENDING"]
        /\ appt[a].provider = "STRIPE" /\ appt[a].deposit /\ ~(ConnectEnabled /\ Internal(a))
        /\ appt[a].status # "NONE"
        /\ \A b \in Appts \ {a} : payment'[b] = payment[b]
    BY <1>3 DEF LegacyCheckout, Open
  <2>2. LedgerRow(a)'
    BY <2>1 DEF LedgerInv, LedgerRow, Firm, Internal
  <2> QED BY <2>1, <2>2, OtherLedgersKept
<1>4. CASE RequestVenmo(a)
  <2>1. /\ UNCHANGED <<appt, request>> /\ payment'[a] = [kind |-> "venmo", status |-> "PENDING"]
        /\ appt[a].provider = "VENMO_MANUAL" /\ appt[a].status # "NONE"
        /\ \A b \in Appts \ {a} : payment'[b] = payment[b]
    BY <1>4 DEF RequestVenmo, Open
  <2>2. request[a].step # "legacy"
    BY <2>1 DEF LedgerInv, LedgerRow
  <2>3. LedgerRow(a)'
    BY <2>1, <2>2 DEF LedgerInv, LedgerRow, Firm, Internal
  <2> QED BY <2>1, <2>3, OtherLedgersKept
<1>5. CASE SessionExpiredEvent(a)
  <2>1. /\ UNCHANGED <<appt, request>> /\ payment'[a] = [payment[a] EXCEPT !.status = "EXPIRED"]
        /\ \A b \in Appts \ {a} : payment'[b] = payment[b]
    BY <1>5 DEF SessionExpiredEvent
  <2>2. LedgerRow(a)'
    BY <2>1 DEF LedgerInv, LedgerRow, Firm, Internal
  <2> QED BY <2>1, <2>2, OtherLedgersKept
<1> QED BY <1>1, <1>2, <1>3, <1>4, <1>5

LEMMA ConnectLedger ==
    ASSUME CalendarInv, LedgerInv, NEW a \in Appts, ConnectCompleted(a) PROVE LedgerInv'
<1> USE DEF CalendarInv, CalendarTypeOK, Appointments, Payments
<1> DEFINE status == CASE CanConfirm(a) -> "CONFIRMED"
                       [] appt[a].status = "CANCELLED" -> "CANCELLED"
                       [] OTHER -> Unavailable
<1>1. \/ status = "CONFIRMED" /\ appt[a].status = "PAYMENT_PENDING"
      \/ status \in {"CANCELLED", Unavailable}
  BY DEF CanConfirm
<1>2. /\ UNCHANGED request /\ payment[a].kind = "connect"
      /\ payment'[a] = [payment[a] EXCEPT !.status = "PAID"]
      /\ appt'[a] = [appt[a] EXCEPT !.status = status, !.depositStatus = "PAID", !.hold = "none"]
      /\ \A b \in Appts \ {a} : appt'[b] = appt[b] /\ payment'[b] = payment[b]
  BY DEF ConnectCompleted, ConnectPays, Paid
<1> HIDE DEF status
<1>3. LedgerRow(a)'
  BY <1>1, <1>2 DEF LedgerInv, LedgerRow, Firm, Internal, Unavailable
<1> QED BY <1>2, <1>3, OtherLedgersKept

LEMMA DepositLedger ==
    ASSUME CalendarInv, LedgerInv, NEW a \in Appts, DepositCommit(a) PROVE LedgerInv'
<1> USE DEF CalendarInv, CalendarTypeOK, Appointments, Payments, Requests
<1>1. /\ request'[a].step = "idle" /\ \A b \in Appts \ {a} : request'[b] = request[b]
  BY DEF DepositCommit, DepositWritten, Idle
<1>2. CASE UNCHANGED <<appt, payment>>
  <2>1. LedgerRow(a)'
    BY <1>1, <1>2 DEF LedgerInv, LedgerRow, Firm, Internal
  <2> QED BY <1>1, <1>2, <2>1, OtherLedgersKept
<1>3. CASE /\ appt[a].status = "PAYMENT_PENDING" /\ appt' = Deposited(a)
           /\ payment' = [payment EXCEPT ![a].status = "PAID",
                                         ![a].kind = IF @ = "none" THEN "venmo" ELSE @]
  <2>1. /\ payment'[a].kind = IF payment[a].kind = "none" THEN "venmo" ELSE payment[a].kind
        /\ \A b \in Appts \ {a} : payment'[b] = payment[b]
    BY <1>3
  <2>2. PICK status \in {"CONFIRMED", Unavailable} :
          appt' = [appt EXCEPT ![a].status = status, ![a].depositStatus = "PAID", ![a].hold = "none",
                               ![a].start = request[a].start, ![a].finish = request[a].finish]
    BY <1>3 DEF Deposited
  <2>3. /\ appt'[a] = [appt[a] EXCEPT !.status = status, !.depositStatus = "PAID", !.hold = "none",
                               !.start = request[a].start, !.finish = request[a].finish]
        /\ \A b \in Appts \ {a} : appt'[b] = appt[b]
    BY <2>2
  <2>4. LedgerRow(a)'
    BY <1>1, <1>3, <2>1, <2>3 DEF LedgerInv, LedgerRow, Firm, Internal, Unavailable
  <2> QED BY <1>1, <2>1, <2>3, <2>4, OtherLedgersKept
<1> QED BY <1>2, <1>3 DEF DepositCommit, DepositWritten

LEMMA LegacyLedger ==
    ASSUME CalendarInv, LedgerInv, NEW a \in Appts, LegacyConfirm(a) PROVE LedgerInv'
<1> USE DEF CalendarInv, CalendarTypeOK, Appointments, Payments, Requests
<1>1. /\ request[a].step = "legacy" /\ request'[a].step = "idle"
      /\ payment'[a] = [payment[a] EXCEPT !.status = "PAID"]
      /\ \A b \in Appts \ {a} :
           appt'[b] = appt[b] /\ payment'[b] = payment[b] /\ request'[b] = request[b]
      /\ \/ appt' = appt
         \/ appt'[a] = [appt[a] EXCEPT !.status = "CONFIRMED", !.depositStatus = "PAID", !.hold = "none"]
  BY DEF LegacyConfirm, Paid, Idle
<1>2. payment[a].kind = "legacy" /\ appt[a].deposit
  BY <1>1 DEF LedgerInv, LedgerRow
<1>3. CASE appt' = appt
  <2>1. LedgerRow(a)'
    BY <1>1, <1>2, <1>3 DEF LedgerInv, LedgerRow, Firm, Internal
  <2> QED BY <1>1, <2>1, OtherLedgersKept
<1>4. CASE appt'[a] = [appt[a] EXCEPT !.status = "CONFIRMED", !.depositStatus = "PAID", !.hold = "none"]
  <2>1. /\ appt'[a].status = "CONFIRMED" /\ appt'[a].depositStatus = "PAID"
        /\ appt'[a].deposit = appt[a].deposit /\ appt'[a].provider = appt[a].provider
        /\ appt'[a].scheduling = appt[a].scheduling
    BY <1>1, <1>4
  <2>2. payment'[a].kind = "legacy" /\ payment'[a].status = "PAID"
    BY <1>1, <1>2
  <2>3. LedgerRow(a)'
    BY <1>1, <1>2, <2>1, <2>2 DEF LedgerInv, LedgerRow, Firm, Internal
  <2> QED BY <1>1, <2>3, OtherLedgersKept
<1> QED BY <1>1, <1>3, <1>4

LEMMA ReadLedger ==
    ASSUME CalendarInv, LedgerInv, NEW a \in Appts,
           DepositRead(a) \/ LegacyRead(a) \/ RequestDies(a)
    PROVE  LedgerInv'
<1> USE DEF CalendarInv, CalendarTypeOK, Requests
<1>1. /\ UNCHANGED <<appt, payment>> /\ \A b \in Appts \ {a} : request'[b] = request[b]
      /\ \/ request'[a].step = "idle"
         \/ /\ request'[a].step = "deposit" /\ appt[a].status = "PAYMENT_PENDING"
            /\ appt[a].provider = "VENMO_MANUAL" \/ payment[a].kind = "legacy"
         \/ /\ request'[a].step = "legacy" /\ appt[a].status = "TENTATIVE"
            /\ payment[a].kind = "legacy"
  BY DEF DepositRead, LegacyRead, RequestDies, Idle
<1>2. LedgerRow(a)'
  BY <1>1 DEF LedgerInv, LedgerRow, Firm, Internal
<1> QED BY <1>1, <1>2, OtherLedgersKept

LEMMA ExpiryLedger ==
    ASSUME CalendarInv, LedgerInv, NEW a \in Appts, HoldExpires(a) PROVE LedgerInv'
<1>1. /\ UNCHANGED <<payment, request>> /\ appt'[a] = [appt[a] EXCEPT !.hold = "expired"]
      /\ \A b \in Appts \ {a} : appt'[b] = appt[b]
  BY DEF HoldExpires, CalendarInv, CalendarTypeOK
<1>2. LedgerRow(a)'
  BY <1>1 DEF LedgerInv, LedgerRow, Firm, Internal, CalendarInv, CalendarTypeOK, Appointments
<1> QED BY <1>1, <1>2, OtherLedgersKept

LEMMA LedgerInitInv == Init => LedgerInv
BY DEF Init, LedgerInv, LedgerRow, Firm, NoAppointment, Idle

LEMMA LedgerStep == CalendarInv /\ LedgerInv /\ [Next]_vars => LedgerInv'
<1> SUFFICES ASSUME CalendarInv, LedgerInv, [Next]_vars PROVE LedgerInv'
  OBVIOUS
<1>1. CASE UNCHANGED vars
  BY <1>1, LedgerUntouched DEF vars
<1>2. ASSUME NEW a \in Appts, Deposit(a) PROVE LedgerInv'
  BY <1>2, OpeningLedger, ConnectLedger, DepositLedger, ReadLedger, LegacyLedger DEF Deposit
<1>3. ASSUME NEW t \in TimeOffs, AddTimeOff(t) \/ RemoveTimeOff(t) PROVE LedgerInv'
  BY <1>3, LedgerUntouched DEF AddTimeOff, RemoveTimeOff
<1>4. ASSUME NEW h \in OpeningHours, SetHours(h) PROVE LedgerInv'
  BY <1>4, LedgerUntouched DEF SetHours
<1> QED BY <1>1, <1>2, <1>3, <1>4, BookingLedger, StaffLedger, ExpiryLedger, ReadLedger DEF Next

\* The calendar tells the truth for any number of appointments and requests:
\* time off and what a request read stay respected, the deposit of a firm
\* appointment is settled the way its service asks for, and no payment of the
\* ledger is without its mark on the appointment.
THEOREM CalendarTellsTheTruth == Spec => []CalendarSafe
<1>1. CalendarInv /\ LedgerInv => CalendarSafe
  BY DEF CalendarInv, LedgerInv, LedgerRow, CalendarSafe, FirmMeansSettled, PaidIsShown
<1>2. Spec => []LedgerInv
  BY LedgerInitInv, LedgerStep, CalendarInvariant, PTL DEF Spec
<1> QED BY <1>1, <1>2, CalendarInvariant, PTL

-----------------------------------------------------------------------------
(* History: what browsers show, and what became of a session or of a        *)
(* cancelled appointment.                                                   *)

HistoryRow(a) ==
    /\ session[a] \in {"open", "paid"} => payment[a].status \in {"PENDING", "PAID"}
    /\ appt[a].status = "NONE" => view[a] = {}
    /\ \A v \in view[a] :
         /\ v.revision <= appt[a].revision
         /\ v.revision = appt[a].revision
              => /\ v.start = appt[a].start
                 /\ v.finish = appt[a].finish \/ (TakenBack(a) /\ v.finish > appt[a].finish)

HistoryInv == \A a \in Appts : HistoryRow(a)

LEMMA OtherHistoriesKept ==
    ASSUME HistoryInv, NEW a \in Appts, HistoryRow(a)',
           \A b \in Appts \ {a} : /\ appt'[b] = appt[b] /\ payment'[b] = payment[b]
                                  /\ session'[b] = session[b] /\ view'[b] = view[b]
    PROVE  HistoryInv'
<1> SUFFICES ASSUME NEW b \in Appts, b # a PROVE HistoryRow(b)'
  BY DEF HistoryInv
<1> QED BY DEF HistoryInv, HistoryRow, TakenBack

LEMMA HistoryUntouched ==
    ASSUME HistoryInv, UNCHANGED <<appt, payment, session, view>>
    PROVE  HistoryInv'
BY DEF HistoryInv, HistoryRow, TakenBack

\* A step that leaves the period, the revision and the browsers alone.
LEMMA SamePeriod ==
    ASSUME HistoryInv, NEW a \in Appts, UNCHANGED view,
           \A b \in Appts \ {a} :
             appt'[b] = appt[b] /\ payment'[b] = payment[b] /\ session'[b] = session[b],
           appt'[a].start = appt[a].start, appt'[a].finish = appt[a].finish,
           appt'[a].revision = appt[a].revision, appt'[a].status = "NONE" => appt[a].status = "NONE",
           TakenBack(a) => TakenBack(a)',
           session'[a] \in {"open", "paid"} => payment'[a].status \in {"PENDING", "PAID"}
    PROVE  HistoryInv'
<1>1. HistoryRow(a)'
  BY DEF HistoryInv, HistoryRow
<1> QED BY <1>1, OtherHistoriesKept

LEMMA BookingHistory ==
    ASSUME CalendarInv, HistoryInv, NEW a \in Appts, Booking(a) PROVE HistoryInv'
<1>1. /\ appt[a].status = "NONE" /\ UNCHANGED <<payment, session, view>>
      /\ \E row : appt' = [appt EXCEPT ![a] = row]
  BY DEF Booking, Hold, Book, OfferForDeposit, Insert
<1>2. view'[a] = {} /\ \A b \in Appts \ {a} : appt'[b] = appt[b]
  BY <1>1 DEF HistoryInv, HistoryRow, CalendarInv, CalendarTypeOK
<1>3. HistoryRow(a)'
  BY <1>1, <1>2 DEF HistoryInv, HistoryRow
<1> QED BY <1>1, <1>2, <1>3, OtherHistoriesKept

LEMMA StaffHistory ==
    ASSUME CalendarInv, HistoryInv, NEW a \in Appts, Staff(a) \/ HoldExpires(a) PROVE HistoryInv'
<1> USE DEF CalendarInv, CalendarTypeOK, Appointments
<1>1. CASE ConfirmHold(a) \/ Cancel(a) \/ Complete(a) \/ HoldExpires(a)
  <2>1. /\ UNCHANGED <<payment, session, view>> /\ \A b \in Appts \ {a} : appt'[b] = appt[b]
        /\ appt'[a].start = appt[a].start /\ appt'[a].finish = appt[a].finish
        /\ appt'[a].revision = appt[a].revision
        /\ appt'[a].status = "NONE" => appt[a].status = "NONE"
    BY <1>1 DEF ConfirmHold, HoldConfirmed, Cancel, Complete, HoldExpires
  <2> QED BY <2>1, SamePeriod DEF HistoryInv, HistoryRow, TakenBack
<1>2. CASE ConfirmRead(a)
  BY <1>2, HistoryUntouched DEF ConfirmRead
<1>3. CASE View(a)
  <2>1. /\ UNCHANGED <<appt, payment, session>> /\ appt[a].status # "NONE"
        /\ view'[a] = {[revision |-> appt[a].revision, start |-> appt[a].start, finish |-> appt[a].finish]}
        /\ \A b \in Appts \ {a} : view'[b] = view[b]
    BY <1>3 DEF View
  <2>2. HistoryRow(a)'
    BY <2>1 DEF HistoryInv, HistoryRow
  <2> QED BY <2>1, <2>2, OtherHistoriesKept
<1>4. ASSUME NEW start \in Starts, NEW extra \in Extras, Reschedule(a, start, extra)
      PROVE  HistoryInv'
  <2>1. /\ UNCHANGED <<payment, session, view>> /\ \A b \in Appts \ {a} : appt'[b] = appt[b]
        /\ appt'[a].status = appt[a].status /\ appt'[a].revision = appt[a].revision + 1
    BY <1>4 DEF Reschedule, Rescheduled
  <2>2. \A v \in view[a] : v.revision <= appt[a].revision /\ v.revision \in Nat
    BY DEF HistoryInv, HistoryRow, Views
  <2>3. appt[a].revision \in Nat
    OBVIOUS
  <2>4. \A v \in view'[a] : v.revision <= appt'[a].revision /\ v.revision # appt'[a].revision
    BY <2>1, <2>2, <2>3
  <2>5. HistoryRow(a)'
    BY <2>1, <2>4 DEF HistoryInv, HistoryRow
  <2> QED BY <2>1, <2>5, OtherHistoriesKept
<1> QED BY <1>1, <1>2, <1>3, <1>4 DEF Staff

LEMMA DepositHistory ==
    ASSUME CalendarInv, LedgerInv, HistoryInv, NEW a \in Appts, Deposit(a) PROVE HistoryInv'
<1> USE DEF CalendarInv, CalendarTypeOK, Appointments, Payments
<1>1. CASE Reserve(a)
  <2>1. /\ UNCHANGED view /\ session'[a] = "none" /\ AwaitsConnectDeposit(a)
        /\ appt'[a].start = appt[a].start /\ appt'[a].finish = appt[a].finish
        /\ appt'[a].revision = appt[a].revision /\ appt'[a].status = appt[a].status
        /\ \A b \in Appts \ {a} :
             appt'[b] = appt[b] /\ payment'[b] = payment[b] /\ session'[b] = session[b]
    BY <1>1 DEF Reserve, NewAttempt, Open
  <2>2. ~TakenBack(a)
    BY <2>1 DEF TakenBack, LedgerInv, LedgerRow, AwaitsConnectDeposit, Unavailable
  <2> QED BY <2>1, <2>2, SamePeriod
<1>2. CASE OpenSession(a) \/ ClientPays(a) \/ SessionExpires(a)
  <2>1. /\ UNCHANGED <<appt, payment, view>> /\ \A b \in Appts \ {a} : session'[b] = session[b]
        /\ session'[a] \in {"open", "paid"} => payment[a].status \in {"PENDING", "PAID"}
    BY <1>2 DEF OpenSession, ClientPays, SessionExpires, HistoryInv, HistoryRow
  <2> QED BY <2>1, SamePeriod DEF TakenBack
<1>3. CASE LegacyCheckout(a) \/ RequestVenmo(a) \/ SessionExpiredEvent(a)
  <2>1. /\ UNCHANGED <<appt, view>> /\ payment[a].status # "PAID"
        /\ \A b \in Appts \ {a} : payment'[b] = payment[b] /\ session'[b] = session[b]
        /\ payment'[a].status \in {"PENDING", "PAID"} \/ session'[a] = "expired"
    BY <1>3 DEF LegacyCheckout, RequestVenmo, SessionExpiredEvent, Open
  <2> QED BY <2>1, SamePeriod DEF TakenBack
<1>4. CASE ConnectCompleted(a) \/ LegacyConfirm(a)
  <2>1. /\ UNCHANGED <<session, view>> /\ payment'[a].status = "PAID" /\ payment'[a].kind = payment[a].kind
        /\ \A b \in Appts \ {a} : appt'[b] = appt[b] /\ payment'[b] = payment[b]
        /\ appt'[a].start = appt[a].start /\ appt'[a].finish = appt[a].finish
        /\ appt'[a].revision = appt[a].revision
    BY <1>4 DEF ConnectCompleted, ConnectPays, LegacyConfirm, Paid
  <2>2. appt'[a].status = "NONE" => appt[a].status = "NONE"
    BY <1>4 DEF ConnectCompleted, ConnectPays, LegacyConfirm, Unavailable
  <2> QED BY <2>1, <2>2, SamePeriod DEF TakenBack
<1>5. CASE DepositCommit(a)
  <2>1. CASE UNCHANGED <<appt, payment>>
    BY <1>5, <2>1, HistoryUntouched DEF DepositCommit, DepositWritten
  <2>2. CASE /\ appt[a].status = "PAYMENT_PENDING" /\ appt' = Deposited(a)
             /\ payment' = [payment EXCEPT ![a].status = "PAID",
                                           ![a].kind = IF @ = "none" THEN "venmo" ELSE @]
    <3>1. /\ UNCHANGED <<session, view>> /\ request[a].step = "deposit"
      BY <1>5 DEF DepositCommit, DepositWritten
    <3>2. /\ request[a].start = appt[a].start /\ request[a].finish <= appt[a].finish
      BY <2>2, <3>1 DEF SnapshotsInside
    <3>3. /\ payment'[a].status = "PAID"
          /\ payment'[a].kind = IF payment[a].kind = "none" THEN "venmo" ELSE payment[a].kind
          /\ \A b \in Appts \ {a} : appt'[b] = appt[b] /\ payment'[b] = payment[b]
      BY <2>2 DEF Deposited
    <3>4. payment[a].kind # "connect"
      BY <3>1 DEF LedgerInv, LedgerRow
    <3>5. TakenBack(a)'
      BY <3>3, <3>4 DEF TakenBack
    <3>6. /\ appt'[a].start = request[a].start /\ appt'[a].finish = request[a].finish
          /\ appt'[a].revision = appt[a].revision /\ appt'[a].status # "NONE"
      BY <2>2 DEF Deposited, Unavailable
    <3>7. request[a].finish \in Nat /\ appt[a].finish \in Nat /\ \A v \in view[a] : v.finish \in Nat
      BY DEF Requests, Views
    <3>8. ASSUME NEW v \in view[a]
          PROVE  /\ v.revision <= appt'[a].revision
                 /\ v.revision = appt'[a].revision
                      => /\ v.start = appt'[a].start
                         /\ v.finish = appt'[a].finish \/ v.finish > appt'[a].finish
      <4>1. /\ v.revision <= appt[a].revision
            /\ v.revision = appt[a].revision
                 => v.start = appt[a].start /\ (v.finish = appt[a].finish \/ v.finish > appt[a].finish)
        BY DEF HistoryInv, HistoryRow
      <4> HIDE DEF CalendarInv, CalendarTypeOK, Appointments, Payments
      <4> QED BY <3>2, <3>6, <3>7, <4>1
    <3>9. HistoryRow(a)'
      BY <3>1, <3>3, <3>5, <3>6, <3>8 DEF HistoryRow
    <3> QED BY <3>1, <3>3, <3>9, OtherHistoriesKept
  <2> QED BY <1>5, <2>1, <2>2 DEF DepositCommit, DepositWritten
<1>6. CASE DepositRead(a) \/ LegacyRead(a)
  BY <1>6, HistoryUntouched DEF DepositRead, LegacyRead
<1> QED BY <1>1, <1>2, <1>3, <1>4, <1>5, <1>6 DEF Deposit

LEMMA HistoryInitInv == Init => HistoryInv
BY DEF Init, HistoryInv, HistoryRow

LEMMA HistoryStep == CalendarInv /\ LedgerInv /\ HistoryInv /\ [Next]_vars => HistoryInv'
<1> SUFFICES ASSUME CalendarInv, LedgerInv, HistoryInv, [Next]_vars PROVE HistoryInv'
  OBVIOUS
<1>1. CASE UNCHANGED vars
  BY <1>1, HistoryUntouched DEF vars
<1>2. ASSUME NEW a \in Appts, RequestDies(a) PROVE HistoryInv'
  BY <1>2, HistoryUntouched DEF RequestDies
<1>3. ASSUME NEW t \in TimeOffs, AddTimeOff(t) \/ RemoveTimeOff(t) PROVE HistoryInv'
  BY <1>3, HistoryUntouched DEF AddTimeOff, RemoveTimeOff
<1>4. ASSUME NEW h \in OpeningHours, SetHours(h) PROVE HistoryInv'
  BY <1>4, HistoryUntouched DEF SetHours
<1> QED BY <1>1, <1>2, <1>3, <1>4, BookingHistory, StaffHistory, DepositHistory DEF Next

LEMMA RowStatusKept ==
    ASSUME CalendarInv, NEW a \in Appts, appt[a].status = "CANCELLED", [Next]_vars
    PROVE  appt'[a].status = "CANCELLED"
<1> USE DEF CalendarInv, CalendarTypeOK
<1>1. CASE UNCHANGED appt
  BY <1>1
<1>2. ASSUME NEW b \in Appts, Booking(b) PROVE appt'[a].status = "CANCELLED"
  BY <1>2 DEF Booking, Hold, Book, OfferForDeposit, Insert
<1>3. ASSUME NEW b \in Appts, Staff(b) \/ HoldExpires(b) \/ RequestDies(b)
      PROVE  appt'[a].status = "CANCELLED"
  <2>1. CASE ConfirmHold(b)
    BY <2>1 DEF ConfirmHold, HoldConfirmed
  <2>2. CASE Cancel(b)
    BY <2>2 DEF Cancel
  <2>3. CASE Complete(b)
    BY <2>3 DEF Complete
  <2>4. CASE HoldExpires(b)
    BY <2>4, FieldTypes DEF HoldExpires, Appointments
  <2>5. ASSUME NEW start \in Starts, NEW extra \in Extras, Reschedule(b, start, extra)
        PROVE  appt'[a].status = "CANCELLED"
    BY <2>5 DEF Reschedule, Rescheduled
  <2> QED BY <1>1, <1>3, <2>1, <2>2, <2>3, <2>4, <2>5 DEF Staff, ConfirmRead, View, RequestDies
<1>4. ASSUME NEW b \in Appts, Deposit(b) PROVE appt'[a].status = "CANCELLED"
  <2>1. CASE UNCHANGED appt
    BY <2>1
  <2>2. CASE Reserve(b)
    BY <2>2 DEF Reserve, NewAttempt
  <2>3. CASE ConnectCompleted(b)
    <3>1. appt[b].status = "CANCELLED" => ~CanConfirm(b)
      BY DEF CanConfirm
    <3> QED BY <2>3, <3>1 DEF ConnectCompleted, ConnectPays
  <2>4. CASE DepositCommit(b)
    BY <2>4 DEF DepositCommit, DepositWritten, Deposited
  <2>5. CASE LegacyConfirm(b)
    BY <2>5 DEF LegacyConfirm
  <2> QED BY <1>4, <2>1, <2>2, <2>3, <2>4, <2>5
          DEF Deposit, OpenSession, LegacyCheckout, RequestVenmo, ClientPays, SessionExpires,
              SessionExpiredEvent, DepositRead, LegacyRead
<1> QED BY <1>1, <1>2, <1>3, <1>4 DEF Next, vars, AddTimeOff, RemoveTimeOff, SetHours

LEMMA PaidSessionKept ==
    ASSUME CalendarInv, LedgerInv, HistoryInv, NEW a \in Appts, session[a] = "paid", [Next]_vars
    PROVE  session'[a] = "paid"
<1> USE DEF CalendarInv, CalendarTypeOK
<1>1. CASE UNCHANGED session
  BY <1>1
<1>2. payment[a].status \in {"PENDING", "PAID"}
  BY DEF HistoryInv, HistoryRow
<1>3. ~(AwaitsConnectDeposit(a) /\ payment[a].status = "PAID")
  BY DEF LedgerInv, LedgerRow, AwaitsConnectDeposit, Unavailable
<1>4. ASSUME NEW b \in Appts, Reserve(b) \/ OpenSession(b) \/ LegacyCheckout(b) \/ ClientPays(b) \/ SessionExpires(b)
      PROVE  session'[a] = "paid"
  BY <1>2, <1>3, <1>4 DEF Reserve, NewAttempt, OpenSession, LegacyCheckout, ClientPays, SessionExpires
<1>5. ASSUME NEW b \in Appts, Deposit(b) PROVE session'[a] = "paid"
  BY <1>1, <1>4, <1>5 DEF Deposit, RequestVenmo, ConnectCompleted, ConnectPays, SessionExpiredEvent,
       DepositRead, DepositCommit, DepositWritten, LegacyRead, LegacyConfirm
<1>6. ASSUME NEW b \in Appts, Booking(b) \/ Staff(b) \/ HoldExpires(b) \/ RequestDies(b)
      PROVE  session'[a] = "paid"
  <2>1. CASE Booking(b)
    BY <1>1, <2>1 DEF Booking, Hold, Book, OfferForDeposit, Insert
  <2>2. CASE Staff(b)
    BY <1>1, <2>2 DEF Staff, ConfirmRead, ConfirmHold, HoldConfirmed, View, Cancel, Complete,
         Reschedule, Rescheduled
  <2> QED BY <1>1, <1>6, <2>1, <2>2 DEF HoldExpires, RequestDies
<1> QED BY <1>1, <1>5, <1>6 DEF Next, vars, AddTimeOff, RemoveTimeOff, SetHours

\* What happened is not undone, for any number of appointments and requests: a
\* cancelled appointment stays cancelled, a session that was paid is not
\* replaced, and a browser moves only the period it shows.
THEOREM HistoryIsKept == Spec => HistoryKept
<1>1. Spec => [](CalendarInv /\ LedgerInv /\ HistoryInv)
  BY CalendarInitInv, LedgerInitInv, HistoryInitInv, CalendarStep, LedgerStep, HistoryStep, PTL DEF Spec
<1>2. CalendarInv /\ LedgerInv /\ HistoryInv /\ [Next]_vars =>
        [\A a \in Appts : session[a] = "paid" => session'[a] = "paid"]_vars
  BY PaidSessionKept
<1>3. CalendarInv /\ LedgerInv /\ HistoryInv /\ [Next]_vars =>
        [\A a \in Appts : appt[a].status = "CANCELLED" => appt'[a].status = "CANCELLED"]_vars
  BY RowStatusKept
<1>4. CalendarInv /\ LedgerInv /\ HistoryInv /\ [Next]_vars =>
        [\A a \in Appts : Edit(a) =>
           \E v \in view[a] :
              /\ v.start = appt[a].start
              /\ v.finish = appt[a].finish \/ (TakenBack(a) /\ v.finish > appt[a].finish)]_vars
  <2>1. ASSUME HistoryInv, NEW a \in Appts, Edit(a)
        PROVE  \E v \in view[a] :
                  /\ v.start = appt[a].start
                  /\ v.finish = appt[a].finish \/ (TakenBack(a) /\ v.finish > appt[a].finish)
    <3>1. PICK v \in view[a] : v.revision = appt[a].revision
      BY <2>1 DEF Edit, Reschedule, Rescheduled
    <3> QED BY <2>1, <3>1 DEF HistoryInv, HistoryRow
  <2> QED BY <2>1
<1>5. Spec => NoSecondCollection
  BY <1>1, <1>2, PTL DEF Spec, NoSecondCollection
<1>6. Spec => CancelledStaysCancelled
  BY <1>1, <1>3, PTL DEF Spec, CancelledStaysCancelled
<1>7. Spec => StaleEditsRejected
  BY <1>1, <1>4, PTL DEF Spec, StaleEditsRejected
<1> QED BY <1>5, <1>6, <1>7 DEF HistoryKept
=============================================================================
