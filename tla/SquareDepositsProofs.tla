------------------------ MODULE SquareDepositsProofs ------------------------
(***************************************************************************)
(* Proofs about Square deposits, for any number of appointments, payment   *)
(* rows and webhook handlers, and any periods, and about the quotes that   *)
(* lead to them, for any number of requests, runs and messages.            *)
(***************************************************************************)
EXTENDS SquareDeposits, QuoteTerms, FiniteSetTheorems, WellFoundedInduction, TLAPS

Steps == {"search", "book", "claim", "commit", "ledger", "mark", "select", "losers"}

\* Payments, handlers and Square speak of appointments that exist, and an
\* appointment takes time.
RowsExist ==
    /\ \A a \in Appts : appt[a].status = "NONE" => \A r \in Rows : ledger[a][r] = "NONE"
    /\ \A a \in Appts : appt[a].status # "NONE" => appt[a].start < appt[a].finish
    /\ \A a \in held \cup answered : appt[a].status # "NONE"
    /\ \A h \in Hooks : hook[h].step \in Steps =>
          /\ appt[Mine(h)].status # "NONE"
          /\ \A l \in hook[h].losers : appt[l.appt].status # "NONE"

Base == SquareTypeOK /\ RowsExist

\* The losers of a handler are known after a step as well.
Known ==
    \A h \in Hooks : hook'[h].step \in Steps =>
        \A l \in hook'[h].losers : appt[l.appt].status # "NONE"

\* A handler that runs has the fields of one.
LEMMA Running ==
    ASSUME SquareTypeOK, NEW h \in Hooks, hook[h].step \in Steps
    PROVE  /\ hook[h] \in Handlers /\ Mine(h) \in Appts /\ hook[h].row \in Rows
           /\ hook[h].booking \in {"none", "booked"} /\ appt[Mine(h)] \in Appointments
           /\ hook[h] # Idle
<1>1. hook[h] \in Handlers \cup {Idle} /\ Idle.step = "idle"
  BY DEF SquareTypeOK, Idle
<1>2. hook[h] \in Handlers
  BY <1>1 DEF Steps
<1> QED BY <1>1, <1>2 DEF Handlers, Mine, Steps, SquareTypeOK

\* What a step leaves of a handler: its appointment and row do not change.
LEMMA HandlerGoes ==
    ASSUME Base, NEW h \in Hooks, hook[h].step \in Steps, NEW step \in Steps, Go(h, step)
    PROVE  /\ hook' \in [Hooks -> Handlers \cup {Idle}] /\ Known
           /\ hook'[h].step = step /\ hook'[h].appt = hook[h].appt
           /\ hook'[h].booking = hook[h].booking
           /\ \A g \in Hooks \ {h} : hook'[g] = hook[g]
<1> DEFINE new == [hook[h] EXCEPT !.step = step]
<1>1. new \in Handlers /\ new.step = step /\ new.appt = hook[h].appt /\ new.booking = hook[h].booking
      /\ new.losers = hook[h].losers
  BY Running DEF Base, Handlers, Steps
<1>2. hook' = [hook EXCEPT ![h] = new] /\ hook \in [Hooks -> Handlers \cup {Idle}]
  BY DEF Go, Base, SquareTypeOK
<1> HIDE DEF new
<1> QED BY <1>1, <1>2 DEF Base, RowsExist, Known

LEMMA HandlerBooked ==
    ASSUME Base, NEW h \in Hooks, hook[h].step \in Steps, Booked(h)
    PROVE  /\ hook' \in [Hooks -> Handlers \cup {Idle}] /\ Known
           /\ hook'[h].step = "claim" /\ hook'[h].appt = hook[h].appt
           /\ hook'[h].booking = "booked"
           /\ \A g \in Hooks \ {h} : hook'[g] = hook[g]
<1> DEFINE new == [hook[h] EXCEPT !.step = "claim", !.booking = "booked"]
<1>1. new \in Handlers /\ new.step = "claim" /\ new.appt = hook[h].appt /\ new.booking = "booked"
      /\ new.losers = hook[h].losers
  BY Running DEF Base, Handlers
<1>2. hook' = [hook EXCEPT ![h] = new] /\ hook \in [Hooks -> Handlers \cup {Idle}]
  BY DEF Booked, Base, SquareTypeOK
<1> HIDE DEF new
<1> QED BY <1>1, <1>2 DEF Base, RowsExist, Known

LEMMA HandlerLosers ==
    ASSUME Base, NEW h \in Hooks, hook[h].step \in Steps, NEW L \in SUBSET Losers,
           \A l \in L : appt[l.appt].status # "NONE",
           hook' = [hook EXCEPT ![h].step = "losers", ![h].losers = L]
    PROVE  /\ hook' \in [Hooks -> Handlers \cup {Idle}] /\ Known
           /\ hook'[h].step = "losers" /\ hook'[h].appt = hook[h].appt
           /\ hook'[h].booking = hook[h].booking
           /\ \A g \in Hooks \ {h} : hook'[g] = hook[g]
<1> DEFINE new == [hook[h] EXCEPT !.step = "losers", !.losers = L]
<1>1. new \in Handlers /\ new.step = "losers" /\ new.appt = hook[h].appt /\ new.booking = hook[h].booking
      /\ new.losers = L
  BY Running DEF Base, Handlers
<1>2. hook' = [hook EXCEPT ![h] = new] /\ hook \in [Hooks -> Handlers \cup {Idle}]
  BY DEF Base, SquareTypeOK
<1> HIDE DEF new
<1> QED BY <1>1, <1>2, ZenonT(40) DEF Base, RowsExist, Known

LEMMA HandlerIdle ==
    ASSUME Base, NEW h \in Hooks, hook' = [hook EXCEPT ![h] = Idle]
    PROVE  /\ hook' \in [Hooks -> Handlers \cup {Idle}] /\ Known
           /\ hook'[h].step = "idle"
           /\ \A g \in Hooks \ {h} : hook'[g] = hook[g]
BY DEF Base, SquareTypeOK, RowsExist, Known, Idle, Steps

LEMMA HandlerBegins ==
    ASSUME Base, NEW h \in Hooks, NEW a \in Appts, NEW r \in Rows, Begin(h, a, r)
    PROVE  /\ hook' \in [Hooks -> Handlers \cup {Idle}] /\ Known
           /\ hook'[h].step \in {"ledger", "search", "claim"} /\ hook'[h].appt = a
           /\ hook'[h].booking = appt[a].booking
           /\ hook'[h].step = "claim" => ~AsksSquare(a)
           /\ \A g \in Hooks \ {h} : hook'[g] = hook[g]
<1> DEFINE step == IF appt[a].status # Pending THEN "ledger"
                   ELSE IF AsksSquare(a) THEN "search" ELSE "claim"
           new == [step |-> step, appt |-> a, row |-> r, booking |-> appt[a].booking, losers |-> {}]
<1>1. step \in {"ledger", "search", "claim"} /\ (step = "claim" => ~AsksSquare(a))
  OBVIOUS
<1>2. appt[a].booking \in {"none", "booked"}
  BY DEF Base, SquareTypeOK, Appointments
<1> HIDE DEF step
<1>3. new \in Handlers
  BY <1>1, <1>2 DEF Handlers
<1>4. new.step = step /\ new.appt = a /\ new.booking = appt[a].booking /\ new.losers = {}
  OBVIOUS
<1>5. hook' = [hook EXCEPT ![h] = new] /\ hook \in [Hooks -> Handlers \cup {Idle}]
  BY DEF Begin, Base, SquareTypeOK, step
<1> HIDE DEF new
<1> QED BY <1>1, <1>3, <1>4, <1>5 DEF Base, RowsExist, Known

-----------------------------------------------------------------------------
(* What a step does to the appointments.                                    *)

Unsettled == {"NONE", Pending}

\* One row is inserted, or one that exists gets another status.
Inserted(a) ==
    /\ appt[a].status = "NONE" /\ appt'[a].status = Pending
    /\ appt'[a].start < appt'[a].finish /\ \A b \in Appts \ {a} : appt'[b] = appt[b]
Restated(a, status) ==
    /\ appt[a].status # "NONE" /\ appt'[a].status = status
    /\ appt'[a].start = appt[a].start /\ appt'[a].finish = appt[a].finish
    /\ appt'[a].scheduling = appt[a].scheduling
    /\ \A b \in Appts \ {a} : appt'[b] = appt[b]

LEMMA RowInserted ==
    ASSUME SquareTypeOK, NEW a \in Appts, NEW start \in Starts, NEW length \in Durations,
           NEW scheduling \in {"INTERNAL", "SQUARE"}, NEW booking \in {"none", "booked"},
           Insert(a, start, length, scheduling, booking)
    PROVE  /\ appt' \in [Appts -> Appointments] /\ Inserted(a)
           /\ appt'[a].scheduling = scheduling /\ appt'[a].booking = booking
<1> DEFINE new == [status |-> Pending, start |-> start, finish |-> start + length,
                   scheduling |-> scheduling, booking |-> booking, deposit |-> "PENDING"]
<1>1. new \in Appointments /\ new.start < new.finish /\ new.status = Pending
      /\ new.scheduling = scheduling /\ new.booking = booking
  BY TimesAreUnits DEF Appointments, Pending
<1>2. appt \in [Appts -> Appointments] /\ appt[a].status = "NONE"
      /\ appt' = [appt EXCEPT ![a] = new]
  BY DEF Insert, SquareTypeOK
<1> HIDE DEF new
<1> QED BY <1>1, <1>2 DEF Inserted

LEMMA RowStatus ==
    ASSUME SquareTypeOK, NEW a \in Appts, appt[a].status # "NONE", NEW status \in Cancelled,
           appt' = [appt EXCEPT ![a].status = status]
    PROVE  appt' \in [Appts -> Appointments] /\ Restated(a, status)
           /\ appt'[a].booking = appt[a].booking /\ appt'[a].deposit = appt[a].deposit
<1> DEFINE new == [appt[a] EXCEPT !.status = status]
<1>1. appt \in [Appts -> Appointments] /\ appt[a] \in Appointments
  BY DEF SquareTypeOK
<1>2. new \in Appointments /\ new.status = status /\ new.start = appt[a].start
      /\ new.finish = appt[a].finish /\ new.scheduling = appt[a].scheduling
      /\ new.booking = appt[a].booking /\ new.deposit = appt[a].deposit
  BY <1>1 DEF Appointments, Cancelled
<1>3. appt' = [appt EXCEPT ![a] = new]
  OBVIOUS
<1> HIDE DEF new
<1> QED BY <1>1, <1>2, <1>3 DEF Restated

LEMMA RowConfirmed ==
    ASSUME SquareTypeOK, NEW a \in Appts, appt[a].status # "NONE", NEW booking \in {"none", "booked"},
           appt' = [appt EXCEPT ![a].status = "CONFIRMED", ![a].deposit = "PAID", ![a].booking = booking]
    PROVE  appt' \in [Appts -> Appointments] /\ Restated(a, "CONFIRMED")
           /\ appt'[a].booking = booking /\ appt'[a].deposit = "PAID"
<1> DEFINE new == [appt[a] EXCEPT !.status = "CONFIRMED", !.deposit = "PAID", !.booking = booking]
<1>1. appt \in [Appts -> Appointments] /\ appt[a] \in Appointments
  BY DEF SquareTypeOK
<1>2. new \in Appointments /\ new.status = "CONFIRMED" /\ new.start = appt[a].start
      /\ new.finish = appt[a].finish /\ new.scheduling = appt[a].scheduling
      /\ new.booking = booking /\ new.deposit = "PAID"
  BY <1>1 DEF Appointments
<1>3. appt' = [appt EXCEPT ![a] = new]
  OBVIOUS
<1> HIDE DEF new
<1> QED BY <1>1, <1>2, <1>3, ZenonT(40) DEF Restated

LEMMA RowMarked ==
    ASSUME SquareTypeOK, NEW a \in Appts, appt[a].status # "NONE",
           appt' = [appt EXCEPT ![a].status = Unavailable, ![a].deposit = "PAID"]
    PROVE  appt' \in [Appts -> Appointments] /\ Restated(a, Unavailable)
           /\ appt'[a].booking = appt[a].booking /\ appt'[a].deposit = "PAID"
<1> DEFINE new == [appt[a] EXCEPT !.status = Unavailable, !.deposit = "PAID"]
<1>1. appt \in [Appts -> Appointments] /\ appt[a] \in Appointments
  BY DEF SquareTypeOK
<1>2. new \in Appointments /\ new.status = Unavailable /\ new.start = appt[a].start
      /\ new.finish = appt[a].finish /\ new.scheduling = appt[a].scheduling
      /\ new.booking = appt[a].booking /\ new.deposit = "PAID"
  BY <1>1 DEF Appointments, Unavailable
<1>3. appt' = [appt EXCEPT ![a] = new]
  OBVIOUS
<1> HIDE DEF new
<1> QED BY <1>1, <1>2, <1>3 DEF Restated

-----------------------------------------------------------------------------
(* Types, and rows that exist.                                              *)

LEMMA BaseInit == Init => Base
BY DEF Init, Base, SquareTypeOK, RowsExist, NoAppointment, Appointments, PaymentStatuses, Idle,
       Steps, Pending, Unavailable, Cancelled

LEMMA LedgerRow ==
    ASSUME SquareTypeOK, NEW a \in Appts, NEW r \in Rows, NEW status \in PaymentStatuses,
           ledger' = [ledger EXCEPT ![a][r] = status]
    PROVE  /\ ledger' \in [Appts -> [Rows -> PaymentStatuses]]
           /\ \A b \in Appts \ {a} : ledger'[b] = ledger[b]
BY DEF SquareTypeOK

LEMMA PaidRow ==
    ASSUME SquareTypeOK, NEW h \in Hooks, hook[h].step \in Steps, ledger' = Paid(h)
    PROVE  /\ ledger' \in [Appts -> [Rows -> PaymentStatuses]]
           /\ \A b \in Appts \ {Mine(h)} : ledger'[b] = ledger[b]
<1>1. Mine(h) \in Appts /\ hook[h].row \in Rows /\ "PAID" \in PaymentStatuses
  BY Running DEF PaymentStatuses
<1> QED BY <1>1, LedgerRow DEF Paid

\* The handler goes on, and everything but its own state stays.
Goes(h, from, to) ==
    /\ hook[h].step \in from /\ hook'[h].step \in to
    /\ hook'[h].appt = hook[h].appt /\ hook'[h].booking = hook[h].booking
    /\ \A g \in Hooks \ {h} : hook'[g] = hook[g]
Stops(h) == hook'[h].step = "idle" /\ \A g \in Hooks \ {h} : hook'[g] = hook[g]

\* What a step of the system is to the invariants below.
Quiet == UNCHANGED <<appt, hook, answered, held, unasked, confirmations>>
NewOffer(a) ==
    /\ Inserted(a) /\ UNCHANGED <<hook, answered, unasked, confirmations>>
    /\ \/ held' = held /\ appt'[a].booking = "none"
       \/ held' = held \cup {a} /\ \A b \in held : Apart(appt[b], appt'[a])
CalledOff(a) ==
    /\ \E status \in Cancelled : Restated(a, status)
    /\ appt'[a].booking = appt[a].booking /\ appt'[a].deposit = appt[a].deposit
    /\ UNCHANGED <<answered, held, unasked, confirmations>>
    /\ UNCHANGED hook \/ \E h \in Hooks : Goes(h, {"losers"}, {"losers"})
Begins(h, a) ==
    /\ hook[h].step = "idle" /\ appt[a].status # "NONE"
    /\ hook'[h].step \in {"ledger", "search", "claim"} /\ hook'[h].appt = a
    /\ hook'[h].booking = appt[a].booking
    /\ \A g \in Hooks \ {h} : hook'[g] = hook[g]
    /\ unasked \subseteq unasked' /\ unasked' \subseteq Appts
    /\ hook'[h].step = "claim" /\ appt[a].booking = "none" /\ appt[a].scheduling = "SQUARE"
          => a \in unasked'
    /\ UNCHANGED <<appt, answered, held, confirmations>>
HeldOne(h) ==
    \/ held' = held
    \/ Mine(h) \notin held /\ FreeAtSquare(Mine(h)) /\ held' = held \cup {Mine(h)}
GoesOn(h) ==
    /\ \/ Goes(h, Steps, {"book", "ledger", "mark"})
       \/ Goes(h, {"select", "losers"}, {"losers"})
    /\ HeldOne(h)
    /\ UNCHANGED <<appt, answered, unasked, confirmations>>
GetsBooking(h) ==
    /\ hook[h].step = "book" /\ hook'[h].step = "claim"
    /\ hook'[h].appt = hook[h].appt /\ hook'[h].booking = "booked"
    /\ \A g \in Hooks \ {h} : hook'[g] = hook[g]
    /\ HeldOne(h) /\ Mine(h) \in held'
    /\ UNCHANGED <<appt, answered, unasked, confirmations>>
Claims(h) ==
    /\ Goes(h, {"claim"}, {"commit"}) /\ MyRow(h).scheduling = "INTERNAL"
    /\ ~Locked(h) /\ ~Conflict(Mine(h))
    /\ UNCHANGED <<appt, answered, held, unasked, confirmations>>
Commits(h) ==
    /\ \/ Goes(h, {"commit"}, {"select"})
       \/ Goes(h, {"claim"}, {"select"}) /\ MyRow(h).scheduling = "SQUARE"
    /\ MyRow(h).status = Pending
    /\ Restated(Mine(h), "CONFIRMED") /\ appt'[Mine(h)].booking = hook[h].booking
    /\ appt'[Mine(h)].deposit = "PAID"
    /\ UNCHANGED <<answered, held, unasked, confirmations>>
Marks(h) ==
    /\ hook[h].step = "mark" /\ Stops(h) /\ answered' = answered \cup {Mine(h)}
    /\ \/ /\ MyRow(h).status = Pending /\ Restated(Mine(h), Unavailable)
          /\ appt'[Mine(h)].booking = MyRow(h).booking /\ appt'[Mine(h)].deposit = "PAID"
       \/ MyRow(h).status # Pending /\ UNCHANGED appt
    /\ UNCHANGED <<held, unasked, confirmations>>
Confirms(h) ==
    /\ hook[h].step = "losers" /\ Stops(h) /\ answered' = answered \cup {Mine(h)}
    /\ confirmations' = [confirmations EXCEPT ![Mine(h)] = @ + 1]
    /\ UNCHANGED <<appt, held, unasked>>
Dies(h) == Stops(h) /\ UNCHANGED <<appt, answered, held, unasked, confirmations>>

Effect ==
    \/ Quiet \/ \E a \in Appts : NewOffer(a) \/ CalledOff(a)
    \/ \E h \in Hooks : \/ \E a \in Appts : Begins(h, a)
                        \/ GoesOn(h) \/ GetsBooking(h) \/ Claims(h) \/ Commits(h)
                        \/ Marks(h) \/ Confirms(h) \/ Dies(h)

\* What is left to show of a step's types when its rows and handlers are known.
TypesStep ==
    /\ appt' \in [Appts -> Appointments] /\ hook' \in [Hooks -> Handlers \cup {Idle}]
    /\ ledger' \in [Appts -> [Rows -> PaymentStatuses]]
    /\ \A a \in Appts : ledger'[a] = ledger[a] \/ appt[a].status # "NONE"
    /\ Known

LEMMA SameHandlers ==
    ASSUME Base, UNCHANGED hook
    PROVE  Known
BY DEF Base, RowsExist, Known

LEMMA ClientSteps ==
    ASSUME Base, NEW a \in Appts, Client(a)
    PROVE  SquareTypeOK' /\ TypesStep /\ Effect
<1> USE DEF Base
<1>1. ASSUME NEW start \in Starts, NEW length \in Durations, Offer(a, start, length)
      PROVE  SquareTypeOK' /\ TypesStep /\ Effect
  <2> DEFINE by == IF connection = "CONNECTED" THEN "SQUARE" ELSE "INTERNAL"
  <2>1. by \in {"INTERNAL", "SQUARE"} /\ "none" \in {"none", "booked"} /\ Insert(a, start, length, by, "none")
    BY <1>1 DEF Offer
  <2> HIDE DEF by
  <2>2. appt' \in [Appts -> Appointments] /\ Inserted(a) /\ appt'[a].booking = "none"
    BY <2>1, RowInserted
  <2>3. SquareTypeOK' /\ TypesStep
    BY SameHandlers, <1>1, <2>2 DEF Offer, SquareTypeOK, TypesStep
  <2>4. NewOffer(a)
    BY <1>1, <2>2 DEF Offer, NewOffer
  <2> QED BY <2>3, <2>4 DEF Effect
<1>2. ASSUME NEW start \in Starts, NEW length \in Durations, OfferBooked(a, start, length)
      PROVE  SquareTypeOK' /\ TypesStep /\ Effect
  <2>1. appt' \in [Appts -> Appointments] /\ Inserted(a)
    BY <1>2, RowInserted DEF OfferBooked
  <2>2. SquareTypeOK' /\ TypesStep
    BY SameHandlers, <1>2, <2>1 DEF OfferBooked, SquareTypeOK, TypesStep
  <2>3. NewOffer(a)
    BY <1>2, <2>1 DEF OfferBooked, NewOffer
  <2> QED BY <2>2, <2>3 DEF Effect
<1>3. ASSUME NEW r \in Rows, RequestLink(a, r)
      PROVE  SquareTypeOK' /\ TypesStep /\ Effect
  <2>1. ledger' \in [Appts -> [Rows -> PaymentStatuses]] /\ \A b \in Appts \ {a} : ledger'[b] = ledger[b]
    BY <1>3, LedgerRow DEF RequestLink, PaymentStatuses
  <2>2. link' \in [Appts -> {"none", "open", "paid", "deleted"}]
    BY <1>3 DEF RequestLink, SquareTypeOK
  <2>3. Quiet /\ UNCHANGED connection /\ appt[a].status # "NONE"
    BY <1>3 DEF RequestLink, Quiet, Pending
  <2>4. SquareTypeOK' /\ TypesStep
    BY SameHandlers, <2>1, <2>2, <2>3 DEF Quiet, SquareTypeOK, TypesStep
  <2> QED BY <2>3, <2>4 DEF Effect
<1>4. CASE Cancel(a)
  <2>1. "CANCELLED" \in Cancelled
    BY DEF Cancelled
  <2>2. /\ appt' \in [Appts -> Appointments] /\ Restated(a, "CANCELLED")
        /\ appt'[a].booking = appt[a].booking /\ appt'[a].deposit = appt[a].deposit
    BY <1>4, <2>1, RowStatus DEF Cancel
  <2>3. SquareTypeOK' /\ TypesStep
    BY SameHandlers, <1>4, <2>2 DEF Cancel, SquareTypeOK, TypesStep
  <2>4. CalledOff(a)
    BY <1>4, <2>1, <2>2 DEF Cancel, CalledOff
  <2> QED BY <2>3, <2>4 DEF Effect
<1>5. CASE ClientPays(a)
  <2>1. link' \in [Appts -> {"none", "open", "paid", "deleted"}]
    BY <1>5 DEF ClientPays, SquareTypeOK
  <2>2. Quiet /\ UNCHANGED <<connection, ledger>>
    BY <1>5 DEF ClientPays, Quiet
  <2>3. SquareTypeOK' /\ TypesStep
    BY SameHandlers, <2>1, <2>2 DEF Quiet, SquareTypeOK, TypesStep
  <2> QED BY <2>2, <2>3 DEF Effect
<1>6. ASSUME NEW r \in Rows, NEW status \in Refusals, RefusalEvent(a, r, status)
      PROVE  SquareTypeOK' /\ TypesStep /\ Effect
  <2>1. ledger' \in [Appts -> [Rows -> PaymentStatuses]] /\ \A b \in Appts \ {a} : ledger'[b] = ledger[b]
    BY <1>6, LedgerRow, RefusalsKnown DEF RefusalEvent, PaymentStatuses
  <2>2. Quiet /\ UNCHANGED <<connection, link>> /\ appt[a].status # "NONE"
    BY <1>6 DEF RefusalEvent, Quiet, Found, RowsExist
  <2>3. SquareTypeOK' /\ TypesStep
    BY SameHandlers, <2>1, <2>2 DEF Quiet, SquareTypeOK, TypesStep
  <2> QED BY <2>2, <2>3 DEF Effect
<1> QED BY <1>1, <1>2, <1>3, <1>4, <1>5, <1>6 DEF Client

LEMMA HandlerSteps ==
    ASSUME Base, NEW h \in Hooks, Webhook(h)
    PROVE  SquareTypeOK' /\ TypesStep /\ Effect
<1> USE DEF Base
<1>1. ASSUME NEW a \in Appts, NEW r \in Rows, Begin(h, a, r)
      PROVE  SquareTypeOK' /\ TypesStep /\ Effect
  <2>1. /\ hook' \in [Hooks -> Handlers \cup {Idle}] /\ Known
        /\ hook'[h].step \in {"ledger", "search", "claim"} /\ hook'[h].appt = a
        /\ hook'[h].booking = appt[a].booking
        /\ hook'[h].step = "claim" => ~AsksSquare(a)
        /\ \A g \in Hooks \ {h} : hook'[g] = hook[g]
    BY <1>1, HandlerBegins
  <2>2. UNCHANGED <<appt, ledger, connection, link, answered, held, confirmations>>
    BY <1>1 DEF Begin
  <2>3. unasked' \subseteq Appts /\ unasked \subseteq unasked'
    BY <1>1 DEF Begin, SquareTypeOK
  <2>4. hook'[h].step = "claim" /\ appt[a].booking = "none" /\ appt[a].scheduling = "SQUARE"
          => a \in unasked'
    <3>1. connection \in {"CONNECTED", "DISCONNECTED"}
      BY DEF SquareTypeOK
    <3> QED BY <1>1, <2>1, <3>1 DEF Begin, AsksSquare
  <2>5. hook[h].step = "idle" /\ appt[a].status # "NONE"
    BY <1>1 DEF Begin, Idle, Found, RowsExist
  <2>6. SquareTypeOK' /\ TypesStep
    BY <2>1, <2>2, <2>3 DEF SquareTypeOK, TypesStep
  <2>7. Begins(h, a)
    BY <2>1, <2>2, <2>3, <2>4, <2>5 DEF Begins
  <2> QED BY <2>6, <2>7 DEF Effect
<1>2. CASE Search(h)
  <2>1. hook[h].step \in Steps
    BY <1>2 DEF Search, At, Steps
  <2>2. PICK step \in {"book", "ledger"} : Go(h, step)
    BY <1>2 DEF Search
  <2>3. step \in Steps
    BY DEF Steps
  <2>4. hook' \in [Hooks -> Handlers \cup {Idle}] /\ Known /\ Goes(h, Steps, {"book", "ledger", "mark"})
    BY <2>1, <2>2, <2>3, HandlerGoes DEF Goes
  <2>5. SquareTypeOK' /\ TypesStep
    BY <1>2, <2>4 DEF Search, SquareTypeOK, TypesStep
  <2>6. GoesOn(h)
    BY <1>2, <2>4 DEF Search, GoesOn, HeldOne
  <2> QED BY <2>5, <2>6 DEF Effect
<1>3. CASE Book(h)
  <2>1. hook[h].step \in Steps /\ hook[h].step = "book" /\ "ledger" \in Steps /\ Mine(h) \in Appts
    BY <1>3, Running DEF Book, BookingAnswered, At, Steps
  <2>2. UNCHANGED <<appt, ledger, connection, link, answered, unasked, confirmations>>
    BY <1>3 DEF Book, BookingAnswered
  <2>3. HeldOne(h) /\ held' \subseteq Appts
    BY <1>3, <2>1 DEF Book, BookingAnswered, HeldOne, SquareTypeOK
  <2>4. CASE Booked(h)
    <3>1. hook' \in [Hooks -> Handlers \cup {Idle}] /\ Known /\ hook'[h].step = "claim"
          /\ hook'[h].appt = hook[h].appt /\ hook'[h].booking = "booked"
          /\ \A g \in Hooks \ {h} : hook'[g] = hook[g]
      BY <2>1, <2>4, HandlerBooked
    <3>2. ~Go(h, "ledger")
      BY <3>1, <2>1, HandlerGoes
    <3>3. Mine(h) \in held'
      BY <1>3, <3>2 DEF Book, BookingAnswered
    <3>4. SquareTypeOK' /\ TypesStep
      BY <2>2, <2>3, <3>1 DEF SquareTypeOK, TypesStep
    <3>5. GetsBooking(h)
      BY <2>1, <2>2, <2>3, <3>1, <3>3 DEF GetsBooking
    <3> QED BY <3>4, <3>5 DEF Effect
  <2>5. CASE Go(h, "ledger")
    <3>1. hook' \in [Hooks -> Handlers \cup {Idle}] /\ Known /\ Goes(h, Steps, {"book", "ledger", "mark"})
      BY <2>1, <2>5, HandlerGoes DEF Goes
    <3>2. SquareTypeOK' /\ TypesStep
      BY <2>2, <2>3, <3>1 DEF SquareTypeOK, TypesStep
    <3>3. GoesOn(h)
      BY <2>2, <2>3, <3>1 DEF GoesOn
    <3> QED BY <3>2, <3>3 DEF Effect
  <2> QED BY <1>3, <2>4, <2>5 DEF Book, BookingAnswered
<1>4. CASE Claim(h)
  <2>1. hook[h].step \in Steps /\ hook[h].step = "claim" /\ "ledger" \in Steps /\ "commit" \in Steps
    BY <1>4 DEF Claim, ClaimIf, At, Steps
  <2>2. UNCHANGED <<appt, ledger, connection, link, answered, held, unasked, confirmations>>
    BY <1>4 DEF Claim, ClaimIf
  <2>3. CASE Conflict(Mine(h))
    <3>1. hook' \in [Hooks -> Handlers \cup {Idle}] /\ Known /\ Goes(h, Steps, {"book", "ledger", "mark"})
      BY <1>4, <2>1, <2>3, HandlerGoes DEF Claim, ClaimIf, Goes
    <3>2. SquareTypeOK' /\ TypesStep
      BY <2>2, <3>1 DEF SquareTypeOK, TypesStep
    <3>3. GoesOn(h)
      BY <2>2, <3>1 DEF GoesOn, HeldOne
    <3> QED BY <3>2, <3>3 DEF Effect
  <2>4. CASE ~Conflict(Mine(h))
    <3>1. hook' \in [Hooks -> Handlers \cup {Idle}] /\ Known /\ Goes(h, {"claim"}, {"commit"})
      BY <1>4, <2>1, <2>4, HandlerGoes DEF Claim, ClaimIf, Goes
    <3>2. SquareTypeOK' /\ TypesStep
      BY <2>2, <3>1 DEF SquareTypeOK, TypesStep
    <3>3. Claims(h)
      BY <1>4, <2>2, <2>4, <3>1 DEF Claim, ClaimIf, Claims
    <3> QED BY <3>2, <3>3 DEF Effect
  <2> QED BY <2>3, <2>4
<1>5. CASE Commit(h)
  <2>1. hook[h].step \in Steps /\ "select" \in Steps /\ "ledger" \in Steps
    BY <1>5 DEF Commit, CommitRow, At, Steps
  <2>2. UNCHANGED <<connection, link, answered, held, unasked, confirmations>>
    BY <1>5 DEF Commit, CommitRow
  <2>3. /\ ledger' \in [Appts -> [Rows -> PaymentStatuses]]
        /\ \A b \in Appts \ {Mine(h)} : ledger'[b] = ledger[b]
    BY <1>5, <2>1, PaidRow DEF Commit, CommitRow
  <2>4. MyRow(h) = appt[Mine(h)] /\ Mine(h) \in Appts /\ appt[Mine(h)].status # "NONE"
        /\ hook[h].booking \in {"none", "booked"}
    BY <2>1, Running DEF MyRow, Mine, RowsExist
  <2>5. CASE MyRow(h).status = Pending
    <3>1. /\ appt' \in [Appts -> Appointments] /\ Restated(Mine(h), "CONFIRMED")
          /\ appt'[Mine(h)].booking = hook[h].booking /\ appt'[Mine(h)].deposit = "PAID"
      BY <1>5, <2>4, <2>5, RowConfirmed DEF Commit, CommitRow
    <3>2. /\ hook' \in [Hooks -> Handlers \cup {Idle}] /\ Known
          /\ hook'[h].step = "select" /\ hook'[h].appt = hook[h].appt
          /\ hook'[h].booking = hook[h].booking
          /\ \A g \in Hooks \ {h} : hook'[g] = hook[g]
      BY <1>5, <2>1, <2>5, HandlerGoes DEF Commit, CommitRow
    <3>3. SquareTypeOK' /\ TypesStep
      BY <2>2, <2>3, <2>4, <3>1, <3>2 DEF SquareTypeOK, TypesStep
    <3>4. \/ Goes(h, {"commit"}, {"select"})
          \/ Goes(h, {"claim"}, {"select"}) /\ MyRow(h).scheduling = "SQUARE"
      BY <1>5, <3>2 DEF Commit, CommitRow, At, Goes
    <3>5. Commits(h)
      BY <2>2, <2>5, <3>1, <3>4 DEF Commits
    <3> QED BY <3>3, <3>5 DEF Effect
  <2>6. CASE MyRow(h).status # Pending
    <3>1. UNCHANGED appt
      BY <1>5, <2>6 DEF Commit, CommitRow
    <3>2. hook' \in [Hooks -> Handlers \cup {Idle}] /\ Known /\ Goes(h, Steps, {"book", "ledger", "mark"})
      BY <1>5, <2>1, <2>6, HandlerGoes DEF Commit, CommitRow, Goes
    <3>3. SquareTypeOK' /\ TypesStep
      BY <2>2, <2>3, <2>4, <3>1, <3>2 DEF SquareTypeOK, TypesStep
    <3>4. GoesOn(h)
      BY <2>2, <3>1, <3>2 DEF GoesOn, HeldOne
    <3> QED BY <3>3, <3>4 DEF Effect
  <2> QED BY <2>5, <2>6
<1>6. CASE Ledger(h)
  <2>1. hook[h].step \in Steps /\ "mark" \in Steps
    BY <1>6 DEF Ledger, At, Steps
  <2>2. UNCHANGED <<appt, connection, link, answered, held, unasked, confirmations>>
    BY <1>6 DEF Ledger
  <2>3. /\ ledger' \in [Appts -> [Rows -> PaymentStatuses]]
        /\ \A b \in Appts \ {Mine(h)} : ledger'[b] = ledger[b]
    BY <1>6, <2>1, PaidRow DEF Ledger
  <2>4. appt[Mine(h)].status # "NONE"
    BY <2>1 DEF RowsExist
  <2>5. hook' \in [Hooks -> Handlers \cup {Idle}] /\ Known /\ Goes(h, Steps, {"book", "ledger", "mark"})
    BY <1>6, <2>1, HandlerGoes DEF Ledger, Goes
  <2>6. SquareTypeOK' /\ TypesStep
    BY <2>2, <2>3, <2>4, <2>5 DEF SquareTypeOK, TypesStep
  <2>7. GoesOn(h)
    BY <2>2, <2>5 DEF GoesOn, HeldOne
  <2> QED BY <2>6, <2>7 DEF Effect
<1>7. CASE Mark(h)
  <2>1. hook[h].step \in Steps /\ hook[h].step = "mark"
    BY <1>7 DEF Mark, MarkedIf, At, Steps
  <2>2. UNCHANGED <<ledger, connection, link, held, unasked, confirmations>>
        /\ hook' = [hook EXCEPT ![h] = Idle] /\ answered' = answered \cup {Mine(h)}
    BY <1>7 DEF Mark, MarkedIf, Answer
  <2>3. MyRow(h) = appt[Mine(h)] /\ Mine(h) \in Appts /\ appt[Mine(h)].status # "NONE"
    BY <2>1, Running DEF MyRow, Mine, RowsExist
  <2>4. hook' \in [Hooks -> Handlers \cup {Idle}] /\ Known /\ Stops(h)
    BY <2>2, HandlerIdle DEF Stops
  <2>5. CASE MyRow(h).status = Pending
    <3>1. /\ appt' \in [Appts -> Appointments] /\ Restated(Mine(h), Unavailable)
          /\ appt'[Mine(h)].booking = MyRow(h).booking /\ appt'[Mine(h)].deposit = "PAID"
      BY <1>7, <2>3, <2>5, RowMarked DEF Mark, MarkedIf
    <3>2. SquareTypeOK' /\ TypesStep
      BY <2>2, <2>3, <2>4, <3>1 DEF SquareTypeOK, TypesStep
    <3>3. Marks(h)
      BY <2>1, <2>2, <2>4, <2>5, <3>1 DEF Marks
    <3> QED BY <3>2, <3>3 DEF Effect
  <2>6. CASE MyRow(h).status # Pending
    <3>1. UNCHANGED appt
      BY <1>7, <2>6 DEF Mark, MarkedIf
    <3>2. SquareTypeOK' /\ TypesStep
      BY <2>2, <2>3, <2>4, <3>1 DEF SquareTypeOK, TypesStep
    <3>3. Marks(h)
      BY <2>1, <2>2, <2>4, <2>6, <3>1 DEF Marks
    <3> QED BY <3>2, <3>3 DEF Effect
  <2> QED BY <2>5, <2>6
<1>8. CASE SelectLosers(h)
  <2>1. hook[h].step \in Steps /\ hook[h].step = "select"
    BY <1>8 DEF SelectLosers, At, Steps
  <2>2. PICK L \in SUBSET Losers :
          /\ hook' = [hook EXCEPT ![h].step = "losers", ![h].losers = L]
          /\ \A l \in L : appt[l.appt].status # "NONE"
    <3> DEFINE L == {l \in Losers : /\ l.appt \in Competing(Mine(h)) /\ l.row \in PendingRows(l.appt)
                                   /\ l.step = IF connection = "CONNECTED" /\ l.row # NoRow
                                               THEN "link" ELSE "no link"}
    <3>1. \A l \in L : appt[l.appt].status # "NONE"
      BY DEF Competing, Pending
    <3>2. hook' = [hook EXCEPT ![h].step = "losers", ![h].losers = L]
      BY <1>8 DEF SelectLosers
    <3>3. L \in SUBSET Losers
      OBVIOUS
    <3> HIDE DEF L
    <3> QED BY <3>1, <3>2, <3>3
  <2>3. hook' \in [Hooks -> Handlers \cup {Idle}] /\ Known /\ Goes(h, {"select", "losers"}, {"losers"})
    BY <2>1, <2>2, HandlerLosers DEF Goes
  <2>4. SquareTypeOK' /\ TypesStep
    BY <1>8, <2>3 DEF SelectLosers, SquareTypeOK, TypesStep
  <2>5. GoesOn(h)
    BY <1>8, <2>3 DEF SelectLosers, GoesOn, HeldOne
  <2> QED BY <2>4, <2>5 DEF Effect
<1>9. ASSUME NEW l \in Losers, DeleteLink(h, l) \/ CancelPayment(h, l) \/ CancelLoser(h, l)
      PROVE  SquareTypeOK' /\ TypesStep /\ Effect
  <2>1. hook[h].step \in Steps /\ hook[h].step = "losers" /\ hook[h].losers \in SUBSET Losers
        /\ l \in hook[h].losers
    <3>1. hook[h].step = "losers" /\ l \in hook[h].losers
      BY <1>9 DEF DeleteLink, CancelPayment, CancelLoser, LoserBecomes, Current, At
    <3> QED BY <3>1, Running DEF Steps, Handlers
  <2>2. l.appt \in Appts /\ \A m \in hook[h].losers : appt[m.appt].status # "NONE"
    BY <2>1 DEF Losers, RowsExist
  <2>3. PICK L \in SUBSET Losers :
          /\ hook' = [hook EXCEPT ![h].losers = L]
          /\ \A m \in L : appt[m.appt].status # "NONE"
    <3>1. \A step \in {"payment", "appointment"} :
             [l EXCEPT !.step = step] \in Losers /\ [l EXCEPT !.step = step].appt = l.appt
      BY DEF Losers
    <3>2. \A step \in {"payment", "appointment"} :
             /\ (hook[h].losers \ {l}) \cup {[l EXCEPT !.step = step]} \in SUBSET Losers
             /\ \A m \in (hook[h].losers \ {l}) \cup {[l EXCEPT !.step = step]} :
                   appt[m.appt].status # "NONE"
      BY <2>1, <2>2, <3>1
    <3>3. hook[h].losers \ {l} \in SUBSET Losers
      BY <2>1
    <3>4. \/ hook' = [hook EXCEPT ![h].losers = (@ \ {l}) \cup {[l EXCEPT !.step = "payment"]}]
          \/ hook' = [hook EXCEPT ![h].losers = (@ \ {l}) \cup {[l EXCEPT !.step = "appointment"]}]
          \/ hook' = [hook EXCEPT ![h].losers = @ \ {l}]
      BY <1>9 DEF DeleteLink, CancelPayment, CancelLoser, LoserBecomes, Advance
    <3> QED BY <2>2, <3>2, <3>3, <3>4
  <2>4. hook' \in [Hooks -> Handlers \cup {Idle}] /\ Known /\ Goes(h, {"losers"}, {"losers"})
    <3> DEFINE new == [hook[h] EXCEPT !.losers = L]
    <3>1. new \in Handlers /\ new.step = "losers" /\ new.appt = hook[h].appt
          /\ new.booking = hook[h].booking /\ new.losers = L
      BY <2>1, Running DEF Handlers
    <3>2. hook' = [hook EXCEPT ![h] = new] /\ hook \in [Hooks -> Handlers \cup {Idle}]
      BY <2>3 DEF SquareTypeOK
    <3> HIDE DEF new
    <3> QED BY <2>1, <2>3, <3>1, <3>2 DEF Goes, Known, RowsExist
  <2>5. Goes(h, {"select", "losers"}, {"losers"})
    BY <2>4 DEF Goes
  <2>6. CASE DeleteLink(h, l)
    <3>1. link' \in [Appts -> {"none", "open", "paid", "deleted"}]
      BY <2>2, <2>6 DEF DeleteLink, SquareTypeOK
    <3>2. SquareTypeOK' /\ TypesStep
      BY <2>4, <2>6, <3>1 DEF DeleteLink, SquareTypeOK, TypesStep
    <3>3. GoesOn(h)
      BY <2>5, <2>6 DEF DeleteLink, GoesOn, HeldOne
    <3> QED BY <3>2, <3>3 DEF Effect
  <2>7. CASE CancelPayment(h, l) /\ l.row = NoRow
    <3>1. SquareTypeOK' /\ TypesStep
      BY <2>4, <2>7 DEF CancelPayment, SquareTypeOK, TypesStep
    <3>2. GoesOn(h)
      BY <2>5, <2>7 DEF CancelPayment, GoesOn, HeldOne
    <3> QED BY <3>1, <3>2 DEF Effect
  <2>8. CASE CancelPayment(h, l) /\ l.row # NoRow
    <3>1. l.row \in Rows /\ "CANCELED" \in PaymentStatuses
      BY <2>8 DEF Losers, PaymentStatuses
    <3>2. ledger' = [ledger EXCEPT ![l.appt][l.row] = "CANCELED"]
      BY <2>8 DEF CancelPayment
    <3>3. /\ ledger' \in [Appts -> [Rows -> PaymentStatuses]]
          /\ \A b \in Appts \ {l.appt} : ledger'[b] = ledger[b]
      BY <2>2, <3>1, <3>2, LedgerRow
    <3>4. appt[l.appt].status # "NONE"
      BY <2>1, <2>2
    <3>5. SquareTypeOK' /\ TypesStep
      BY <2>4, <2>8, <3>3, <3>4 DEF CancelPayment, SquareTypeOK, TypesStep
    <3>6. GoesOn(h)
      BY <2>5, <2>8 DEF CancelPayment, GoesOn, HeldOne
    <3> QED BY <3>5, <3>6 DEF Effect
  <2>9. CASE CancelLoser(h, l) /\ appt[l.appt].status = Pending
    <3>1. appt[l.appt].status # "NONE" /\ "CANCELED" \in Cancelled
      BY <2>9 DEF Pending, Cancelled
    <3>2. appt' = [appt EXCEPT ![l.appt].status = "CANCELED"]
      BY <2>9 DEF CancelLoser, LoserBecomes
    <3>3. /\ appt' \in [Appts -> Appointments] /\ Restated(l.appt, "CANCELED")
          /\ appt'[l.appt].booking = appt[l.appt].booking
          /\ appt'[l.appt].deposit = appt[l.appt].deposit
      BY <2>2, <3>1, <3>2, RowStatus
    <3>4. SquareTypeOK' /\ TypesStep
      BY <2>4, <2>9, <3>3 DEF CancelLoser, LoserBecomes, SquareTypeOK, TypesStep
    <3>5. CalledOff(l.appt)
      BY <2>4, <2>9, <3>1, <3>3 DEF CancelLoser, LoserBecomes, CalledOff
    <3> QED BY <2>2, <3>4, <3>5 DEF Effect
  <2>10. CASE CancelLoser(h, l) /\ appt[l.appt].status # Pending
    <3>1. SquareTypeOK' /\ TypesStep
      BY <2>4, <2>10 DEF CancelLoser, LoserBecomes, SquareTypeOK, TypesStep
    <3>2. GoesOn(h)
      BY <2>5, <2>10 DEF CancelLoser, LoserBecomes, GoesOn, HeldOne
    <3> QED BY <3>1, <3>2 DEF Effect
  <2> QED BY <1>9, <2>6, <2>7, <2>8, <2>9, <2>10
<1>10. CASE Confirm(h)
  <2>1. hook[h].step \in Steps /\ hook[h].step = "losers"
    BY <1>10 DEF Confirm, At, Steps
  <2>2. Mine(h) \in Appts
    BY <2>1, Running
  <2>3. /\ UNCHANGED <<appt, ledger, connection, link, held, unasked>>
        /\ hook' = [hook EXCEPT ![h] = Idle] /\ answered' = answered \cup {Mine(h)}
        /\ confirmations' = [confirmations EXCEPT ![Mine(h)] = @ + 1]
    BY <1>10 DEF Confirm, Answer
  <2>4. hook' \in [Hooks -> Handlers \cup {Idle}] /\ Known /\ Stops(h)
    BY <2>3, HandlerIdle DEF Stops
  <2>5. SquareTypeOK' /\ TypesStep
    BY <2>2, <2>3, <2>4 DEF SquareTypeOK, TypesStep
  <2>6. Confirms(h)
    BY <2>1, <2>3, <2>4 DEF Confirms
  <2> QED BY <2>5, <2>6 DEF Effect
<1>11. CASE HookDies(h)
  <2>1. hook' \in [Hooks -> Handlers \cup {Idle}] /\ Known /\ Stops(h)
    BY <1>11, HandlerIdle DEF HookDies, Stops
  <2>2. SquareTypeOK' /\ TypesStep
    BY <1>11, <2>1 DEF HookDies, SquareTypeOK, TypesStep
  <2>3. Dies(h)
    BY <1>11, <2>1 DEF HookDies, Dies
  <2> QED BY <2>2, <2>3 DEF Effect
<1> QED BY <1>1, <1>2, <1>3, <1>4, <1>5, <1>6, <1>7, <1>8, <1>9, <1>10, <1>11
        DEF Webhook, Receive, ReceiveAgain, Progress

LEMMA NextEffect ==
    ASSUME Base, [Next]_vars
    PROVE  SquareTypeOK' /\ TypesStep /\ Effect
<1>1. CASE Connect \/ Disconnect \/ UNCHANGED vars
  <2>1. UNCHANGED <<appt, ledger, hook, link, answered, held, unasked, confirmations>>
        /\ connection' \in {"CONNECTED", "DISCONNECTED"}
    BY <1>1 DEF Connect, Disconnect, vars, Base, SquareTypeOK
  <2>2. SquareTypeOK' /\ Known
    BY <2>1, SameHandlers DEF Base, SquareTypeOK
  <2> QED BY <2>1, <2>2 DEF TypesStep, Effect, Quiet, Base, SquareTypeOK
<1> QED BY <1>1, ClientSteps, HandlerSteps DEF Next

\* What is known of every row after a step.
LEMMA RowsGoOn ==
    ASSUME Base, Effect
    PROVE  /\ \A a \in Appts : appt[a].status # "NONE" =>
                 /\ appt'[a].status # "NONE"
                 /\ appt'[a].start = appt[a].start /\ appt'[a].finish = appt[a].finish
                 /\ appt'[a].scheduling = appt[a].scheduling
           /\ \A a \in Appts : appt[a].status = "NONE" =>
                 appt'[a] = appt[a] \/ (appt'[a].status = Pending /\ appt'[a].start < appt'[a].finish)
           /\ held \subseteq held' /\ answered \subseteq answered' /\ unasked \subseteq unasked'
<1> USE DEF Base
<1>1. CASE Quiet
  BY <1>1 DEF Quiet
<1>2. ASSUME NEW a \in Appts, NewOffer(a)
      PROVE  /\ \A b \in Appts : appt[b].status # "NONE" => appt'[b] = appt[b]
             /\ \A b \in Appts : appt[b].status = "NONE" =>
                   appt'[b] = appt[b] \/ (appt'[b].status = Pending /\ appt'[b].start < appt'[b].finish)
             /\ held \subseteq held' /\ answered \subseteq answered' /\ unasked \subseteq unasked'
  BY <1>2 DEF NewOffer, Inserted
<1>3. ASSUME NEW a \in Appts, NEW status \in {"CONFIRMED", Unavailable} \cup Cancelled, Restated(a, status)
      PROVE  /\ \A b \in Appts : appt[b].status # "NONE" =>
                   /\ appt'[b].status # "NONE"
                   /\ appt'[b].start = appt[b].start /\ appt'[b].finish = appt[b].finish
                   /\ appt'[b].scheduling = appt[b].scheduling
             /\ \A b \in Appts : appt[b].status = "NONE" => appt'[b] = appt[b]
  BY <1>3 DEF Restated, Unavailable, Cancelled
<1>4. ASSUME NEW a \in Appts, CalledOff(a)
      PROVE  held \subseteq held' /\ answered \subseteq answered' /\ unasked \subseteq unasked'
             /\ \E status \in Cancelled : Restated(a, status)
  BY <1>4 DEF CalledOff
<1>5. ASSUME NEW h \in Hooks, Commits(h) \/ (Marks(h) /\ MyRow(h).status = Pending)
      PROVE  /\ held \subseteq held' /\ answered \subseteq answered' /\ unasked \subseteq unasked'
             /\ hook[h].step \in Steps
             /\ \E status \in {"CONFIRMED", Unavailable} : Restated(Mine(h), status)
  BY <1>5 DEF Commits, Marks, Goes, Steps
<1>6. ASSUME NEW h \in Hooks, NEW a \in Appts,
             \/ Begins(h, a) \/ GoesOn(h) \/ GetsBooking(h) \/ Claims(h)
             \/ (Marks(h) /\ MyRow(h).status # Pending) \/ Confirms(h) \/ Dies(h)
      PROVE  appt' = appt /\ held \subseteq held' /\ answered \subseteq answered' /\ unasked \subseteq unasked'
  BY <1>6 DEF Begins, GoesOn, GetsBooking, HeldOne, Claims, Marks, Confirms, Dies
<1>7. CASE \E a \in Appts : NewOffer(a)
  BY <1>2, <1>7
<1>8. CASE \E a \in Appts : CalledOff(a)
  BY <1>3, <1>4, <1>8
<1>9. CASE \E h \in Hooks : Commits(h) \/ (Marks(h) /\ MyRow(h).status = Pending)
  BY <1>3, <1>5, <1>9, Running
<1>10. CASE \E h \in Hooks : \/ \E a \in Appts : Begins(h, a)
                             \/ GoesOn(h) \/ GetsBooking(h) \/ Claims(h)
                             \/ (Marks(h) /\ MyRow(h).status # Pending) \/ Confirms(h) \/ Dies(h)
  <2>1. appt' = appt /\ held \subseteq held' /\ answered \subseteq answered' /\ unasked \subseteq unasked'
    <3>1. PICK h \in Hooks : \/ \E a \in Appts : Begins(h, a)
                             \/ GoesOn(h) \/ GetsBooking(h) \/ Claims(h)
                             \/ (Marks(h) /\ MyRow(h).status # Pending) \/ Confirms(h) \/ Dies(h)
      BY <1>10
    <3> QED BY <3>1 DEF Begins, GoesOn, GetsBooking, HeldOne, Claims, Marks, Confirms, Dies
  <2> QED BY <2>1
<1> QED BY <1>1, <1>7, <1>8, <1>9, <1>10 DEF Effect

\* The handlers that run after a step ran before it, or begin.
LEMMA HandlersGoOn ==
    ASSUME Base, Effect, NEW g \in Hooks, hook'[g].step \in Steps
    PROVE  \/ /\ hook[g].step \in Steps /\ hook'[g].appt = hook[g].appt
           \/ \E a \in Appts : Begins(g, a)
<1>1. CASE \A h \in Hooks : hook'[h] = hook[h]
  BY <1>1
<1>2. ASSUME NEW h \in Hooks, NEW from \in SUBSET Steps, NEW to, Goes(h, from, to)
      PROVE  hook[g].step \in Steps /\ hook'[g].appt = hook[g].appt
  BY <1>2 DEF Goes
<1>3. ASSUME NEW h \in Hooks, Stops(h)
      PROVE  hook'[g] = hook[g]
  BY <1>3 DEF Stops, Steps
<1>4. CASE \E a \in Appts : NewOffer(a)
  BY <1>4 DEF NewOffer
<1>5. CASE \E a \in Appts : CalledOff(a)
  BY <1>2, <1>5 DEF CalledOff, Steps
<1>6. ASSUME NEW h \in Hooks, NEW a \in Appts, Begins(h, a)
      PROVE  hook'[g] = hook[g] \/ h = g
  BY <1>6 DEF Begins
<1>7. ASSUME NEW h \in Hooks, GoesOn(h) \/ Claims(h) \/ Commits(h)
      PROVE  hook[g].step \in Steps /\ hook'[g].appt = hook[g].appt
  BY <1>2, <1>7 DEF GoesOn, Claims, Commits, Steps
<1>8. ASSUME NEW h \in Hooks, GetsBooking(h)
      PROVE  hook[g].step \in Steps /\ hook'[g].appt = hook[g].appt
  BY <1>8 DEF GetsBooking, Steps
<1>9. ASSUME NEW h \in Hooks, Marks(h) \/ Confirms(h) \/ Dies(h)
      PROVE  hook'[g] = hook[g]
  BY <1>3, <1>9 DEF Marks, Confirms, Dies
<1>10. CASE Quiet
  BY <1>10 DEF Quiet
<1> QED BY <1>1, <1>4, <1>5, <1>6, <1>7, <1>8, <1>9, <1>10 DEF Effect

LEMMA BaseStep ==
    ASSUME Base, [Next]_vars
    PROVE  Base'
<1>1. SquareTypeOK' /\ TypesStep /\ Effect
  BY NextEffect
<1>2. \A a \in Appts : appt'[a].status = "NONE" => \A r \in Rows : ledger'[a][r] = "NONE"
  BY <1>1, RowsGoOn DEF TypesStep, Base, RowsExist
<1>3. \A a \in Appts : appt'[a].status # "NONE" => appt'[a].start < appt'[a].finish
  BY <1>1, RowsGoOn DEF Base, RowsExist
<1>4. \A a \in held' \cup answered' : appt'[a].status # "NONE"
  <2>1. \A a \in held \cup answered : a \in Appts /\ appt[a].status # "NONE"
    BY DEF Base, RowsExist, SquareTypeOK
  <2>2. CASE held' \cup answered' = held \cup answered
    BY <1>1, <2>1, <2>2, RowsGoOn
  <2>3. ASSUME NEW a \in Appts, NewOffer(a)
        PROVE  held' \cup answered' \subseteq held \cup answered \cup {a} /\ appt'[a].status # "NONE"
    BY <2>3 DEF NewOffer, Inserted, Pending
  <2>4. ASSUME NEW h \in Hooks, GoesOn(h) \/ GetsBooking(h) \/ Marks(h) \/ Confirms(h),
               held' \cup answered' # held \cup answered
        PROVE  /\ held' \cup answered' \subseteq held \cup answered \cup {Mine(h)}
               /\ hook[h].step \in Steps
    BY <2>4 DEF GoesOn, GetsBooking, HeldOne, Marks, Confirms, Goes, Steps
  <2>5. ASSUME NEW h \in Hooks, hook[h].step \in Steps
        PROVE  Mine(h) \in Appts /\ appt'[Mine(h)].status # "NONE"
    <3>1. Mine(h) \in Appts /\ appt[Mine(h)].status # "NONE"
      BY <2>5, Running DEF Base, RowsExist
    <3> QED BY <1>1, <3>1, RowsGoOn
  <2>6. CASE \E a \in Appts : NewOffer(a)
    BY <1>1, <2>1, <2>3, <2>6, RowsGoOn
  <2>7. CASE \E h \in Hooks : GoesOn(h) \/ GetsBooking(h) \/ Marks(h) \/ Confirms(h)
    BY <1>1, <2>1, <2>2, <2>4, <2>5, <2>7, RowsGoOn
  <2>8. CASE Quiet \/ (\E a \in Appts : CalledOff(a))
             \/ \E h \in Hooks : (\E a \in Appts : Begins(h, a)) \/ Claims(h) \/ Commits(h) \/ Dies(h)
    BY <2>2, <2>8 DEF Quiet, CalledOff, Begins, Claims, Commits, Dies
  <2> QED BY <1>1, <2>6, <2>7, <2>8 DEF Effect
<1>5. ASSUME NEW h \in Hooks, hook'[h].step \in Steps
      PROVE  /\ appt'[hook'[h].appt].status # "NONE"
             /\ \A l \in hook'[h].losers : appt'[l.appt].status # "NONE"
  <2>1. hook'[h] \in Handlers
    BY <1>1, <1>5 DEF SquareTypeOK, Idle, Steps
  <2>2. hook'[h].appt \in Appts /\ \A l \in hook'[h].losers : l.appt \in Appts
    BY <2>1 DEF Handlers, Losers
  <2>3. appt[hook'[h].appt].status # "NONE"
    BY <1>1, <1>5, HandlersGoOn DEF Base, RowsExist, Mine, Begins
  <2>4. \A l \in hook'[h].losers : appt[l.appt].status # "NONE"
    BY <1>1, <1>5 DEF TypesStep, Known
  <2> QED BY <1>1, <2>2, <2>3, <2>4, RowsGoOn
<1> QED BY <1>1, <1>2, <1>3, <1>4, <1>5 DEF Base, RowsExist, Mine

\* Every variable keeps its type, for any number of appointments and handlers.
THEOREM SquareTypeCorrect == Spec => []SquareTypeOK
<1>1. Base /\ [Next]_vars => Base'
  BY BaseStep
<1>2. Base => SquareTypeOK
  BY DEF Base
<1> QED BY BaseInit, <1>1, <1>2, PTL DEF Spec

-----------------------------------------------------------------------------
(* Appointments that Square schedules.                                      *)

\* Square holds periods that are apart; a row or a handler that has a booking is
\* held there, and one that goes on to a confirmation without one was not asked.
Held ==
    /\ \A a, b \in held : a # b => Apart(appt[a], appt[b])
    /\ \A a \in Appts : appt[a].booking = "booked" => a \in held
    /\ \A h \in Hooks : hook[h].step \in Steps /\ hook[h].booking = "booked" => Mine(h) \in held
    /\ \A h \in Hooks :
          hook[h].step = "claim" /\ hook[h].booking = "none" /\ MyRow(h).scheduling = "SQUARE"
             => Mine(h) \in unasked
    /\ \A h \in Hooks : hook[h].step = "commit" => MyRow(h).scheduling = "INTERNAL"
    /\ \A a \in Appts : IsConfirmed(a) /\ appt[a].scheduling = "SQUARE" => a \in held \cup unasked

\* Square gets at most one more booking in a step, apart from those it has.
LEMMA HeldGoesOn ==
    ASSUME Base, Effect
    PROVE  \/ held' = held
           \/ \E a \in Appts : /\ held' = held \cup {a}
                               /\ \A b \in held : Apart(appt'[b], appt'[a])
<1>1. \A b \in held : b \in Appts /\ appt[b].status # "NONE"
  BY DEF Base, RowsExist, SquareTypeOK
<1>2. \A b \in held : appt'[b].start = appt[b].start /\ appt'[b].finish = appt[b].finish
  BY <1>1, RowsGoOn
<1>3. ASSUME NEW a \in Appts, NewOffer(a)
      PROVE  held' = held \/ (held' = held \cup {a} /\ \A b \in held : Apart(appt'[b], appt'[a]))
  BY <1>2, <1>3 DEF NewOffer, Apart
<1>4. ASSUME NEW h \in Hooks, GoesOn(h) \/ GetsBooking(h)
      PROVE  /\ Mine(h) \in Appts
             /\ held' = held \/ (held' = held \cup {Mine(h)} /\ \A b \in held : Apart(appt'[b], appt'[Mine(h)]))
  <2>1. HeldOne(h) /\ appt' = appt /\ hook[h].step \in Steps
    BY <1>4 DEF GoesOn, GetsBooking, Goes, Steps
  <2> QED BY <2>1, Running DEF HeldOne, FreeAtSquare, Base
<1>5. CASE \E a \in Appts : NewOffer(a)
  BY <1>3, <1>5
<1>6. CASE \E h \in Hooks : GoesOn(h) \/ GetsBooking(h)
  BY <1>4, <1>6
<1>7. CASE Quiet \/ (\E a \in Appts : CalledOff(a))
             \/ \E h \in Hooks : \/ \E a \in Appts : Begins(h, a)
                                 \/ Claims(h) \/ Commits(h) \/ Marks(h) \/ Confirms(h) \/ Dies(h)
  BY <1>7 DEF Quiet, CalledOff, Begins, Claims, Commits, Marks, Confirms, Dies
<1> QED BY <1>5, <1>6, <1>7 DEF Effect

\* What a step makes of a handler that will run.
LEMMA HandlerAfter ==
    ASSUME Base, Effect, NEW g \in Hooks, hook'[g].step \in Steps
    PROVE  \/ \E a \in Appts : Begins(g, a)
           \/ GetsBooking(g) \/ Claims(g) \/ Commits(g)
           \/ /\ hook[g].step \in Steps /\ hook'[g].appt = hook[g].appt
              /\ hook'[g].booking = hook[g].booking
              /\ \/ hook'[g].step = hook[g].step
                 \/ hook'[g].step \in {"book", "ledger", "mark"}
                 \/ hook[g].step \in {"select", "losers"} /\ hook'[g].step = "losers"
<1>1. CASE Quiet \/ \E a \in Appts : NewOffer(a)
  BY <1>1 DEF Quiet, NewOffer
<1>2. CASE \E a \in Appts : CalledOff(a)
  BY <1>2 DEF CalledOff, Goes
<1>3. ASSUME NEW h \in Hooks, h # g,
             \/ \E a \in Appts : Begins(h, a)
             \/ GoesOn(h) \/ GetsBooking(h) \/ Claims(h) \/ Commits(h) \/ Marks(h) \/ Confirms(h) \/ Dies(h)
      PROVE  hook'[g] = hook[g]
  BY <1>3 DEF Begins, GoesOn, GetsBooking, Claims, Commits, Marks, Confirms, Dies, Goes, Stops
<1>4. CASE GoesOn(g)
  BY <1>4 DEF GoesOn, Goes, Steps
<1>5. CASE Marks(g) \/ Confirms(g) \/ Dies(g)
  BY <1>5 DEF Marks, Confirms, Dies, Stops, Steps
<1>6. CASE hook'[g] = hook[g]
  BY <1>6
<1> QED BY <1>1, <1>2, <1>3, <1>4, <1>5, <1>6 DEF Effect

\* What a step makes of a row.
LEMMA RowAfter ==
    ASSUME Base, Effect, NEW a \in Appts
    PROVE  \/ appt'[a] = appt[a] \/ NewOffer(a)
           \/ \E h \in Hooks : Commits(h) /\ Mine(h) = a
           \/ /\ appt[a].status # "NONE" /\ appt'[a].booking = appt[a].booking
              /\ appt'[a].status \in Cancelled \cup {Unavailable}
              /\ CalledOff(a) \/ \E h \in Hooks : Marks(h) /\ Mine(h) = a /\ appt[a].status = Pending
<1>1. CASE appt' = appt
  BY <1>1
<1>2. ASSUME NEW b \in Appts, NewOffer(b) \/ CalledOff(b), b # a
      PROVE  appt'[a] = appt[a]
  BY <1>2 DEF NewOffer, CalledOff, Inserted, Restated
<1>3. ASSUME NEW h \in Hooks, Commits(h) \/ Marks(h), Mine(h) # a
      PROVE  appt'[a] = appt[a]
  BY <1>3 DEF Commits, Marks, Restated
<1>4. CASE CalledOff(a)
  BY <1>4 DEF CalledOff, Restated
<1>5. ASSUME NEW h \in Hooks, Marks(h), Mine(h) = a, appt' # appt
      PROVE  /\ appt[a].status # "NONE" /\ appt'[a].booking = appt[a].booking
             /\ appt'[a].status = Unavailable /\ appt[a].status = Pending
  BY <1>5 DEF Marks, Restated, MyRow, Mine
<1>6. ASSUME NEW h \in Hooks, NEW b \in Appts,
             Begins(h, b) \/ GoesOn(h) \/ GetsBooking(h) \/ Claims(h) \/ Confirms(h) \/ Dies(h)
      PROVE  appt' = appt
  BY <1>6 DEF Begins, GoesOn, GetsBooking, Claims, Confirms, Dies
<1>7. CASE Quiet
  BY <1>7 DEF Quiet
<1> QED BY <1>1, <1>2, <1>3, <1>4, <1>5, <1>6, <1>7 DEF Effect

LEMMA HeldStep ==
    ASSUME Base, Held, [Next]_vars
    PROVE  Held'
<1>1. SquareTypeOK' /\ Effect
  BY NextEffect
<1>2. \A a, b \in held' : a # b => Apart(appt'[a], appt'[b])
  <2>1. \A a, b \in held : a # b => Apart(appt'[a], appt'[b])
    <3>1. \A a \in held : a \in Appts /\ appt[a].status # "NONE"
      BY DEF Base, RowsExist, SquareTypeOK
    <3>2. \A a \in held : appt'[a].start = appt[a].start /\ appt'[a].finish = appt[a].finish
      BY <1>1, <3>1, RowsGoOn
    <3> QED BY <3>2 DEF Held, Apart
  <2>2. CASE held' = held
    BY <2>1, <2>2
  <2>3. ASSUME NEW c \in Appts, held' = held \cup {c}, \A b \in held : Apart(appt'[b], appt'[c])
        PROVE  \A a, b \in held' : a # b => Apart(appt'[a], appt'[b])
    <3>1. \A b \in held : Apart(appt'[c], appt'[b])
      BY <2>3 DEF Apart
    <3> QED BY <2>1, <2>3, <3>1
  <2> QED BY <1>1, <2>2, <2>3, HeldGoesOn
<1>3. held \subseteq held' /\ unasked \subseteq unasked'
  BY <1>1, RowsGoOn
<1>4. \A h \in Hooks : Commits(h) => hook[h].step \in {"claim", "commit"} /\ hook[h].step \in Steps
  BY DEF Commits, Goes, Steps
<1>5. \A h \in Hooks : Commits(h) =>
         /\ appt'[Mine(h)].booking = hook[h].booking /\ appt'[Mine(h)].status = "CONFIRMED"
         /\ appt'[Mine(h)].scheduling = MyRow(h).scheduling
  BY DEF Commits, Restated, MyRow, Mine
<1>6. ASSUME NEW a \in Appts, appt'[a].booking = "booked"
      PROVE  a \in held'
  <2>1. CASE NewOffer(a)
    BY <1>6, <2>1 DEF NewOffer
  <2>2. CASE \E h \in Hooks : Commits(h) /\ Mine(h) = a
    BY <1>3, <1>4, <1>5, <1>6, <2>2 DEF Held
  <2> QED BY <1>1, <1>3, <1>6, <2>1, <2>2, RowAfter DEF Held
<1>7. ASSUME NEW h \in Hooks, hook'[h].step \in Steps
      PROVE  /\ hook'[h].booking = "booked" => hook'[h].appt \in held'
             /\ hook'[h].step = "claim" /\ hook'[h].booking = "none"
                   /\ appt'[hook'[h].appt].scheduling = "SQUARE" => hook'[h].appt \in unasked'
             /\ hook'[h].step = "commit" => appt'[hook'[h].appt].scheduling = "INTERNAL"
  <2>1. ASSUME NEW a \in Appts, Begins(h, a)
        PROVE  /\ hook'[h].appt = a /\ hook'[h].booking = appt[a].booking /\ hook'[h].step # "commit"
               /\ appt'[a] = appt[a]
               /\ hook'[h].step = "claim" /\ appt[a].booking = "none" /\ appt[a].scheduling = "SQUARE"
                    => a \in unasked'
    BY <2>1 DEF Begins
  <2>2. CASE \E a \in Appts : Begins(h, a)
    BY <1>3, <2>1, <2>2 DEF Held
  <2>3. CASE GetsBooking(h)
    BY <2>3 DEF GetsBooking, Mine
  <2>4. CASE Claims(h)
    <3>1. hook[h].step \in Steps /\ hook'[h].step = "commit" /\ hook'[h].appt = hook[h].appt
          /\ hook'[h].booking = hook[h].booking /\ appt' = appt /\ MyRow(h).scheduling = "INTERNAL"
      BY <2>4 DEF Claims, Goes, Steps
    <3> QED BY <1>3, <3>1 DEF Held, MyRow, Mine
  <2>5. CASE Commits(h)
    <3>1. hook[h].step \in Steps /\ hook'[h].step = "select" /\ hook'[h].appt = hook[h].appt
          /\ hook'[h].booking = hook[h].booking
      BY <2>5 DEF Commits, Goes, Steps
    <3> QED BY <1>3, <3>1 DEF Held, Mine
  <2>6. CASE /\ hook[h].step \in Steps /\ hook'[h].appt = hook[h].appt
             /\ hook'[h].booking = hook[h].booking
             /\ hook'[h].step \in {"claim", "commit"} => hook'[h].step = hook[h].step
    <3>1. Mine(h) \in Appts /\ appt[Mine(h)].status # "NONE"
      BY <2>6, Running DEF Base, RowsExist
    <3>2. appt'[Mine(h)].scheduling = appt[Mine(h)].scheduling
      BY <1>1, <3>1, RowsGoOn
    <3> QED BY <1>3, <2>6, <3>2 DEF Held, MyRow, Mine
  <2> QED BY <1>1, <1>7, <2>2, <2>3, <2>4, <2>5, <2>6, HandlerAfter
<1>8. ASSUME NEW a \in Appts, appt'[a].status = "CONFIRMED", appt'[a].scheduling = "SQUARE"
      PROVE  a \in held' \cup unasked'
  <2>1. CASE appt'[a] = appt[a]
    BY <1>3, <1>8, <2>1 DEF Held, IsConfirmed
  <2>2. CASE NewOffer(a)
    BY <1>8, <2>2 DEF NewOffer, Inserted, Pending
  <2>3. ASSUME NEW h \in Hooks, Commits(h), Mine(h) = a
        PROVE  a \in held \cup unasked
    <3>1. hook[h].booking \in {"none", "booked"}
      BY <1>4, <2>3, Running DEF Base
    <3>2. hook[h].step # "commit" /\ MyRow(h).scheduling = "SQUARE"
      BY <1>5, <1>8, <2>3 DEF Held
    <3> QED BY <1>4, <2>3, <3>1, <3>2 DEF Held
  <2>4. CASE appt'[a].status \in Cancelled \cup {Unavailable}
    BY <1>8, <2>4 DEF Cancelled, Unavailable
  <2> QED BY <1>1, <1>3, <2>1, <2>2, <2>3, <2>4, RowAfter
<1> QED BY <1>2, <1>6, <1>7, <1>8 DEF Held, IsConfirmed, MyRow, Mine, Steps

LEMMA HeldApart == Base /\ Held => SquareRowsApart
BY DEF Base, SquareTypeOK, Held, SquareRowsApart

\* Two confirmed appointments that Square schedules are apart, for any periods,
\* any number of clients, links and handlers: the rows that are confirmed are
\* held at Square, or their artist was disconnected.
THEOREM SquareRowsNeverOverlap == Spec => []SquareRowsApart
<1>1. Init => Held
  BY DEF Init, Held, NoAppointment, Idle, Steps, IsConfirmed
<1>2. Base /\ Held /\ [Next]_vars => Base' /\ Held'
  BY BaseStep, HeldStep
<1> QED BY BaseInit, HeldApart, <1>1, <1>2, PTL DEF Spec

-----------------------------------------------------------------------------
(* Appointments that Maia schedules.                                        *)

\* Handlers that hold the lock hold it for different start times, at which
\* nothing else is confirmed.
Lock ==
    /\ \A h \in Hooks : hook[h].step = "commit" => MyRow(h).scheduling = "INTERNAL"
    /\ \A g, h \in Hooks : g # h /\ hook[g].step = "commit" /\ hook[h].step = "commit"
                              => MyRow(g).start # MyRow(h).start
    /\ \A h \in Hooks, b \in Appts :
          /\ hook[h].step = "commit" /\ b # Mine(h)
          /\ IsConfirmed(b) /\ appt[b].scheduling = "INTERNAL"
          => appt[b].start # MyRow(h).start
    /\ SameStartOnce

\* A row that is confirmed was, or is being confirmed by its handler.
LEMMA ConfirmedAfter ==
    ASSUME Base, Effect, NEW a \in Appts, appt'[a].status = "CONFIRMED"
    PROVE  /\ appt[a].status # "NONE" /\ appt'[a].start = appt[a].start
           /\ appt'[a].scheduling = appt[a].scheduling
           /\ \/ appt[a].status = "CONFIRMED"
              \/ \E h \in Hooks : Commits(h) /\ Mine(h) = a
<1>1. appt[a].status # "NONE"
  BY RowsGoOn DEF Pending
<1>2. CASE NewOffer(a)
  BY <1>2 DEF NewOffer, Inserted, Pending
<1>3. CASE appt'[a].status \in Cancelled \cup {Unavailable}
  BY <1>3 DEF Cancelled, Unavailable
<1> QED BY <1>1, <1>2, <1>3, RowAfter, RowsGoOn

\* A handler that holds the lock had it, or takes it.
LEMMA LockAfter ==
    ASSUME Base, Effect, NEW h \in Hooks, hook'[h].step = "commit"
    PROVE  /\ hook[h].step \in {"claim", "commit"} /\ hook'[h].appt = hook[h].appt
           /\ Mine(h) \in Appts /\ MyRow(h).status # "NONE"
           /\ appt'[Mine(h)].start = MyRow(h).start
           /\ appt'[Mine(h)].scheduling = MyRow(h).scheduling
           /\ hook[h].step = "commit" \/ Claims(h)
<1>1. hook'[h].step \in Steps
  BY DEF Steps
<1>2. /\ hook[h].step \in {"claim", "commit"} /\ hook'[h].appt = hook[h].appt
      /\ hook[h].step = "commit" \/ Claims(h)
  <2>1. ~(\E a \in Appts : Begins(h, a)) /\ ~GetsBooking(h) /\ ~Commits(h)
    BY DEF Begins, GetsBooking, Commits, Goes
  <2>2. Claims(h) => hook[h].step = "claim" /\ hook'[h].appt = hook[h].appt
    BY DEF Claims, Goes
  <2> QED BY <1>1, <2>1, <2>2, HandlerAfter
<1>3. Mine(h) \in Appts /\ MyRow(h).status # "NONE"
  BY <1>2, Running DEF Base, RowsExist, Steps, MyRow, Mine
<1> QED BY <1>2, <1>3, RowsGoOn DEF MyRow, Mine

LEMMA LockStep ==
    ASSUME Base, Lock, [Next]_vars
    PROVE  Lock'
<1>1. Effect
  BY NextEffect
<1>2. ASSUME NEW g \in Hooks, NEW h \in Hooks, g # h, Claims(h)
      PROVE  hook'[g] = hook[g] /\ appt' = appt /\ hook[h].step = "claim"
  BY <1>2 DEF Claims, Goes
<1>3. ASSUME NEW h \in Hooks, Claims(h)
      PROVE  /\ MyRow(h).scheduling = "INTERNAL" /\ appt' = appt
             /\ \A g \in Hooks \ {h} : hook[g].step = "commit" => MyRow(g).start # MyRow(h).start
             /\ \A b \in Appts \ {Mine(h)} : appt[b].status = "CONFIRMED" => appt[b].start # MyRow(h).start
  <2>1. hook[h].step = "claim" /\ appt' = appt /\ MyRow(h).scheduling = "INTERNAL"
        /\ ~Locked(h) /\ ~Conflict(Mine(h))
    BY <1>3 DEF Claims, Goes
  <2>2. Mine(h) \in Appts /\ appt[Mine(h)] \in Appointments /\ appt[Mine(h)].status # "NONE"
    BY <2>1, Running DEF Base, RowsExist, Steps
  <2>3. appt[Mine(h)].start < appt[Mine(h)].finish
    BY <2>2 DEF Base, RowsExist
  <2>4. ASSUME NEW b \in Appts, b # Mine(h), appt[b].status = "CONFIRMED"
        PROVE  appt[b].start # appt[Mine(h)].start
    <3>1. ~Meets(appt[b], appt[Mine(h)])
      BY <2>1, <2>4 DEF Conflict
    <3>2. appt[b] \in Appointments /\ appt[b].start < appt[b].finish
      BY <2>4 DEF Base, RowsExist, SquareTypeOK
    <3> QED BY <2>2, <2>3, <3>1, <3>2 DEF Meets, Appointments
  <2> QED BY <2>1, <2>4 DEF Locked, At, MyRow, Mine
<1>4. ASSUME NEW h \in Hooks, Commits(h)
      PROVE  /\ Mine(h) \in Appts /\ hook'[h].step = "select"
             /\ \A g \in Hooks \ {h} : hook'[g] = hook[g]
             /\ hook[h].step = "commit" \/ MyRow(h).scheduling = "SQUARE"
  BY <1>4, Running DEF Commits, Goes, Steps, Base
<1>5. ASSUME NEW h \in Hooks, hook'[h].step = "commit"
      PROVE  appt'[Mine(h)].scheduling = "INTERNAL"
  BY <1>1, <1>3, <1>5, LockAfter DEF Lock
<1>6. ASSUME NEW g \in Hooks, NEW h \in Hooks, g # h, hook'[g].step = "commit", hook'[h].step = "commit"
      PROVE  MyRow(g).start # MyRow(h).start
  <2>1. CASE Claims(h)
    BY <1>2, <1>3, <1>6, <2>1
  <2>2. CASE Claims(g)
    BY <1>2, <1>3, <1>6, <2>2
  <2> QED BY <1>1, <1>6, <2>1, <2>2, LockAfter DEF Lock
<1>7. ASSUME NEW h \in Hooks, hook'[h].step = "commit", NEW b \in Appts, b # Mine(h),
             appt'[b].status = "CONFIRMED", appt'[b].scheduling = "INTERNAL"
      PROVE  appt[b].start # MyRow(h).start
  <2>1. CASE Claims(h)
    BY <1>3, <1>7, <2>1
  <2>2. CASE hook[h].step = "commit" /\ appt[b].status = "CONFIRMED"
    BY <1>1, <1>7, <2>2, ConfirmedAfter DEF Lock, IsConfirmed
  <2>3. ASSUME NEW g \in Hooks, Commits(g), Mine(g) = b, hook[h].step = "commit"
        PROVE  appt[b].start # MyRow(h).start
    <3>1. g # h /\ hook[g].step = "commit"
      BY <1>1, <1>4, <1>7, <2>3, ConfirmedAfter DEF MyRow, Mine
    <3> QED BY <2>3, <3>1 DEF Lock, MyRow, Mine
  <2> QED BY <1>1, <1>7, <2>1, <2>2, <2>3, ConfirmedAfter, LockAfter
<1>8. ASSUME NEW a \in Appts, NEW b \in Appts, a # b,
             appt'[a].status = "CONFIRMED", appt'[a].scheduling = "INTERNAL",
             appt'[b].status = "CONFIRMED", appt'[b].scheduling = "INTERNAL"
      PROVE  appt'[a].start # appt'[b].start
  <2>1. /\ appt'[a].start = appt[a].start /\ appt'[b].start = appt[b].start
        /\ appt[a].scheduling = "INTERNAL" /\ appt[b].scheduling = "INTERNAL"
        /\ appt[a].status = "CONFIRMED" \/ \E h \in Hooks : Commits(h) /\ Mine(h) = a
        /\ appt[b].status = "CONFIRMED" \/ \E h \in Hooks : Commits(h) /\ Mine(h) = b
    BY <1>1, <1>8, ConfirmedAfter
  <2>2. CASE appt[a].status = "CONFIRMED" /\ appt[b].status = "CONFIRMED"
    BY <1>8, <2>1, <2>2 DEF Lock, SameStartOnce, IsConfirmed
  <2>3. ASSUME NEW c \in Appts, NEW d \in Appts, c # d, NEW h \in Hooks, Commits(h), Mine(h) = c,
               appt[c].scheduling = "INTERNAL",
               appt[d].status = "CONFIRMED", appt[d].scheduling = "INTERNAL"
        PROVE  appt[c].start # appt[d].start
    BY <1>4, <2>3 DEF Lock, IsConfirmed, MyRow, Mine
  <2>4. ASSUME NEW g \in Hooks, NEW h \in Hooks, Commits(g), Commits(h), Mine(g) = a, Mine(h) = b
        PROVE  FALSE
    <3>1. appt'[a] = appt[a] \/ appt'[b] = appt[b]
      BY <1>8, <2>4 DEF Commits, Restated
    <3>2. appt[a].status = Pending /\ appt[b].status = Pending
      BY <2>4 DEF Commits, MyRow, Mine
    <3> QED BY <1>8, <3>1, <3>2 DEF Pending
  <2> QED BY <1>8, <2>1, <2>2, <2>3, <2>4
<1>9. \A h \in Hooks : hook'[h].step = "commit" =>
         /\ hook'[h].appt = Mine(h) /\ Mine(h) \in Appts
         /\ appt'[Mine(h)].start = MyRow(h).start
  BY <1>1, LockAfter DEF Mine
<1>10. \A b \in Appts : appt'[b].status = "CONFIRMED" => appt'[b].start = appt[b].start
  BY <1>1, ConfirmedAfter
<1>11. ASSUME NEW h \in Hooks, hook'[h].step = "commit"
       PROVE  /\ appt'[hook'[h].appt].scheduling = "INTERNAL"
              /\ \A g \in Hooks : g # h /\ hook'[g].step = "commit"
                    => appt'[hook'[g].appt].start # appt'[hook'[h].appt].start
              /\ \A b \in Appts \ {hook'[h].appt} :
                    appt'[b].status = "CONFIRMED" /\ appt'[b].scheduling = "INTERNAL"
                    => appt'[b].start # appt'[hook'[h].appt].start
  BY <1>5, <1>6, <1>7, <1>9, <1>10, <1>11
<1>12. SameStartOnce'
  BY <1>8 DEF SameStartOnce, IsConfirmed
<1>13. \A h \in Hooks : hook'[h].step = "commit" => appt'[hook'[h].appt].scheduling = "INTERNAL"
  BY <1>11
<1>14. \A g, h \in Hooks : g # h /\ hook'[g].step = "commit" /\ hook'[h].step = "commit"
          => appt'[hook'[g].appt].start # appt'[hook'[h].appt].start
  BY <1>11
<1>15. \A h \in Hooks, b \in Appts :
          /\ hook'[h].step = "commit" /\ b # hook'[h].appt
          /\ appt'[b].status = "CONFIRMED" /\ appt'[b].scheduling = "INTERNAL"
          => appt'[b].start # appt'[hook'[h].appt].start
  BY <1>11
<1> QED BY <1>12, <1>13, <1>14, <1>15, Zenon DEF Lock, IsConfirmed, MyRow, Mine

\* Deposits confirm one of the appointments that Maia schedules for one start
\* time, however many clients pay for it and however many handlers run.
THEOREM SameStartConfirmedOnce == Spec => []SameStartOnce
<1>1. Init => Lock
  <2>1. ASSUME Init
        PROVE  /\ \A a \in Appts : appt[a].status # "CONFIRMED"
               /\ \A h \in Hooks : hook[h].step # "commit"
    BY <2>1 DEF Init, NoAppointment, Idle
  <2> QED BY <2>1 DEF Lock, SameStartOnce, IsConfirmed
<1>2. Base /\ Lock /\ [Next]_vars => Base' /\ Lock'
  BY BaseStep, LockStep
<1>3. Lock => SameStartOnce
  BY DEF Lock
<1> QED BY BaseInit, <1>1, <1>2, <1>3, PTL DEF Spec

-----------------------------------------------------------------------------
(* Confirmations, answers and cancellations.                                *)

Settled(a) == appt[a].status \notin Unsettled
Finishing(h) == hook[h].step \in {"select", "losers"}

\* A row is confirmed before its client is told, and by one handler; a paid row
\* that is settled shows its deposit.
Finish ==
    /\ \A h \in Hooks : Finishing(h) => Settled(Mine(h)) /\ confirmations[Mine(h)] = 0
    /\ \A g, h \in Hooks : g # h /\ Finishing(g) /\ Finishing(h) => Mine(g) # Mine(h)
    /\ \A a \in Appts : confirmations[a] \in {0, 1}
    /\ \A a \in Appts : confirmations[a] = 1 \/ a \in answered => Settled(a)
    /\ \A a \in Appts : appt[a].status \in {"CONFIRMED", Unavailable} => appt[a].deposit = "PAID"

LEMMA SettledStays ==
    ASSUME Base, Effect, NEW a \in Appts, Settled(a)
    PROVE  Settled(a)' /\ ~(\E h \in Hooks : Commits(h) /\ Mine(h) = a)
<1>1. ~NewOffer(a) /\ ~(\E h \in Hooks : Commits(h) /\ Mine(h) = a)
  BY DEF NewOffer, Inserted, Commits, MyRow, Mine, Settled, Unsettled
<1>2. (Cancelled \cup {Unavailable}) \cap Unsettled = {}
  BY DEF Cancelled, Unavailable, Unsettled, Pending
<1> QED BY <1>1, <1>2, RowAfter DEF Settled

\* A handler that finishes did so before, or has just confirmed the row.
LEMMA FinishAfter ==
    ASSUME Base, Effect, NEW h \in Hooks, hook'[h].step \in {"select", "losers"}
    PROVE  /\ hook'[h].appt = hook[h].appt /\ Mine(h) \in Appts
           /\ Finishing(h) \/ Commits(h)
<1>1. hook'[h].step \in Steps
  BY DEF Steps
<1>2. ~(\E a \in Appts : Begins(h, a)) /\ ~GetsBooking(h) /\ ~Claims(h)
  BY DEF Begins, GetsBooking, Claims, Goes
<1>3. Commits(h) => hook'[h].appt = hook[h].appt /\ hook[h].step \in Steps
  BY DEF Commits, Goes, Steps
<1>4. /\ hook[h].step \in Steps /\ hook'[h].appt = hook[h].appt
      /\ Finishing(h) \/ Commits(h)
  BY <1>1, <1>2, <1>3, HandlerAfter DEF Finishing
<1> QED BY <1>4, Running DEF Base

LEMMA FinishStep ==
    ASSUME Base, Finish, [Next]_vars
    PROVE  Finish'
<1>1. Effect /\ Base'
  BY NextEffect, BaseStep
<1>2. ASSUME NEW h \in Hooks, Confirms(h)
      PROVE  /\ Finishing(h) /\ hook'[h].step = "idle" /\ answered' = answered \cup {Mine(h)}
             /\ confirmations' = [confirmations EXCEPT ![Mine(h)] = @ + 1] /\ Mine(h) \in Appts
             /\ \A g \in Hooks \ {h} : hook'[g] = hook[g]
  BY <1>2, Running DEF Confirms, Stops, Finishing, Steps, Base
<1>3. UNCHANGED confirmations \/ \E h \in Hooks : Confirms(h)
  BY <1>1 DEF Effect, Quiet, NewOffer, CalledOff, Begins, GoesOn, GetsBooking, Claims, Commits, Marks, Dies
<1>4. ASSUME NEW h \in Hooks, Commits(h)
      PROVE  /\ Mine(h) \in Appts /\ ~Settled(Mine(h)) /\ confirmations[Mine(h)] = 0
             /\ appt'[Mine(h)].deposit = "PAID" /\ confirmations' = confirmations
             /\ \A g \in Hooks \ {h} : hook'[g] = hook[g]
  <2>1. hook[h].step \in Steps /\ appt[Mine(h)].status = Pending
        /\ appt'[Mine(h)].status = "CONFIRMED" /\ appt'[Mine(h)].deposit = "PAID"
        /\ confirmations' = confirmations /\ \A g \in Hooks \ {h} : hook'[g] = hook[g]
    BY <1>4 DEF Commits, Goes, Steps, MyRow, Mine, Restated
  <2>2. Mine(h) \in Appts /\ ~Settled(Mine(h)) /\ appt'[Mine(h)].status \notin Unsettled
    BY <2>1, Running DEF Settled, Unsettled, Pending, Base
  <2> QED BY <2>1, <2>2 DEF Finish, Settled, Mine
<1>5. ASSUME NEW h \in Hooks, hook'[h].step \in {"select", "losers"}
      PROVE  appt'[Mine(h)].status \notin Unsettled /\ confirmations'[Mine(h)] = 0
  <2>1. Mine(h) \in Appts /\ confirmations[Mine(h)] = 0
    BY <1>1, <1>4, <1>5, FinishAfter DEF Finish
  <2>2. appt'[Mine(h)].status \notin Unsettled
    <3>1. CASE Finishing(h)
      BY <1>1, <2>1, <3>1, SettledStays DEF Finish, Settled
    <3>2. CASE Commits(h)
      BY <3>2 DEF Commits, Restated, Unsettled, Pending, Mine
    <3> QED BY <1>1, <1>5, <3>1, <3>2, FinishAfter
  <2>3. CASE \E g \in Hooks : Confirms(g)
    <3>1. PICK g \in Hooks : Confirms(g)
      BY <2>3
    <3>2. g # h /\ Finishing(h) /\ Finishing(g)
      BY <1>2, <1>5, <3>1 DEF Finishing
    <3> QED BY <1>2, <2>1, <2>2, <3>1, <3>2 DEF Finish, Base, SquareTypeOK
  <2> QED BY <1>3, <2>1, <2>2, <2>3
<1>6. ASSUME NEW g \in Hooks, NEW h \in Hooks, g # h,
             hook'[g].step \in {"select", "losers"}, hook'[h].step \in {"select", "losers"}
      PROVE  Mine(g) # Mine(h)
  <2>1. CASE Finishing(g) /\ Finishing(h)
    BY <1>6, <2>1 DEF Finish
  <2>2. ASSUME NEW i \in Hooks, NEW j \in Hooks, i # j, Commits(i), hook'[j].step \in {"select", "losers"}
        PROVE  Mine(i) # Mine(j)
    <3>1. Finishing(j) /\ ~Settled(Mine(i))
      BY <1>4, <2>2 DEF Finishing
    <3> QED BY <3>1 DEF Finish
  <2> QED BY <1>1, <1>6, <2>1, <2>2, FinishAfter
<1>7. ASSUME NEW a \in Appts
      PROVE  confirmations'[a] \in {0, 1} /\ (confirmations'[a] = 1 => appt'[a].status \notin Unsettled)
  <2>1. confirmations[a] = 1 => appt'[a].status \notin Unsettled
    BY <1>1, SettledStays DEF Finish, Settled
  <2>2. ASSUME NEW h \in Hooks, Confirms(h)
        PROVE  confirmations'[a] = IF a = Mine(h) THEN 1 ELSE confirmations[a]
    BY <1>2, <2>2 DEF Finish, Base, SquareTypeOK
  <2>3. ASSUME NEW h \in Hooks, Confirms(h), a = Mine(h)
        PROVE  appt'[a].status \notin Unsettled
    BY <1>1, <1>2, <2>3, SettledStays DEF Finish, Settled
  <2> QED BY <1>3, <2>1, <2>2, <2>3 DEF Finish
<1>8. ASSUME NEW a \in Appts, a \in answered'
      PROVE  appt'[a].status \notin Unsettled
  <2>1. CASE a \in answered
    BY <1>1, <2>1, SettledStays DEF Finish, Settled
  <2>2. ASSUME NEW h \in Hooks, Confirms(h), a = Mine(h)
        PROVE  appt'[a].status \notin Unsettled
    BY <1>1, <1>2, <2>2, SettledStays DEF Finish, Settled
  <2>3. ASSUME NEW h \in Hooks, Marks(h), a = Mine(h)
        PROVE  appt'[a].status \notin Unsettled
    <3>1. appt[a].status # "NONE"
      BY <2>3 DEF Marks, Base, RowsExist, Steps, Mine
    <3> QED BY <2>3, <3>1 DEF Marks, Restated, MyRow, Mine, Unsettled, Unavailable, Pending
  <2>4. answered' = answered \/ \E h \in Hooks : answered' = answered \cup {Mine(h)} /\ (Confirms(h) \/ Marks(h))
    BY <1>1, <1>2 DEF Effect, Quiet, NewOffer, CalledOff, Begins, GoesOn, GetsBooking, Claims, Commits, Marks, Dies
  <2> QED BY <1>8, <2>1, <2>2, <2>3, <2>4
<1>9. ASSUME NEW a \in Appts, appt'[a].status \in {"CONFIRMED", Unavailable}
      PROVE  appt'[a].deposit = "PAID"
  <2>1. ~NewOffer(a) /\ ~CalledOff(a)
    BY <1>9 DEF NewOffer, Inserted, CalledOff, Restated, Cancelled, Unavailable, Pending
  <2>2. ASSUME NEW h \in Hooks, Marks(h), Mine(h) = a, appt[a].status = Pending
        PROVE  appt'[a].deposit = "PAID"
    BY <2>2 DEF Marks, MyRow, Mine
  <2> QED BY <1>1, <1>4, <1>9, <2>1, <2>2, RowAfter DEF Finish
<1>10. \A h \in Hooks : hook'[h].step \in {"select", "losers"} => hook'[h].appt = Mine(h)
  BY <1>1, FinishAfter DEF Mine
<1>11. \A h \in Hooks : hook'[h].step \in {"select", "losers"} =>
          appt'[hook'[h].appt].status \notin Unsettled /\ confirmations'[hook'[h].appt] = 0
  BY <1>5, <1>10
<1>12. \A g, h \in Hooks :
          g # h /\ hook'[g].step \in {"select", "losers"} /\ hook'[h].step \in {"select", "losers"}
          => hook'[g].appt # hook'[h].appt
  BY <1>6, <1>10
<1> QED BY <1>7, <1>8, <1>9, <1>11, <1>12 DEF Finish, Settled, Finishing, Mine

LEMMA FinishInit == Init => Finish
BY DEF Init, Finish, Finishing, NoAppointment, Idle, Unavailable

\* However often Square repeats a payment and however its handlers interleave or
\* stop, a client is told of the confirmation at most once.
THEOREM ClientConfirmedOnce == Spec => []ConfirmedOnce
<1>1. Base /\ Finish /\ [Next]_vars => Base' /\ Finish'
  BY BaseStep, FinishStep
<1>2. Finish => ConfirmedOnce
  BY DEF Finish, ConfirmedOnce
<1> QED BY BaseInit, FinishInit, <1>1, <1>2, PTL DEF Spec

\* Square's event is answered only when the appointment shows the payment, or
\* was cancelled before.
THEOREM AnsweredPaymentIsDecided == Spec => []AnsweredIsDecided
<1>1. Base /\ Finish /\ [Next]_vars => Base' /\ Finish'
  BY BaseStep, FinishStep
<1>2. Base /\ Finish => AnsweredIsDecided
  BY DEF Base, SquareTypeOK, Appointments, Finish, Settled, Unsettled, AnsweredIsDecided, Decided
<1> QED BY BaseInit, FinishInit, <1>1, <1>2, PTL DEF Spec

\* Repeated events neither confirm an appointment twice nor leave it undecided.
THEOREM EveryDepositIsDecided == Spec => []DepositsDecided
<1>1. ConfirmedOnce /\ AnsweredIsDecided => DepositsDecided
  BY DEF DepositsDecided
<1> QED BY ClientConfirmedOnce, AnsweredPaymentIsDecided, <1>1, PTL

\* No payment, late or repeated, brings a cancelled appointment back.
THEOREM CancelledIsFinal == Spec => CancelledStays
<1>1. Base /\ [Next]_vars => Base'
  BY BaseStep
<1>2. Base /\ [Next]_vars =>
         [\A a \in Appts : appt[a].status \in Cancelled => appt'[a].status \in Cancelled]_vars
  <2>1. ASSUME Base, [Next]_vars, NEW a \in Appts, appt[a].status \in Cancelled
        PROVE  appt'[a].status \in Cancelled
    <3>1. Effect
      BY <2>1, NextEffect
    <3>2. appt[a].status # "NONE" /\ appt[a].status # Pending
      BY <2>1 DEF Cancelled, Pending
    <3>3. ~NewOffer(a) /\ ~(\E h \in Hooks : Commits(h) /\ Mine(h) = a)
      BY <3>2 DEF NewOffer, Inserted, Commits, MyRow, Mine
    <3>4. CalledOff(a) => appt'[a].status \in Cancelled
      BY DEF CalledOff, Restated
    <3> QED BY <2>1, <3>1, <3>2, <3>3, <3>4, RowAfter
  <2> QED BY <2>1
<1> QED BY BaseInit, <1>1, <1>2, PTL DEF Spec, CancelledStays

-----------------------------------------------------------------------------
(* Quotes (module QuoteTerms).                                             *)

Sums == Prices \cup {0}
QuoteRows == [kind : Kinds, price : Sums, visit : Nat]
TermRows == [visit : Nat, price : Sums]
LineRows == [who : {"client", "maia"}, says : {"yes", "another", "reply"}, terms : TermRows, shown : BOOLEAN,
             gone : BOOLEAN]
VisitRows == [price : Sums, at : Nat, asked : Sums]
ArtistRows == [pc : {"idle", "save", "done"}, does : {"APPROVE", "AI_SCHEDULING", "MANUAL", "LINK"}, copy : QuoteRows,
               at : Nat]
RunSteps == {"idle", "inquiry", "think", "square", "agree", "accept", "mark", "deliver", "handoff", "done"}
RunRows == [pc : RunSteps, seen : Nat, copy : QuoteRows, terms : TermRows, line : Nat, tools : 0 .. LastTool,
            handoff : BOOLEAN]

QuoteShapes ==
    /\ flags \in [ai : BOOLEAN, status : {"OPEN", "AWAITING_QUOTE", "QUOTE_APPROVED", "BOOKING_LINKED"}]
    /\ lines \in Seq(LineRows) /\ quotes \in Seq(QuoteRows) /\ visits \in Seq(VisitRows)
    /\ artist \in [Artists -> ArtistRows] /\ run \in [Runs -> RunRows]

\* A quote names an appointment exactly when it is booked, and a price once it was approved.
QuoteFits(q, n) ==
    /\ q.visit \in 0 .. n /\ (HasBooking(q) <=> q.visit # 0)
    /\ q.kind # "REQUESTED" => q.price \in Prices

\* Some reply presented these terms and the client's next word was yes.
Agreement(v, p) ==
    \E j \in 1 .. Len(lines) : \E i \in 1 .. (j - 1) :
       /\ lines[i].who = "maia" /\ lines[i].terms = [visit |-> v, price |-> p]
       /\ lines[j].says = "yes"
       /\ \A k \in (i + 1) .. (j - 1) : lines[k].who = "maia" => lines[k].gone = TRUE

\* An artist's request carries a price and names no appointment yet.
ArtistKnows(a) == artist[a].pc = "save" => artist[a].copy.price \in Prices /\ artist[a].copy.visit = 0

\* What is told of a reply that a run has stored and not yet delivered, and of the
\* quote that a run works on.
RunKnows(r) ==
    /\ QuoteFits(run[r].copy, Len(visits)) /\ run[r].terms.visit \in 0 .. Len(visits)
    /\ run[r].pc \in {"mark", "deliver"} =>
          /\ run[r].line \in 1 .. Len(lines) /\ lines[run[r].line].who = "maia"
          /\ lines[run[r].line].shown = FALSE /\ lines[run[r].line].gone = FALSE
    /\ run[r].pc = "mark" => lines[run[r].line].terms = NoTerms
    /\ run[r].pc = "square" => run[r].copy = Quote /\ Quote.kind = "AI_SCHEDULING"
    /\ run[r].pc \in {"agree", "accept"} => run[r].copy.kind = "LINKED"
    /\ run[r].pc = "accept" => Agreement(run[r].copy.visit, run[r].copy.price)

\* Two runs neither deliver one reply nor book together.
RunsApart ==
    \A r, s \in Runs : r # s =>
       /\ run[r].pc \in {"mark", "deliver"} /\ run[s].pc \in {"mark", "deliver"} => run[r].line # run[s].line
       /\ ~(run[r].pc = "square" /\ run[s].pc = "square")

\* What the client is told, what counts, and what is asked, are about the same appointments.
LinesFit == \A i \in 1 .. Len(lines) :
    lines[i].terms.visit \in 0 .. Len(visits) /\ ~(lines[i].gone = TRUE /\ lines[i].shown = TRUE)

QuotesFit == \A e \in 1 .. Len(quotes) :
    /\ QuoteFits(quotes[e], Len(visits))
    /\ quotes[e].kind = "ACCEPTED" => Agreement(quotes[e].visit, quotes[e].price)

VisitsFit == \A v \in 1 .. Len(visits) : visits[v].asked # 0 => Agreement(v, visits[v].asked)

QuoteInv ==
    /\ QuoteShapes /\ LinesFit /\ QuotesFit /\ VisitsFit /\ RunsApart
    /\ (\A a \in Artists : ArtistKnows(a)) /\ \A r \in Runs : RunKnows(r)

LEMMA QuoteLengths ==
    ASSUME QuoteShapes
    PROVE  /\ Len(lines) \in Nat /\ Len(quotes) \in Nat /\ Len(visits) \in Nat
           /\ \A i \in 1 .. Len(lines) : lines[i] \in LineRows
           /\ \A e \in 1 .. Len(quotes) : quotes[e] \in QuoteRows
           /\ \A v \in 1 .. Len(visits) : visits[v] \in VisitRows
           /\ \A r \in Runs : run[r] \in RunRows
           /\ \A a \in Artists : artist[a] \in ArtistRows
BY DEF QuoteShapes

LEMMA NoQuoteFits == ASSUME NEW n \in Nat PROVE NoQuote \in QuoteRows /\ QuoteFits(NoQuote, n) /\ ~HasBooking(NoQuote)
BY DEF NoQuote, QuoteRows, QuoteFits, HasBooking, Kinds, Sums

LEMMA NoTermsFit == NoTerms \in TermRows /\ NoTerms.visit = 0
BY DEF NoTerms, TermRows, Sums

\* The newest quote event.
LEMMA QuoteIs ==
    ASSUME QuoteInv
    PROVE  /\ Quote \in QuoteRows /\ QuoteFits(Quote, Len(visits))
           /\ Quote.kind # "REQUESTED" => Len(quotes) # 0 /\ Quote = quotes[Len(quotes)]
           /\ Quote.kind = "ACCEPTED" => Agreement(Quote.visit, Quote.price)
<1>1. quotes \in Seq(QuoteRows) /\ Len(visits) \in Nat /\ Len(quotes) \in Nat
  BY QuoteLengths DEF QuoteInv, QuoteShapes
<1>2. CASE quotes = << >>
  <2>1. Quote = NoQuote /\ NoQuote.kind = "REQUESTED"
    BY <1>2 DEF Quote, NoQuote
  <2>2. "REQUESTED" # "ACCEPTED"
    OBVIOUS
  <2> QED BY <1>1, <2>1, <2>2, NoQuoteFits
<1>3. CASE quotes # << >>
  <2>1. Len(quotes) \in 1 .. Len(quotes) /\ Quote = quotes[Len(quotes)] /\ Len(quotes) # 0
    BY <1>1, <1>3 DEF Quote, Last
  <2> QED BY <1>1, <2>1, QuoteLengths DEF QuoteInv, QuotesFit
<1> QED BY <1>2, <1>3

\* What was agreed to stays so while replies are added, marked for the first time,
\* delivered or withdrawn.
LEMMA AgreementStays ==
    ASSUME NEW v, NEW p, v # 0, Len(lines) \in Nat, Len(lines') \in Nat, Len(lines') >= Len(lines), Agreement(v, p),
           \A k \in 1 .. Len(lines) : /\ lines'[k].who = lines[k].who /\ lines'[k].says = lines[k].says
                                      /\ lines[k].gone = TRUE => lines'[k].gone = TRUE
                                      /\ lines'[k].terms = lines[k].terms \/ lines[k].terms = NoTerms
    PROVE  Agreement(v, p)'
<1>0. PICK j \in 1 .. Len(lines) : \E i \in 1 .. (j - 1) :
         /\ lines[i].who = "maia" /\ lines[i].terms = [visit |-> v, price |-> p]
         /\ lines[j].says = "yes"
         /\ \A k \in (i + 1) .. (j - 1) : lines[k].who = "maia" => lines[k].gone = TRUE
  BY DEF Agreement
<1>1. PICK i \in 1 .. (j - 1) :
         /\ lines[i].who = "maia" /\ lines[i].terms = [visit |-> v, price |-> p]
         /\ lines[j].says = "yes"
         /\ \A k \in (i + 1) .. (j - 1) : lines[k].who = "maia" => lines[k].gone = TRUE
  BY <1>0
<1>2. i \in 1 .. Len(lines) /\ i \in Int /\ j \in Int /\ \A k \in (i + 1) .. (j - 1) : k \in 1 .. Len(lines)
  BY <1>1
<1>3. [visit |-> v, price |-> p] # NoTerms
  <2>1. [visit |-> v, price |-> p].visit = v
    OBVIOUS
  <2> QED BY <2>1, NoTermsFit
<1>4. j \in 1 .. Len(lines')
  BY <1>1
<1>5. lines'[i].who = "maia" /\ lines'[i].terms = [visit |-> v, price |-> p] /\ lines'[j].says = "yes"
  BY <1>1, <1>2, <1>3
<1>6. \A k \in (i + 1) .. (j - 1) : lines'[k].who = "maia" => lines'[k].gone = TRUE
  BY <1>1, <1>2
<1> QED BY <1>1, <1>4, <1>5, <1>6 DEF Agreement

LEMMA SameAgreements == ASSUME lines' = lines, NEW v, NEW p PROVE Agreement(v, p)' <=> Agreement(v, p)
BY DEF Agreement

\* What a quote fits it still fits when there are more appointments.
LEMMA FitsStay ==
    ASSUME NEW q, NEW m \in Nat, NEW n \in Nat, m <= n, QuoteFits(q, m)
    PROVE  QuoteFits(q, n)
BY DEF QuoteFits

\* A step that moves at most some runs, adds to the messages, events and appointments
\* or keeps them, and appends no event while another run books.
LEMMA QuotesGoOn ==
    ASSUME QuoteInv, QuoteShapes', NEW moved \in SUBSET Runs, Len(visits') >= Len(visits),
           Len(lines') >= Len(lines),
           \A k \in 1 .. Len(lines) : /\ lines'[k].who = lines[k].who /\ lines'[k].says = lines[k].says
                                      /\ lines[k].gone = TRUE => lines'[k].gone = TRUE
                                      /\ lines'[k].terms = lines[k].terms \/ lines[k].terms = NoTerms,
           \A u \in Runs \ moved :
              /\ run'[u] = run[u] /\ (run[u].pc = "square" => quotes' = quotes)
              /\ run[u].pc \in {"mark", "deliver"} => lines'[run[u].line] = lines[run[u].line],
           \A u \in moved : RunKnows(u)',
           \A a \in Artists : ArtistKnows(a)',
           LinesFit', QuotesFit', VisitsFit', RunsApart'
    PROVE  QuoteInv'
<1>1. /\ Len(lines) \in Nat /\ Len(lines') \in Nat /\ Len(visits) \in Nat /\ Len(visits') \in Nat
  BY DEF QuoteInv, QuoteShapes
<1>2. ASSUME NEW u \in Runs, u \notin moved PROVE RunKnows(u)'
  <2>1. RunKnows(u) /\ run'[u] = run[u]
    BY <1>2 DEF QuoteInv
  <2>2. QuoteFits(run[u].copy, Len(visits')) /\ run[u].terms.visit \in 0 .. Len(visits')
    BY <1>1, <2>1, FitsStay DEF RunKnows
  <2>3. run[u].pc = "accept" => Agreement(run[u].copy.visit, run[u].copy.price)'
    <3> SUFFICES ASSUME run[u].pc = "accept" PROVE Agreement(run[u].copy.visit, run[u].copy.price)'
      OBVIOUS
    <3>1. /\ run[u].copy.kind = "LINKED" /\ QuoteFits(run[u].copy, Len(visits))
          /\ Agreement(run[u].copy.visit, run[u].copy.price)
      BY <2>1 DEF RunKnows
    <3>2. run[u].copy.visit # 0
      BY <3>1 DEF QuoteFits, HasBooking
    <3>3. ASSUME NEW v, NEW p, v # 0, Agreement(v, p) PROVE Agreement(v, p)'
      BY <1>1, <3>3, AgreementStays
    <3>4. PICK v, p : v = run[u].copy.visit /\ p = run[u].copy.price
      OBVIOUS
    <3>5. Agreement(v, p)'
      BY <3>1, <3>2, <3>3, <3>4
    <3>6. run'[u].copy.visit = v /\ run'[u].copy.price = p
      BY <2>1, <3>4
    <3> QED BY <3>5, <3>6 DEF Agreement
  <2>4. run[u].pc \in {"mark", "deliver"} => run[u].line \in 1 .. Len(lines')
    BY <1>1, <2>1 DEF RunKnows
  <2>5. run[u].pc = "square" => Quote' = Quote
    BY <1>2 DEF Quote, Last
  <2> QED BY <1>2, <2>1, <2>2, <2>3, <2>4, <2>5 DEF RunKnows
<1> QED BY <1>2 DEF QuoteInv

\* One run goes on: it may take the lock if it is free, and stores a reply of its own.
LEMMA ApartStay ==
    ASSUME QuoteInv, NEW r \in Runs, \A u \in Runs : u # r => run'[u] = run[u],
           run'[r].pc \in {"mark", "deliver"} =>
              \A u \in Runs : u # r /\ run[u].pc \in {"mark", "deliver"} => run'[r].line # run[u].line,
           run'[r].pc = "square" => LockFree
    PROVE  RunsApart'
BY DEF QuoteInv, RunsApart, LockFree

\* One run goes on and adds nothing.
LEMMA RunOnly ==
    ASSUME QuoteInv, NEW r \in Runs, NEW row \in RunRows, UNCHANGED <<flags, lines, quotes, visits, artist>>,
           run' = [run EXCEPT ![r] = row], row.pc \notin {"mark", "deliver"}, row.pc = "square" => LockFree,
           QuoteFits(row.copy, Len(visits)), row.terms.visit \in 0 .. Len(visits),
           row.pc = "square" => row.copy = Quote /\ Quote.kind = "AI_SCHEDULING",
           row.pc \in {"agree", "accept"} => row.copy.kind = "LINKED",
           row.pc = "accept" => Agreement(row.copy.visit, row.copy.price)
    PROVE  QuoteInv'
<1>1. run \in [Runs -> RunRows] /\ Len(visits) \in Nat /\ Len(lines) \in Nat
  BY QuoteLengths DEF QuoteInv, QuoteShapes
<1>2. run' \in [Runs -> RunRows] /\ run'[r] = row /\ \A u \in Runs : u # r => run'[u] = run[u]
  BY <1>1
<1>3. QuoteShapes'
  BY <1>2 DEF QuoteInv, QuoteShapes
<1>4. LinesFit' /\ QuotesFit' /\ VisitsFit'
  BY DEF QuoteInv, LinesFit, QuotesFit, VisitsFit, Agreement
<1>5. \A a \in Artists : ArtistKnows(a)'
  BY DEF QuoteInv, ArtistKnows
<1>6. RunsApart'
  BY <1>2, ApartStay
<1>7. RunKnows(r)'
  <2>1. Quote' = Quote
    BY DEF Quote
  <2>2. row.pc = "accept" => Agreement(row.copy.visit, row.copy.price)'
    BY DEF Agreement
  <2> QED BY <1>2, <2>1, <2>2 DEF RunKnows, Agreement
<1>8. ASSUME NEW u \in {r} PROVE RunKnows(u)'
  BY <1>7
<1>9. /\ {r} \in SUBSET Runs /\ Len(visits') >= Len(visits) /\ Len(lines') >= Len(lines)
      /\ \A k \in 1 .. Len(lines) : /\ lines'[k].who = lines[k].who /\ lines'[k].says = lines[k].says
                                     /\ lines[k].gone = TRUE => lines'[k].gone = TRUE
                                     /\ lines'[k].terms = lines[k].terms
      /\ \A u \in Runs \ {r} :
           /\ run'[u] = run[u] /\ (run[u].pc = "square" => quotes' = quotes)
           /\ run[u].pc \in {"mark", "deliver"} => lines'[run[u].line] = lines[run[u].line]
  BY <1>1, <1>2
<1> QED BY <1>3, <1>4, <1>5, <1>6, <1>8, <1>9, QuotesGoOn

LEMMA RunFacts ==
    ASSUME QuoteInv, NEW r \in Runs
    PROVE  /\ run \in [Runs -> RunRows] /\ run[r] \in RunRows /\ RunKnows(r) /\ Len(visits) \in Nat /\ Len(lines) \in Nat
           /\ run[r].copy \in QuoteRows /\ run[r].terms \in TermRows /\ run[r].tools \in 0 .. LastTool
           /\ QuoteFits(run[r].copy, Len(visits)) /\ run[r].terms.visit \in 0 .. Len(visits)
<1>1. run \in [Runs -> RunRows] /\ RunKnows(r)
  BY DEF QuoteInv, QuoteShapes
<1> QED BY <1>1, QuoteLengths DEF RunRows, RunKnows, QuoteInv

LEMMA CountIs == ASSUME QuoteInv, NEW who PROVE Cardinality(Said(who)) \in Nat /\ Said(who) \subseteq 1 .. Len(lines)
<1>1. Len(lines) \in Nat
  BY QuoteLengths DEF QuoteInv
<1>2. IsFiniteSet(1 .. Len(lines))
  BY <1>1, FS_Interval
<1>3. Said(who) \subseteq 1 .. Len(lines)
  BY DEF Said
<1> QED BY <1>2, <1>3, FS_Subset, FS_CardinalityType

LEMMA BeginRunKeeps == ASSUME QuoteInv, NEW r \in Runs, BeginRun(r) PROVE QuoteInv'
<1>1. /\ run' = [run EXCEPT ![r].seen = Count, ![r].copy = Quote,
                            ![r].pc = IF HasBooking(Quote) /\ lines[Newest(Said("client"))].says = "another"
                                      THEN "inquiry" ELSE "think"]
      /\ UNCHANGED <<flags, lines, quotes, visits, artist>>
  BY DEF BeginRun
<1>2. PICK pc \in {"inquiry", "think"} :
         pc = IF HasBooking(Quote) /\ lines[Newest(Said("client"))].says = "another" THEN "inquiry" ELSE "think"
  OBVIOUS
<1> DEFINE row == [run[r] EXCEPT !.seen = Count, !.copy = Quote, !.pc = pc]
<1>3. run' = [run EXCEPT ![r] = row]
  BY <1>1, <1>2, RunFacts
<1>4. Count \in Nat /\ Quote \in QuoteRows /\ pc \in RunSteps
  BY CountIs, QuoteIs DEF Count, RunSteps
<1>5. row \in RunRows /\ row.pc = pc /\ row.copy = Quote /\ row.terms = run[r].terms
  BY <1>4, RunFacts DEF RunRows
<1> HIDE DEF row
<1> QED BY <1>1, <1>3, <1>5, RunFacts, QuoteIs, RunOnly

\* A tool that only reads leaves the run's terms and copy as they fit.
LEMMA PresentTermsKeeps == ASSUME QuoteInv, NEW r \in Runs, PresentTerms(r) PROVE QuoteInv'
<1>1. /\ run' = [run EXCEPT ![r].terms = [visit |-> Quote.visit, price |-> Quote.price], ![r].tools = @ + 1]
      /\ UNCHANGED <<flags, lines, quotes, visits, artist>>
      /\ run[r].pc = "think" /\ run[r].tools < LastTool
  BY DEF PresentTerms, Calls
<1> DEFINE terms == [visit |-> Quote.visit, price |-> Quote.price]
           row == [run[r] EXCEPT !.terms = terms, !.tools = @ + 1]
<1>2. Quote \in QuoteRows /\ Quote.visit \in 0 .. Len(visits)
  BY QuoteIs DEF QuoteFits
<1>3. terms \in TermRows /\ terms.visit \in 0 .. Len(visits)
  BY <1>2 DEF TermRows, QuoteRows
<1>4. run' = [run EXCEPT ![r] = row]
  BY <1>1, RunFacts
<1> HIDE DEF terms
<1>5. run[r].tools + 1 \in 0 .. LastTool
  BY <1>1, RunFacts, QuoteBounds
<1>6. row \in RunRows /\ row.pc = "think" /\ row.copy = run[r].copy /\ row.terms = terms
  BY <1>1, <1>3, <1>5, RunFacts DEF RunRows
<1> HIDE DEF row
<1> QED BY <1>1, <1>3, <1>4, <1>6, RunFacts, RunOnly

LEMMA RequestQuoteKeeps == ASSUME QuoteInv, NEW r \in Runs, RequestQuote(r) PROVE QuoteInv'
<1>1. /\ run' = [run EXCEPT ![r].handoff = TRUE, ![r].tools = @ + 1]
      /\ UNCHANGED <<flags, lines, quotes, visits, artist>>
      /\ run[r].pc = "think" /\ run[r].tools < LastTool
  BY DEF RequestQuote, Calls
<1>2. PICK on \in BOOLEAN : on = TRUE
  OBVIOUS
<1> DEFINE row == [run[r] EXCEPT !.handoff = on, !.tools = @ + 1]
<1>3. run' = [run EXCEPT ![r] = row]
  BY <1>1, <1>2, RunFacts
<1>4. run[r].tools + 1 \in 0 .. LastTool
  BY <1>1, RunFacts, QuoteBounds
<1>5. row \in RunRows /\ row.pc = "think" /\ row.copy = run[r].copy /\ row.terms = run[r].terms
  BY <1>1, <1>4, RunFacts DEF RunRows
<1> HIDE DEF row
<1> QED BY <1>1, <1>3, <1>5, RunFacts, RunOnly

LEMMA BookQuoteKeeps == ASSUME QuoteInv, NEW r \in Runs, BookQuote(r) PROVE QuoteInv'
<1>1. /\ run' = [run EXCEPT ![r].pc = "square", ![r].copy = Quote, ![r].tools = @ + 1]
      /\ UNCHANGED <<flags, lines, quotes, visits, artist>>
      /\ run[r].tools < LastTool /\ Quote.kind = "AI_SCHEDULING" /\ LockFree
  BY DEF BookQuote, Calls
<1> DEFINE row == [run[r] EXCEPT !.pc = "square", !.copy = Quote, !.tools = @ + 1]
<1>2. run' = [run EXCEPT ![r] = row]
  BY <1>1, RunFacts
<1>3. run[r].tools + 1 \in 0 .. LastTool /\ Quote \in QuoteRows /\ "square" \in RunSteps
  BY <1>1, RunFacts, QuoteBounds, QuoteIs DEF RunSteps
<1>4. row \in RunRows /\ row.pc = "square" /\ row.copy = Quote /\ row.terms = run[r].terms
  BY <1>1, <1>3, RunFacts DEF RunRows
<1> HIDE DEF row
<1> QED BY <1>1, <1>2, <1>4, RunFacts, QuoteIs, RunOnly

LEMMA SquareFailsKeeps == ASSUME QuoteInv, NEW r \in Runs, SquareFails(r) PROVE QuoteInv'
<1>1. run' = [run EXCEPT ![r].pc = "done"] /\ UNCHANGED <<flags, lines, quotes, visits, artist>>
  BY DEF SquareFails
<1> DEFINE row == [run[r] EXCEPT !.pc = "done"]
<1>2. run' = [run EXCEPT ![r] = row]
  BY <1>1, RunFacts
<1>3. row \in RunRows /\ row.pc = "done" /\ row.copy = run[r].copy /\ row.terms = run[r].terms
  BY RunFacts DEF RunRows, RunSteps
<1> HIDE DEF row
<1> QED BY <1>1, <1>2, <1>3, RunFacts, RunOnly

LEMMA ReadAgreementKeeps == ASSUME QuoteInv, NEW r \in Runs, ReadAgreement(r) PROVE QuoteInv'
<1>1. /\ run' = [run EXCEPT ![r].pc = "agree", ![r].copy = Quote, ![r].tools = @ + 1]
      /\ UNCHANGED <<flags, lines, quotes, visits, artist>>
      /\ run[r].tools < LastTool /\ Quote.kind = "LINKED"
  BY DEF ReadAgreement, Calls
<1> DEFINE row == [run[r] EXCEPT !.pc = "agree", !.copy = Quote, !.tools = @ + 1]
<1>2. run' = [run EXCEPT ![r] = row]
  BY <1>1, RunFacts
<1>3. run[r].tools + 1 \in 0 .. LastTool /\ Quote \in QuoteRows /\ "agree" \in RunSteps
  BY <1>1, RunFacts, QuoteBounds, QuoteIs DEF RunSteps
<1>4. row \in RunRows /\ row.pc = "agree" /\ row.copy = Quote /\ row.terms = run[r].terms
  BY <1>1, <1>3, RunFacts DEF RunRows
<1> HIDE DEF row
<1> QED BY <1>1, <1>2, <1>4, RunFacts, QuoteIs, RunOnly

\* A part of 1 .. n that is not empty has a last number, which Newest picks.
LEMMA NewestIs ==
    ASSUME NEW n \in Nat, NEW S \in SUBSET (1 .. n), S # {}
    PROVE  Newest(S) \in S /\ \A j \in S : j <= Newest(S)
<1> DEFINE R == OpToRel(<, Nat)
           T == {n - i : i \in S}
<1>1. IsWellFoundedOn(R, Nat)
  BY NatLessThanWellFounded
<1>2. \A m, k \in Nat : m < k => <<m, k>> \in R
  BY DEF OpToRel
<1>3. T \subseteq Nat /\ T # {}
  <2>1. ASSUME NEW i \in S PROVE n - i \in Nat
    <3>1. i \in Int /\ 1 <= i /\ i <= n
      OBVIOUS
    <3> QED BY <3>1
  <2> QED BY <2>1
<1> HIDE DEF R
<1>4. PICK m \in T : \A k \in T : ~(<<k, m>> \in R)
  BY <1>1, <1>3, WFMin
<1>5. PICK i \in S : m = n - i
  BY <1>4
<1>6. ASSUME NEW j \in S PROVE j <= i
  <2>1. n - j \in T /\ n - j \in Nat /\ m \in Nat
    BY <1>3, <1>5
  <2>2. ~(n - j < m)
    BY <1>2, <1>4, <2>1
  <2>3. i \in 1 .. n /\ j \in 1 .. n
    OBVIOUS
  <2> QED BY <1>5, <2>2, <2>3
<1>7. \E l \in S : \A j \in S : j <= l
  BY <1>6
<1> QED BY <1>7 DEF Newest

\* What matchesConfirmedQuoteTerms looks for is an agreement.
LEMMA AgreedIsAgreement == ASSUME QuoteInv, NEW q \in QuoteRows, AgreedTo(q) PROVE Agreement(q.visit, q.price)
<1> DEFINE i == Newest(Said("maia"))
           j == Newest(Said("client"))
<1>1. /\ Said("client") # {} /\ Said("maia") # {} /\ i < j /\ lines[j].says = "yes"
      /\ lines[i].terms = [visit |-> q.visit, price |-> q.price]
  BY DEF AgreedTo
<1>2. Len(lines) \in Nat /\ \A k \in 1 .. Len(lines) : lines[k] \in LineRows
  BY QuoteLengths DEF QuoteInv
<1>3. Said("maia") \subseteq 1 .. Len(lines) /\ Said("client") \subseteq 1 .. Len(lines)
  BY DEF Said
<1>4. /\ i \in Said("maia") /\ j \in Said("client") /\ \A k \in Said("maia") : k <= i
  BY <1>1, <1>2, <1>3, NewestIs
<1> HIDE DEF i, j
<1>5. i \in 1 .. Len(lines) /\ j \in 1 .. Len(lines) /\ i \in 1 .. (j - 1) /\ lines[i].who = "maia"
  BY <1>1, <1>2, <1>3, <1>4 DEF Said
<1>6. ASSUME NEW k \in (i + 1) .. (j - 1), lines[k].who = "maia" PROVE lines[k].gone = TRUE
  <2>1. k \in 1 .. Len(lines) /\ ~(k <= i)
    BY <1>2, <1>5
  <2>2. lines[k].gone \in BOOLEAN
    BY <1>2, <2>1 DEF LineRows
  <2> QED BY <1>4, <1>6, <2>1, <2>2 DEF Said
<1> QED BY <1>1, <1>5, <1>6 DEF Agreement

LEMMA CheckAgreementKeeps == ASSUME QuoteInv, NEW r \in Runs, CheckAgreement(r) PROVE QuoteInv'
<1>1. /\ run[r].pc = "agree" /\ UNCHANGED <<flags, lines, quotes, visits, artist>>
      /\ run' = [run EXCEPT ![r].pc = IF AgreedTo(run[r].copy) THEN "accept" ELSE "think"]
  BY DEF CheckAgreement
<1>2. PICK pc \in {"accept", "think"} : /\ run' = [run EXCEPT ![r].pc = pc]
                                        /\ pc = "accept" => AgreedTo(run[r].copy)
  BY <1>1
<1> DEFINE row == [run[r] EXCEPT !.pc = pc]
<1>3. run' = [run EXCEPT ![r] = row]
  BY <1>2, RunFacts
<1>4. row \in RunRows /\ row.pc = pc /\ row.copy = run[r].copy /\ row.terms = run[r].terms
  BY RunFacts DEF RunRows, RunSteps
<1>5. run[r].copy.kind = "LINKED"
  BY <1>1, RunFacts DEF RunKnows
<1>6. pc = "accept" => Agreement(run[r].copy.visit, run[r].copy.price)
  BY <1>2, RunFacts, AgreedIsAgreement
<1> HIDE DEF row
<1> QED BY <1>1, <1>3, <1>4, <1>5, <1>6, RunFacts, RunOnly

\* An event that fits is added to the log.
LEMMA LogFits ==
    ASSUME QuoteInv, NEW q \in QuoteRows, quotes' = Append(quotes, q), lines' = lines,
           Len(visits') \in Nat, Len(visits') >= Len(visits), QuoteFits(q, Len(visits')),
           q.kind = "ACCEPTED" => Agreement(q.visit, q.price)
    PROVE  QuotesFit' /\ quotes' \in Seq(QuoteRows)
<1>1. quotes \in Seq(QuoteRows) /\ Len(quotes) \in Nat /\ Len(visits) \in Nat
  BY QuoteLengths DEF QuoteInv, QuoteShapes
<1>2. /\ quotes' \in Seq(QuoteRows) /\ Len(quotes') = Len(quotes) + 1 /\ quotes'[Len(quotes) + 1] = q
      /\ \A e \in 1 .. Len(quotes) : quotes'[e] = quotes[e]
  BY <1>1
<1>3. ASSUME NEW e \in 1 .. Len(quotes')
      PROVE  QuoteFits(quotes'[e], Len(visits')) /\ (quotes'[e].kind = "ACCEPTED" => Agreement(quotes'[e].visit, quotes'[e].price))
  <2>1. CASE e \in 1 .. Len(quotes)
    <3>1. /\ quotes'[e] = quotes[e] /\ QuoteFits(quotes[e], Len(visits))
          /\ quotes[e].kind = "ACCEPTED" => Agreement(quotes[e].visit, quotes[e].price)
      BY <1>2, <2>1 DEF QuoteInv, QuotesFit
    <3>2. QuoteFits(quotes[e], Len(visits'))
      BY <1>1, <3>1, FitsStay
    <3> QED BY <3>1, <3>2
  <2>2. CASE e \notin 1 .. Len(quotes)
    <3>1. e = Len(quotes) + 1
      BY <1>1, <1>2, <2>2
    <3> QED BY <1>2, <3>1
  <2> QED BY <2>1, <2>2
<1>4. \A v, p : Agreement(v, p) => Agreement(v, p)'
  BY SameAgreements
<1>5. ASSUME NEW e \in 1 .. Len(quotes'), quotes'[e].kind = "ACCEPTED"
      PROVE  Agreement(quotes[e].visit, quotes[e].price)'
  <2>1. Agreement(quotes'[e].visit, quotes'[e].price)
    BY <1>3, <1>5
  <2> QED BY <2>1 DEF Agreement
<1> QED BY <1>2, <1>3, <1>5 DEF QuotesFit

\* Nobody has the lock, or the one that has it goes on: an event is added.
LEMMA RunLogs ==
    ASSUME QuoteInv, NEW r \in Runs, NEW row \in RunRows, UNCHANGED <<lines, artist>>,
           flags' \in [ai : BOOLEAN, status : {"OPEN", "AWAITING_QUOTE", "QUOTE_APPROVED", "BOOKING_LINKED"}],
           run' = [run EXCEPT ![r] = row], row.pc \in {"think", "done"},
           \A u \in Runs : u # r => run[u].pc # "square",
           NEW q \in QuoteRows, quotes' = Append(quotes, q),
           visits' \in Seq(VisitRows), Len(visits') >= Len(visits), VisitsFit', QuoteFits(q, Len(visits')),
           q.kind = "ACCEPTED" => Agreement(q.visit, q.price),
           QuoteFits(row.copy, Len(visits')), row.terms.visit \in 0 .. Len(visits')
    PROVE  QuoteInv'
<1>1. Len(visits') \in Nat /\ Len(lines) \in Nat /\ run \in [Runs -> RunRows] /\ Len(visits) \in Nat
  BY RunFacts DEF QuoteInv, QuoteShapes
<1>2. QuotesFit' /\ quotes' \in Seq(QuoteRows)
  BY <1>1, LogFits
<1>3. run' \in [Runs -> RunRows] /\ run'[r] = row /\ \A u \in Runs : u # r => run'[u] = run[u]
  BY <1>1
<1>4. QuoteShapes'
  BY <1>2, <1>3 DEF QuoteInv, QuoteShapes
<1>5. LinesFit'
  BY <1>1 DEF QuoteInv, LinesFit
<1>6. RunsApart'
  BY <1>3, ApartStay
<1>7. \A a \in Artists : ArtistKnows(a)'
  BY DEF QuoteInv, ArtistKnows
<1>8. ASSUME NEW u \in {r} PROVE RunKnows(u)'
  BY <1>3 DEF RunKnows
<1>9. /\ {r} \in SUBSET Runs /\ Len(lines') >= Len(lines)
      /\ \A k \in 1 .. Len(lines) : /\ lines'[k].who = lines[k].who /\ lines'[k].says = lines[k].says
                                     /\ lines[k].gone = TRUE => lines'[k].gone = TRUE
                                     /\ lines'[k].terms = lines[k].terms
      /\ \A u \in Runs \ {r} :
           /\ run'[u] = run[u] /\ (run[u].pc = "square" => quotes' = quotes)
           /\ run[u].pc \in {"mark", "deliver"} => lines'[run[u].line] = lines[run[u].line]
  BY <1>1, <1>3
<1> QED BY <1>2, <1>4, <1>5, <1>6, <1>7, <1>8, <1>9, QuotesGoOn

LEMMA SameVisits == ASSUME QuoteInv, UNCHANGED <<lines, visits>> PROVE VisitsFit' /\ visits' \in Seq(VisitRows)
                                                                  /\ Len(visits') \in Nat
BY QuoteLengths DEF QuoteInv, VisitsFit, Agreement, QuoteShapes

LEMMA LockIsFree == ASSUME LockFree PROVE \A u \in Runs : run[u].pc # "square"
BY DEF LockFree

LEMMA RunLogsOnly ==
    ASSUME QuoteInv, NEW r \in Runs, NEW row \in RunRows, UNCHANGED <<lines, visits, artist>>, LockFree,
           flags' \in [ai : BOOLEAN, status : {"OPEN", "AWAITING_QUOTE", "QUOTE_APPROVED", "BOOKING_LINKED"}],
           run' = [run EXCEPT ![r] = row], row.pc \in {"think", "done"},
           NEW q \in QuoteRows, quotes' = Append(quotes, q), QuoteFits(q, Len(visits)),
           q.kind = "ACCEPTED" => Agreement(q.visit, q.price),
           QuoteFits(row.copy, Len(visits)), row.terms.visit \in 0 .. Len(visits)
    PROVE  QuoteInv'
<1>1. VisitsFit' /\ visits' \in Seq(VisitRows) /\ Len(visits') \in Nat /\ Len(visits') = Len(visits)
  BY SameVisits
<1>2. \A u \in Runs : u # r => run[u].pc # "square"
  BY LockIsFree
<1>3. Len(visits') >= Len(visits) /\ QuoteFits(q, Len(visits')) /\ QuoteFits(row.copy, Len(visits'))
      /\ row.terms.visit \in 0 .. Len(visits')
  BY <1>1
<1> QED BY <1>1, <1>2, <1>3, RunLogs

LEMMA OpenInquiryKeeps == ASSUME QuoteInv, NEW r \in Runs, OpenInquiry(r) PROVE QuoteInv'
<1>1. /\ run' = [run EXCEPT ![r].pc = "think", ![r].copy = NoQuote]
      /\ quotes' = Append(quotes, [NoQuote EXCEPT !.kind = "REQUESTED"]) /\ LockFree
      /\ UNCHANGED <<flags, lines, visits, artist>>
  BY DEF OpenInquiry, LogEvent
<1> DEFINE row == [run[r] EXCEPT !.pc = "think", !.copy = NoQuote]
<1>2. run' = [run EXCEPT ![r] = row]
  BY <1>1, RunFacts
<1>3. NoQuote \in QuoteRows /\ QuoteFits(NoQuote, Len(visits)) /\ NoQuote.kind # "ACCEPTED"
  BY NoQuoteFits, RunFacts DEF NoQuote
<1>4. row \in RunRows /\ row.pc = "think" /\ row.copy = NoQuote /\ row.terms = run[r].terms
  BY <1>3, RunFacts DEF RunRows, RunSteps
<1>5. [NoQuote EXCEPT !.kind = "REQUESTED"] = NoQuote
  BY DEF NoQuote
<1> HIDE DEF row
<1>6. flags \in [ai : BOOLEAN, status : {"OPEN", "AWAITING_QUOTE", "QUOTE_APPROVED", "BOOKING_LINKED"}]
  BY DEF QuoteInv, QuoteShapes
<1>7. quotes' = Append(quotes, NoQuote)
  BY <1>1, <1>5
<1> QED BY <1>1, <1>2, <1>3, <1>4, <1>6, <1>7, RunFacts, RunLogsOnly

LEMMA WriteAgreementKeeps == ASSUME QuoteInv, NEW r \in Runs, WriteAgreement(r) PROVE QuoteInv'
<1> DEFINE q == [run[r].copy EXCEPT !.kind = "ACCEPTED"]
           row == [run[r] EXCEPT !.pc = "think", !.terms = NoTerms]
<1>1. /\ run[r].pc = "accept" /\ run' = [run EXCEPT ![r].pc = "think", ![r].terms = NoTerms]
      /\ quotes' = Append(quotes, q) /\ LockFree
      /\ UNCHANGED <<flags, lines, visits, artist>>
  BY DEF WriteAgreement, LogEvent
<1>2. run' = [run EXCEPT ![r] = row]
  BY <1>1, RunFacts
<1>3. /\ run[r].copy.kind = "LINKED" /\ Agreement(run[r].copy.visit, run[r].copy.price)
  BY <1>1, RunFacts DEF RunKnows
<1>4. q \in QuoteRows /\ q.kind = "ACCEPTED" /\ q.visit = run[r].copy.visit /\ q.price = run[r].copy.price
  BY RunFacts DEF QuoteRows, Kinds
<1>5. row \in RunRows /\ row.pc = "think" /\ row.copy = run[r].copy /\ row.terms = NoTerms
  BY NoTermsFit, RunFacts DEF RunRows, RunSteps
<1> HIDE DEF row, q
<1>6. QuoteFits(q, Len(visits))
  BY <1>3, <1>4, RunFacts DEF QuoteFits, HasBooking
<1>7. flags \in [ai : BOOLEAN, status : {"OPEN", "AWAITING_QUOTE", "QUOTE_APPROVED", "BOOKING_LINKED"}]
  BY DEF QuoteInv, QuoteShapes
<1>8. NoTerms.visit \in 0 .. Len(visits)
  BY NoTermsFit, RunFacts
<1>9. Agreement(q.visit, q.price)
  BY <1>3, <1>4
<1> QED BY <1>1, <1>2, <1>4, <1>5, <1>6, <1>7, <1>8, <1>9, RunFacts, RunLogsOnly

\* A new appointment for which no deposit was asked yet.
LEMMA VisitAdded ==
    ASSUME QuoteInv, lines' = lines, NEW w \in VisitRows, w.asked = 0, visits' = Append(visits, w)
    PROVE  VisitsFit' /\ visits' \in Seq(VisitRows) /\ Len(visits') = Len(visits) + 1
<1>1. visits \in Seq(VisitRows) /\ Len(visits) \in Nat
  BY DEF QuoteInv, QuoteShapes
<1>2. /\ visits' \in Seq(VisitRows) /\ Len(visits') = Len(visits) + 1 /\ visits'[Len(visits) + 1] = w
      /\ \A v \in 1 .. Len(visits) : visits'[v] = visits[v]
  BY <1>1
<1>3. ASSUME NEW v \in 1 .. Len(visits'), visits'[v].asked # 0 PROVE Agreement(v, visits[v].asked)'
  <2>1. v \in 1 .. Len(visits)
    BY <1>1, <1>2, <1>3
  <2>2. Agreement(v, visits[v].asked) /\ visits'[v] = visits[v]
    BY <1>2, <1>3, <2>1 DEF QuoteInv, VisitsFit
  <2> QED BY <2>2 DEF Agreement
<1> QED BY <1>2, <1>3 DEF VisitsFit

LEMMA RecordVisitKeeps == ASSUME QuoteInv, NEW r \in Runs, RecordVisit(r) PROVE QuoteInv'
<1> DEFINE n == Len(visits) + 1
           w == [price |-> run[r].copy.price, at |-> 2 + n, asked |-> 0]
           c == [run[r].copy EXCEPT !.visit = n]
           q == [c EXCEPT !.kind = "LINKED"]
           terms == [visit |-> n, price |-> run[r].copy.price]
           row == [run[r] EXCEPT !.pc = "think", !.terms = terms]
<1>1. /\ run[r].pc = "square" /\ run' = [run EXCEPT ![r].pc = "think", ![r].terms = terms]
      /\ quotes' = Append(quotes, q) /\ visits' = Append(visits, w)
      /\ UNCHANGED <<flags, lines, artist>>
  BY DEF RecordVisit, LogEvent
<1>2. /\ run[r].copy.kind = "AI_SCHEDULING" /\ run[r].copy.price \in Prices /\ n \in Nat /\ n # 0
  <2>1. run[r].copy.kind = "AI_SCHEDULING"
    BY <1>1, RunFacts DEF RunKnows
  <2>2. "AI_SCHEDULING" # "REQUESTED"
    OBVIOUS
  <2>3. run[r].copy.price \in Prices
    BY <2>1, <2>2, RunFacts DEF QuoteFits
  <2> QED BY <2>1, <2>3, RunFacts
<1>3. w \in VisitRows /\ w.asked = 0
  BY <1>2 DEF VisitRows, Sums
<1>4. terms \in TermRows /\ terms.visit = n
  BY <1>2 DEF TermRows, Sums
<1>5. c \in QuoteRows
  BY <1>2, RunFacts DEF QuoteRows
<1>6. q \in QuoteRows /\ q.kind = "LINKED" /\ q.visit = n /\ q.price = run[r].copy.price
  BY <1>2, <1>5, RunFacts DEF QuoteRows, Kinds
<1> HIDE DEF terms
<1>7. row \in RunRows /\ row.pc = "think" /\ row.copy = run[r].copy /\ row.terms = terms
  BY <1>4, RunFacts DEF RunRows, RunSteps
<1>8. run' = [run EXCEPT ![r] = row]
  BY <1>1, RunFacts
<1> HIDE DEF row, q, c, w
<1>9. VisitsFit' /\ visits' \in Seq(VisitRows) /\ Len(visits') = n
  BY <1>1, <1>3, VisitAdded
<1>10. QuoteFits(q, n) /\ q.kind # "ACCEPTED"
  BY <1>2, <1>6 DEF QuoteFits, HasBooking
<1>11. QuoteFits(run[r].copy, n)
  BY <1>2, RunFacts, FitsStay
<1>12. \A u \in Runs : u # r => run[u].pc # "square"
  BY <1>1 DEF QuoteInv, RunsApart
<1>13. flags \in [ai : BOOLEAN, status : {"OPEN", "AWAITING_QUOTE", "QUOTE_APPROVED", "BOOKING_LINKED"}]
  BY DEF QuoteInv, QuoteShapes
<1>14. row.terms.visit \in 0 .. n /\ n >= Len(visits)
  BY <1>2, <1>4, <1>7, RunFacts
<1> HIDE DEF n
<1>15. /\ Len(visits') >= Len(visits) /\ QuoteFits(q, Len(visits')) /\ QuoteFits(row.copy, Len(visits'))
       /\ row.terms.visit \in 0 .. Len(visits')
  BY <1>7, <1>9, <1>10, <1>11, <1>14
<1>16. flags' \in [ai : BOOLEAN, status : {"OPEN", "AWAITING_QUOTE", "QUOTE_APPROVED", "BOOKING_LINKED"}]
       /\ UNCHANGED <<lines, artist>> /\ quotes' = Append(quotes, q) /\ row.pc \in {"think", "done"}
       /\ (q.kind = "ACCEPTED" => Agreement(q.visit, q.price))
  BY <1>1, <1>7, <1>10, <1>13
<1>17. q \in QuoteRows /\ row \in RunRows /\ visits' \in Seq(VisitRows) /\ VisitsFit'
  BY <1>6, <1>7, <1>9
<1> QED BY <1>8, <1>12, <1>15, <1>16, <1>17, RunLogs

LEMMA HandOffKeeps == ASSUME QuoteInv, NEW r \in Runs, HandOff(r) PROVE QuoteInv'
<1>1. run' = [run EXCEPT ![r].pc = "done"] /\ UNCHANGED <<lines, visits, artist>> /\ LockFree
  BY DEF HandOff
<1> DEFINE row == [run[r] EXCEPT !.pc = "done"]
<1>2. run' = [run EXCEPT ![r] = row]
  BY <1>1, RunFacts
<1>3. row \in RunRows /\ row.pc = "done" /\ row.copy = run[r].copy /\ row.terms = run[r].terms
  BY RunFacts DEF RunRows, RunSteps
<1> HIDE DEF row
<1>4. CASE flags = [ai |-> TRUE, status |-> "OPEN"]
  <2>1. flags' = [ai |-> FALSE, status |-> "AWAITING_QUOTE"] /\ quotes' = Append(quotes, [NoQuote EXCEPT !.kind = "REQUESTED"])
    BY <1>4 DEF HandOff, LogEvent
  <2>2. [NoQuote EXCEPT !.kind = "REQUESTED"] = NoQuote
    BY DEF NoQuote
  <2>3. NoQuote \in QuoteRows /\ QuoteFits(NoQuote, Len(visits)) /\ NoQuote.kind # "ACCEPTED"
    BY NoQuoteFits, RunFacts DEF NoQuote
  <2>4. flags' \in [ai : BOOLEAN, status : {"OPEN", "AWAITING_QUOTE", "QUOTE_APPROVED", "BOOKING_LINKED"}]
    BY <2>1
  <2>5. quotes' = Append(quotes, NoQuote)
    BY <2>1, <2>2
  <2> QED BY <1>1, <1>2, <1>3, <2>3, <2>4, <2>5, RunFacts, RunLogsOnly
<1>5. CASE flags # [ai |-> TRUE, status |-> "OPEN"]
  <2>1. UNCHANGED <<flags, quotes>>
    BY <1>5 DEF HandOff
  <2> QED BY <1>1, <1>2, <1>3, <2>1, RunFacts, RunOnly
<1> QED BY <1>4, <1>5

\* The messages grow, or one of them that a run of its own has stored changes.
LEMMA LinesGrow ==
    ASSUME QuoteInv, UNCHANGED <<quotes, visits>>, Len(lines') \in Nat, Len(lines') >= Len(lines),
           \A k \in 1 .. Len(lines) : /\ lines'[k].who = lines[k].who /\ lines'[k].says = lines[k].says
                                      /\ lines[k].gone = TRUE => lines'[k].gone = TRUE
                                      /\ lines'[k].terms = lines[k].terms \/ lines[k].terms = NoTerms
    PROVE  QuotesFit' /\ VisitsFit'
<1>1. Len(lines) \in Nat /\ Len(visits) \in Nat
  BY QuoteLengths DEF QuoteInv
<1>2. ASSUME NEW v, NEW p, v # 0, Agreement(v, p) PROVE Agreement(v, p)'
  BY <1>1, <1>2, AgreementStays
<1>3. ASSUME NEW e \in 1 .. Len(quotes), quotes[e].kind = "ACCEPTED" PROVE Agreement(quotes[e].visit, quotes[e].price)'
  <2>1. QuoteFits(quotes[e], Len(visits)) /\ Agreement(quotes[e].visit, quotes[e].price)
    BY <1>3 DEF QuoteInv, QuotesFit
  <2>2. PICK v, p : v = quotes[e].visit /\ p = quotes[e].price
    OBVIOUS
  <2>3. v # 0 /\ Agreement(v, p)
    BY <1>3, <2>1, <2>2 DEF QuoteFits, HasBooking
  <2>4. Agreement(v, p)'
    BY <1>2, <2>3
  <2>5. quotes'[e].visit = v /\ quotes'[e].price = p
    BY <2>2
  <2> QED BY <2>4, <2>5 DEF Agreement
<1>4. ASSUME NEW v \in 1 .. Len(visits), visits[v].asked # 0 PROVE Agreement(v, visits[v].asked)'
  <2>1. Agreement(v, visits[v].asked) /\ v # 0
    BY <1>1, <1>4 DEF QuoteInv, VisitsFit
  <2>2. PICK p : p = visits[v].asked
    OBVIOUS
  <2>3. Agreement(v, p)'
    BY <1>2, <2>1, <2>2
  <2>4. visits'[v].asked = p
    BY <2>2
  <2> QED BY <2>3, <2>4 DEF Agreement
<1> QED BY <1>3, <1>4 DEF QuotesFit, VisitsFit, QuoteInv

LEMMA ClientWritesKeeps == ASSUME QuoteInv, NEW word \in {"yes", "another"}, ClientWrites(word) PROVE QuoteInv'
<1>1. lines' = Append(lines, ClientLine(word)) /\ UNCHANGED <<flags, quotes, visits, artist, run>>
  BY DEF ClientWrites
<1>2. PICK on, off \in BOOLEAN : on = TRUE /\ off = FALSE
  OBVIOUS
<1>3. ClientLine(word) = [who |-> "client", says |-> word, terms |-> NoTerms, shown |-> on, gone |-> off]
  BY <1>2 DEF ClientLine
<1>4. PICK x \in LineRows : x = ClientLine(word) /\ x.terms = NoTerms /\ x.gone = FALSE
  <2>1. word \in {"yes", "another", "reply"} /\ "client" \in {"client", "maia"}
    OBVIOUS
  <2> DEFINE y == [who |-> "client", says |-> word, terms |-> NoTerms, shown |-> on, gone |-> off]
  <2>2. y \in LineRows /\ y.terms = NoTerms /\ y.gone = off
    BY <2>1, NoTermsFit DEF LineRows
  <2> HIDE DEF y
  <2> QED BY <1>2, <1>3, <2>2 DEF y
<1>5. lines \in Seq(LineRows) /\ Len(lines) \in Nat /\ Len(visits) \in Nat
  BY QuoteLengths DEF QuoteInv, QuoteShapes
<1>6. /\ lines' \in Seq(LineRows) /\ Len(lines') = Len(lines) + 1 /\ lines'[Len(lines) + 1] = x
      /\ \A k \in 1 .. Len(lines) : lines'[k] = lines[k]
  BY <1>1, <1>4, <1>5
<1>7. QuoteShapes'
  BY <1>1, <1>6 DEF QuoteInv, QuoteShapes
<1>8. LinesFit'
  <2>1. ASSUME NEW i \in 1 .. Len(lines')
        PROVE  lines'[i].terms.visit \in 0 .. Len(visits') /\ ~(lines'[i].gone = TRUE /\ lines'[i].shown = TRUE)
    <3>1. CASE i \in 1 .. Len(lines)
      BY <1>1, <1>6, <3>1 DEF QuoteInv, LinesFit
    <3>2. CASE i = Len(lines) + 1
      BY <1>1, <1>4, <1>5, <1>6, <3>2, NoTermsFit
    <3>3. i \in 1 .. Len(lines) \/ i = Len(lines) + 1
      BY <1>5, <1>6
    <3> QED BY <3>1, <3>2, <3>3
  <2> QED BY <2>1 DEF LinesFit
<1>9. Len(lines') \in Nat /\ Len(lines') >= Len(lines)
  BY <1>5, <1>6
<1>10. QuotesFit' /\ VisitsFit'
  BY <1>1, <1>6, <1>9, LinesGrow
<1>11. RunsApart'
  BY <1>1 DEF QuoteInv, RunsApart
<1>12. \A a \in Artists : ArtistKnows(a)'
  BY <1>1 DEF QuoteInv, ArtistKnows
<1>0. PICK moved \in SUBSET Runs : moved = {}
  OBVIOUS
<1>13. \A u \in Runs \ moved : /\ run'[u] = run[u] /\ (run[u].pc = "square" => quotes' = quotes)
                               /\ run[u].pc \in {"mark", "deliver"} => lines'[run[u].line] = lines[run[u].line]
  BY <1>1, <1>6 DEF QuoteInv, RunKnows
<1>14. Len(visits') >= Len(visits)
  BY <1>1, <1>5
<1>15. \A k \in 1 .. Len(lines) : /\ lines'[k].who = lines[k].who /\ lines'[k].says = lines[k].says
                                  /\ lines[k].gone = TRUE => lines'[k].gone = TRUE
                                  /\ lines'[k].terms = lines[k].terms \/ lines[k].terms = NoTerms
  BY <1>6
<1>16. \A u \in moved : RunKnows(u)'
  BY <1>0
<1> QED BY <1>7, <1>8, <1>9, <1>10, <1>11, <1>12, <1>13, <1>14, <1>15, <1>16, QuotesGoOn

LEMMA FlipAiKeeps == ASSUME QuoteInv, FlipAi PROVE QuoteInv'
<1>1. /\ flags' = IF flags.ai THEN [flags EXCEPT !.ai = FALSE] ELSE [ai |-> TRUE, status |-> "OPEN"]
      /\ UNCHANGED <<lines, quotes, visits, artist, run>>
  BY DEF FlipAi
<1>2. PICK on, off \in BOOLEAN : on = TRUE /\ off = FALSE
  OBVIOUS
<1>3. flags \in [ai : BOOLEAN, status : {"OPEN", "AWAITING_QUOTE", "QUOTE_APPROVED", "BOOKING_LINKED"}]
  BY DEF QuoteInv, QuoteShapes
<1>4. flags' = IF flags.ai THEN [flags EXCEPT !.ai = off] ELSE [ai |-> on, status |-> "OPEN"]
  BY <1>1, <1>2
<1>5. flags' \in [ai : BOOLEAN, status : {"OPEN", "AWAITING_QUOTE", "QUOTE_APPROVED", "BOOKING_LINKED"}]
  BY <1>3, <1>4
<1>6. QuoteShapes'
  BY <1>1, <1>5 DEF QuoteInv, QuoteShapes
<1> QED BY <1>1, <1>6 DEF QuoteInv, LinesFit, QuotesFit, VisitsFit, RunsApart, ArtistKnows, RunKnows, Agreement, Quote

LEMMA AskDepositKeeps == ASSUME QuoteInv, NEW r \in Runs, AskDeposit(r) PROVE QuoteInv'
<1> DEFINE row == [run[r] EXCEPT !.tools = @ + 1]
           t == Quote.visit
           p == Quote.price
           w == [visits[t] EXCEPT !.asked = p]
<1>1. /\ visits' = [visits EXCEPT ![Quote.visit].asked = Quote.price] /\ run' = [run EXCEPT ![r].tools = @ + 1]
      /\ UNCHANGED <<flags, lines, quotes, artist>> /\ run[r].tools < LastTool /\ run[r].pc = "think"
      /\ Quote.kind = "ACCEPTED"
  BY DEF AskDeposit, Calls
<1>2. run' = [run EXCEPT ![r] = row]
  BY <1>1, RunFacts
<1>3. run[r].tools + 1 \in 0 .. LastTool
  BY <1>1, RunFacts, QuoteBounds
<1>4. row \in RunRows /\ row.pc = "think" /\ row.copy = run[r].copy /\ row.terms = run[r].terms
  BY <1>1, <1>3, RunFacts DEF RunRows
<1> HIDE DEF row
<1>5. visits \in Seq(VisitRows) /\ Len(visits) \in Nat /\ Len(lines) \in Nat
  BY QuoteLengths DEF QuoteInv, QuoteShapes
<1>6. t \in 1 .. Len(visits) /\ p \in Sums /\ Agreement(t, p)
  <2>1. Quote \in QuoteRows /\ QuoteFits(Quote, Len(visits)) /\ Agreement(t, p)
    BY <1>1, QuoteIs
  <2>2. t # 0 /\ t \in 0 .. Len(visits)
    BY <1>1, <2>1 DEF QuoteFits, HasBooking
  <2> QED BY <1>5, <2>1, <2>2 DEF QuoteRows
<1>7. visits' = [visits EXCEPT ![t] = w]
  BY <1>1
<1> HIDE DEF t, p
<1>8. w \in VisitRows /\ w.asked = p
  <2>1. visits[t] \in VisitRows
    BY <1>5, <1>6
  <2> QED BY <1>6, <2>1 DEF VisitRows
<1> HIDE DEF w
<1>9. /\ visits' \in Seq(VisitRows) /\ Len(visits') = Len(visits) /\ visits'[t] = w
      /\ \A v \in 1 .. Len(visits) : v # t => visits'[v] = visits[v]
  BY <1>5, <1>6, <1>7, <1>8
<1>10. VisitsFit'
  <2>1. ASSUME NEW v \in 1 .. Len(visits'), visits'[v].asked # 0 PROVE Agreement(v, visits[v].asked)'
    <3>1. CASE v = t
      <4>1. visits'[v].asked = p
        BY <1>8, <1>9, <3>1
      <4>2. Agreement(v, p)
        BY <1>6, <3>1
      <4> QED BY <1>1, <4>1, <4>2 DEF Agreement
    <3>2. CASE v # t
      <4>1. v \in 1 .. Len(visits) /\ visits'[v] = visits[v]
        BY <1>9, <3>2
      <4>2. Agreement(v, visits[v].asked)
        BY <2>1, <4>1 DEF QuoteInv, VisitsFit
      <4> QED BY <1>1, <4>1, <4>2 DEF Agreement
    <3> QED BY <3>1, <3>2
  <2> QED BY <2>1 DEF VisitsFit
<1>11. QuotesFit'
  BY <1>1, <1>9 DEF QuoteInv, QuotesFit, Agreement
<1>12. LinesFit'
  BY <1>1, <1>9 DEF QuoteInv, LinesFit
<1>13. run' \in [Runs -> RunRows] /\ run'[r] = row /\ \A u \in Runs : u # r => run'[u] = run[u]
  BY <1>2, <1>4, RunFacts
<1>14. QuoteShapes'
  BY <1>1, <1>9, <1>13 DEF QuoteInv, QuoteShapes
<1>15. RunsApart'
  BY <1>4, <1>13, ApartStay
<1>16. \A a \in Artists : ArtistKnows(a)'
  BY <1>1 DEF QuoteInv, ArtistKnows
<1>17. ASSUME NEW u \in {r} PROVE RunKnows(u)'
  BY <1>4, <1>9, <1>13, RunFacts DEF RunKnows
<1>18. /\ {r} \in SUBSET Runs /\ Len(visits') >= Len(visits) /\ Len(lines') >= Len(lines)
       /\ \A k \in 1 .. Len(lines) : /\ lines'[k].who = lines[k].who /\ lines'[k].says = lines[k].says
                                     /\ lines[k].gone = TRUE => lines'[k].gone = TRUE
                                     /\ lines'[k].terms = lines[k].terms \/ lines[k].terms = NoTerms
       /\ \A u \in Runs \ {r} :
            /\ run'[u] = run[u] /\ (run[u].pc = "square" => quotes' = quotes)
            /\ run[u].pc \in {"mark", "deliver"} => lines'[run[u].line] = lines[run[u].line]
  BY <1>1, <1>5, <1>9, <1>13
<1> QED BY <1>10, <1>11, <1>12, <1>14, <1>15, <1>16, <1>17, <1>18, QuotesGoOn

\* A run marks, delivers or withdraws the reply that it has stored.
LEMMA ReplyChanges ==
    ASSUME QuoteInv, NEW r \in Runs, NEW row \in RunRows, UNCHANGED <<flags, quotes, visits, artist>>,
           run' = [run EXCEPT ![r] = row], run[r].pc \in {"mark", "deliver"},
           NEW x \in LineRows, NEW n, n = run[r].line, lines' = [lines EXCEPT ![n] = x],
           x.who = lines[n].who, x.says = lines[n].says, x.terms = lines[n].terms \/ lines[n].terms = NoTerms,
           x.terms.visit \in 0 .. Len(visits), ~(x.gone = TRUE /\ x.shown = TRUE),
           row.line = n, row.copy = run[r].copy, row.terms = run[r].terms, row.pc \in {"deliver", "handoff", "done"},
           row.pc = "deliver" => x.shown = FALSE /\ x.gone = FALSE
    PROVE  QuoteInv'
<1>1. /\ lines \in Seq(LineRows) /\ Len(lines) \in Nat /\ Len(visits) \in Nat /\ run \in [Runs -> RunRows]
  BY QuoteLengths DEF QuoteInv, QuoteShapes
<1>2. n \in 1 .. Len(lines) /\ lines[n].who = "maia" /\ lines[n].gone = FALSE
  BY RunFacts DEF RunKnows
<1>3. /\ lines' \in Seq(LineRows) /\ Len(lines') = Len(lines) /\ lines'[n] = x
      /\ \A k \in 1 .. Len(lines) : k # n => lines'[k] = lines[k]
  BY <1>1, <1>2
<1>4. run' \in [Runs -> RunRows] /\ run'[r] = row /\ \A u \in Runs : u # r => run'[u] = run[u]
  BY <1>1
<1>5. QuoteShapes'
  BY <1>3, <1>4 DEF QuoteInv, QuoteShapes
<1>6. LinesFit'
  BY <1>3 DEF QuoteInv, LinesFit
<1>7. Len(lines') \in Nat /\ Len(lines') >= Len(lines)
  BY <1>1, <1>3
<1>8. \A k \in 1 .. Len(lines) : /\ lines'[k].who = lines[k].who /\ lines'[k].says = lines[k].says
                                 /\ lines[k].gone = TRUE => lines'[k].gone = TRUE
                                 /\ lines'[k].terms = lines[k].terms \/ lines[k].terms = NoTerms
  BY <1>2, <1>3
<1>9. QuotesFit' /\ VisitsFit'
  BY <1>7, <1>8, LinesGrow
<1>10. RunsApart'
  <2>1. \A u \in Runs : u # r /\ run[u].pc \in {"mark", "deliver"} => run[u].line # n
    BY DEF QuoteInv, RunsApart
  <2> QED BY <1>4, <2>1, ApartStay
<1>11. \A a \in Artists : ArtistKnows(a)'
  BY DEF QuoteInv, ArtistKnows
<1>12. ASSUME NEW u \in {r} PROVE RunKnows(u)'
  <2>1. row.pc = "deliver" => /\ row.line \in 1 .. Len(lines') /\ lines'[row.line].who = "maia"
                              /\ lines'[row.line].shown = FALSE /\ lines'[row.line].gone = FALSE
    BY <1>2, <1>3
  <2> QED BY <1>4, <2>1, RunFacts DEF RunKnows
<1>13. \A u \in Runs \ {r} : /\ run'[u] = run[u] /\ (run[u].pc = "square" => quotes' = quotes)
                             /\ run[u].pc \in {"mark", "deliver"} => lines'[run[u].line] = lines[run[u].line]
  <2>1. ASSUME NEW u \in Runs \ {r}, run[u].pc \in {"mark", "deliver"} PROVE lines'[run[u].line] = lines[run[u].line]
    <3>1. run[u].line # n
      BY <2>1 DEF QuoteInv, RunsApart
    <3>2. run[u].line \in 1 .. Len(lines)
      BY <2>1, RunFacts DEF RunKnows
    <3> QED BY <1>3, <3>1, <3>2
  <2> QED BY <1>4, <2>1
<1>14. {r} \in SUBSET Runs /\ Len(visits') >= Len(visits)
  BY <1>1
<1> QED BY <1>5, <1>6, <1>7, <1>8, <1>9, <1>10, <1>11, <1>12, <1>13, <1>14, QuotesGoOn

\* The reply that a run has stored.
LEMMA ReplyFacts ==
    ASSUME QuoteInv, NEW r \in Runs, run[r].pc \in {"mark", "deliver"}
    PROVE  /\ run[r].line \in 1 .. Len(lines) /\ lines[run[r].line] \in LineRows /\ lines[run[r].line].gone = FALSE
           /\ lines[run[r].line].shown = FALSE /\ lines[run[r].line].terms \in TermRows
           /\ lines[run[r].line].terms.visit \in 0 .. Len(visits)
           /\ run[r].pc = "mark" => lines[run[r].line].terms = NoTerms
<1>1. run[r].line \in 1 .. Len(lines)
  BY RunFacts DEF RunKnows
<1>2. lines[run[r].line] \in LineRows
  BY <1>1, QuoteLengths DEF QuoteInv
<1>3. lines[run[r].line].terms \in TermRows
  BY <1>2 DEF LineRows
<1> QED BY <1>1, <1>2, <1>3, RunFacts DEF RunKnows, QuoteInv, LinesFit

LEMMA MarkReplyKeeps == ASSUME QuoteInv, NEW r \in Runs, MarkReply(r) PROVE QuoteInv'
<1> DEFINE n == run[r].line
           x == [lines[n] EXCEPT !.terms = run[r].terms]
           row == [run[r] EXCEPT !.pc = "deliver"]
<1>1. /\ run[r].pc = "mark" /\ UNCHANGED <<flags, quotes, visits, artist>>
      /\ lines' = [lines EXCEPT ![n].terms = run[r].terms] /\ run' = [run EXCEPT ![r].pc = "deliver"]
  BY DEF MarkReply
<1>2. run' = [run EXCEPT ![r] = row]
  BY <1>1, RunFacts
<1>3. lines' = [lines EXCEPT ![n] = x]
  BY <1>1
<1>4. row \in RunRows /\ row.pc = "deliver" /\ row.line = n /\ row.copy = run[r].copy /\ row.terms = run[r].terms
  BY RunFacts DEF RunRows, RunSteps
<1>5. lines[n] \in LineRows /\ lines[n].terms = NoTerms /\ lines[n].gone = FALSE /\ lines[n].shown = FALSE
  BY <1>1, ReplyFacts
<1>6. /\ x \in LineRows /\ x.who = lines[n].who /\ x.says = lines[n].says /\ x.terms = run[r].terms
      /\ x.gone = FALSE /\ x.shown = FALSE
  BY <1>5, RunFacts DEF LineRows
<1> HIDE DEF x, row, n
<1>7. x.terms.visit \in 0 .. Len(visits) /\ ~(x.gone = TRUE /\ x.shown = TRUE)
  BY <1>6, RunFacts
<1>8. run[r].pc \in {"mark", "deliver"} /\ n = run[r].line /\ row.pc \in {"deliver", "handoff", "done"}
  BY <1>1, <1>4 DEF n
<1>9. UNCHANGED <<flags, quotes, visits, artist>>
  BY <1>1
<1>10. /\ row \in RunRows /\ x \in LineRows /\ x.who = lines[n].who /\ x.says = lines[n].says
       /\ x.terms = lines[n].terms \/ lines[n].terms = NoTerms
       /\ row.line = n /\ row.copy = run[r].copy /\ row.terms = run[r].terms
       /\ row.pc = "deliver" => x.shown = FALSE /\ x.gone = FALSE
  BY <1>4, <1>5, <1>6
<1> QED BY <1>2, <1>3, <1>7, <1>8, <1>9, <1>10, ReplyChanges

LEMMA DeliverReplyKeeps == ASSUME QuoteInv, NEW r \in Runs, DeliverReply(r) PROVE QuoteInv'
<1> DEFINE n == run[r].line
<1>1. run[r].pc = "deliver" /\ UNCHANGED <<flags, quotes, visits, artist>>
  BY DEF DeliverReply
<1>2. /\ lines[n] \in LineRows /\ n \in 1 .. Len(lines) /\ lines[n].gone = FALSE /\ lines[n].shown = FALSE
      /\ lines[n].terms.visit \in 0 .. Len(visits)
  BY <1>1, ReplyFacts
<1>3. PICK on \in BOOLEAN : on = TRUE
  OBVIOUS
<1>4. PICK pc \in {"handoff", "done"} :
         /\ run' = [run EXCEPT ![r].pc = pc]
         /\ \/ lines' = lines
            \/ lines' = [lines EXCEPT ![n].shown = on]
            \/ lines' = [lines EXCEPT ![n].gone = on]
  BY <1>3 DEF DeliverReply
<1> DEFINE row == [run[r] EXCEPT !.pc = pc]
<1>5. run' = [run EXCEPT ![r] = row]
  BY <1>4, RunFacts
<1>6. row \in RunRows /\ row.pc = pc /\ row.line = n /\ row.copy = run[r].copy /\ row.terms = run[r].terms
  BY RunFacts DEF RunRows, RunSteps
<1> HIDE DEF row
<1>7. CASE lines' = lines
  BY <1>1, <1>5, <1>6, <1>7, RunFacts, RunOnly
<1>8. CASE lines' = [lines EXCEPT ![n].shown = on]
  <2> DEFINE x == [lines[n] EXCEPT !.shown = on]
  <2>1. lines' = [lines EXCEPT ![n] = x]
    BY <1>8
  <2>2. /\ x \in LineRows /\ x.who = lines[n].who /\ x.says = lines[n].says /\ x.terms = lines[n].terms
        /\ x.gone = FALSE
    BY <1>2 DEF LineRows
  <2> HIDE DEF x, n
  <2>3. x.terms.visit \in 0 .. Len(visits) /\ ~(x.gone = TRUE /\ x.shown = TRUE)
    BY <1>2, <2>2
  <2>4. run[r].pc \in {"mark", "deliver"} /\ n = run[r].line /\ row.pc \in {"deliver", "handoff", "done"}
        /\ row.pc # "deliver"
    BY <1>1, <1>6 DEF n
  <2> QED BY <1>1, <1>5, <1>6, <2>1, <2>2, <2>3, <2>4, ReplyChanges
<1>9. CASE lines' = [lines EXCEPT ![n].gone = on]
  <2> DEFINE x == [lines[n] EXCEPT !.gone = on]
  <2>1. lines' = [lines EXCEPT ![n] = x]
    BY <1>9
  <2>2. /\ x \in LineRows /\ x.who = lines[n].who /\ x.says = lines[n].says /\ x.terms = lines[n].terms
        /\ x.shown = FALSE
    BY <1>2 DEF LineRows
  <2> HIDE DEF x, n
  <2>3. x.terms.visit \in 0 .. Len(visits) /\ ~(x.gone = TRUE /\ x.shown = TRUE)
    BY <1>2, <2>2
  <2>4. run[r].pc \in {"mark", "deliver"} /\ n = run[r].line /\ row.pc \in {"deliver", "handoff", "done"}
        /\ row.pc # "deliver"
    BY <1>1, <1>6 DEF n
  <2> QED BY <1>1, <1>5, <1>6, <2>1, <2>2, <2>3, <2>4, ReplyChanges
<1> QED BY <1>4, <1>7, <1>8, <1>9

LEMMA StoreReplyKeeps == ASSUME QuoteInv, NEW r \in Runs, StoreReply(r) PROVE QuoteInv'
<1> DEFINE n == Len(lines) + 1
           row == [run[r] EXCEPT !.pc = "mark", !.line = n]
<1>1. /\ lines' = Append(lines, MaiaLine) /\ UNCHANGED <<flags, quotes, visits, artist>> /\ LockFree
      /\ run' = [run EXCEPT ![r].pc = "mark", ![r].line = Len(lines) + 1]
  BY DEF StoreReply
<1>2. PICK off \in BOOLEAN : off = FALSE
  OBVIOUS
<1>3. PICK x \in LineRows : x = MaiaLine /\ x.who = "maia" /\ x.terms = NoTerms /\ x.shown = FALSE /\ x.gone = FALSE
  <2>1. "reply" \in {"yes", "another", "reply"} /\ "maia" \in {"client", "maia"}
    OBVIOUS
  <2> DEFINE y == [who |-> "maia", says |-> "reply", terms |-> NoTerms, shown |-> off, gone |-> off]
  <2>2. y \in LineRows /\ y.terms = NoTerms /\ y.shown = off /\ y.gone = off /\ y.who = "maia"
    BY <2>1, NoTermsFit DEF LineRows
  <2>3. y = MaiaLine
    BY <1>2 DEF MaiaLine
  <2> HIDE DEF y
  <2> QED BY <1>2, <2>2, <2>3
<1>4. /\ lines \in Seq(LineRows) /\ Len(lines) \in Nat /\ Len(visits) \in Nat /\ run \in [Runs -> RunRows]
  BY QuoteLengths DEF QuoteInv, QuoteShapes
<1>5. /\ lines' \in Seq(LineRows) /\ Len(lines') = n /\ lines'[n] = x /\ n \in Nat /\ n \in 1 .. Len(lines')
      /\ \A k \in 1 .. Len(lines) : lines'[k] = lines[k]
  BY <1>1, <1>3, <1>4
<1>6. run' = [run EXCEPT ![r] = row]
  BY <1>1, RunFacts
<1>7. row \in RunRows /\ row.pc = "mark" /\ row.line = n /\ row.copy = run[r].copy /\ row.terms = run[r].terms
  BY <1>5, RunFacts DEF RunRows, RunSteps
<1> HIDE DEF row
<1>8. run' \in [Runs -> RunRows] /\ run'[r] = row /\ \A u \in Runs : u # r => run'[u] = run[u]
  BY <1>4, <1>6, <1>7
<1>9. QuoteShapes'
  BY <1>1, <1>5, <1>8 DEF QuoteInv, QuoteShapes
<1>10. LinesFit'
  <2>1. ASSUME NEW i \in 1 .. Len(lines')
        PROVE  lines'[i].terms.visit \in 0 .. Len(visits') /\ ~(lines'[i].gone = TRUE /\ lines'[i].shown = TRUE)
    <3>1. CASE i \in 1 .. Len(lines)
      BY <1>1, <1>5, <3>1 DEF QuoteInv, LinesFit
    <3>2. CASE i = n
      BY <1>1, <1>3, <1>4, <1>5, <3>2, NoTermsFit
    <3>3. i \in 1 .. Len(lines) \/ i = n
      BY <1>4, <1>5
    <3> QED BY <3>1, <3>2, <3>3
  <2> QED BY <2>1 DEF LinesFit
<1>11. Len(lines') \in Nat /\ Len(lines') >= Len(lines)
  BY <1>4, <1>5
<1>12. \A k \in 1 .. Len(lines) : /\ lines'[k].who = lines[k].who /\ lines'[k].says = lines[k].says
                                  /\ lines[k].gone = TRUE => lines'[k].gone = TRUE
                                  /\ lines'[k].terms = lines[k].terms \/ lines[k].terms = NoTerms
  BY <1>5
<1>13. QuotesFit' /\ VisitsFit'
  BY <1>1, <1>11, <1>12, LinesGrow
<1>14. \A u \in Runs : run[u].pc \in {"mark", "deliver"} => run[u].line \in 1 .. Len(lines) /\ run[u].line # n
  <2>1. ASSUME NEW u \in Runs, run[u].pc \in {"mark", "deliver"} PROVE run[u].line \in 1 .. Len(lines)
    BY <2>1, RunFacts DEF RunKnows
  <2> QED BY <1>4, <2>1
<1>15. RunsApart'
  BY <1>1, <1>7, <1>8, <1>14, ApartStay
<1>16. \A a \in Artists : ArtistKnows(a)'
  BY <1>1 DEF QuoteInv, ArtistKnows
<1>17. ASSUME NEW u \in {r} PROVE RunKnows(u)'
  <2>1. lines'[row.line] = x /\ row.line \in 1 .. Len(lines')
    BY <1>5, <1>7
  <2> QED BY <1>1, <1>3, <1>7, <1>8, <2>1, RunFacts DEF RunKnows
<1>18. \A u \in Runs \ {r} : /\ run'[u] = run[u] /\ (run[u].pc = "square" => quotes' = quotes)
                             /\ run[u].pc \in {"mark", "deliver"} => lines'[run[u].line] = lines[run[u].line]
  BY <1>1, <1>5, <1>8, <1>14
<1>19. {r} \in SUBSET Runs /\ Len(visits') >= Len(visits)
  BY <1>1, <1>4
<1> QED BY <1>9, <1>10, <1>11, <1>12, <1>13, <1>15, <1>16, <1>17, <1>18, <1>19, QuotesGoOn

\* An artist's request changes nothing but itself.
LEMMA ArtistOnly ==
    ASSUME QuoteInv, NEW a \in Artists, NEW x \in ArtistRows, UNCHANGED <<lines, quotes, visits, run>>,
           flags' = flags, artist' = [artist EXCEPT ![a] = x],
           x.pc = "save" => x.copy.price \in Prices /\ x.copy.visit = 0
    PROVE  QuoteInv'
<1>1. artist \in [Artists -> ArtistRows]
  BY DEF QuoteInv, QuoteShapes
<1>2. artist' \in [Artists -> ArtistRows] /\ artist'[a] = x /\ \A b \in Artists : b # a => artist'[b] = artist[b]
  BY <1>1
<1>3. QuoteShapes'
  BY <1>2 DEF QuoteInv, QuoteShapes
<1>4. \A b \in Artists : ArtistKnows(b)'
  BY <1>2 DEF QuoteInv, ArtistKnows
<1>5. LinesFit' /\ QuotesFit' /\ VisitsFit' /\ RunsApart'
  BY DEF QuoteInv, LinesFit, QuotesFit, VisitsFit, RunsApart, Agreement
<1>6. \A r \in Runs : RunKnows(r)'
  BY DEF QuoteInv, RunKnows, Agreement, Quote
<1> QED BY <1>3, <1>4, <1>5, <1>6 DEF QuoteInv

LEMMA ArtistFacts ==
    ASSUME QuoteInv, NEW a \in Artists
    PROVE  /\ artist \in [Artists -> ArtistRows] /\ artist[a] \in ArtistRows /\ artist[a].copy \in QuoteRows
           /\ artist[a].at \in Nat /\ ArtistKnows(a)
           /\ artist[a].does \in {"APPROVE", "AI_SCHEDULING", "MANUAL", "LINK"}
<1>1. artist \in [Artists -> ArtistRows] /\ ArtistKnows(a)
  BY DEF QuoteInv, QuoteShapes
<1> QED BY <1>1 DEF ArtistRows

LEMMA DecideQuoteKeeps ==
    ASSUME QuoteInv, NEW a \in Artists, NEW does \in {"APPROVE", "AI_SCHEDULING", "MANUAL", "LINK"}, DecideQuote(a, does)
    PROVE  QuoteInv'
<1>1. PICK p \in Prices, at \in 1 .. 2 :
         /\ artist' = [artist EXCEPT ![a] = [pc |-> "save", does |-> does, at |-> at,
                                             copy |-> [Quote EXCEPT !.price = p, !.visit = 0]]]
         /\ UNCHANGED <<flags, lines, quotes, visits, run>>
  BY DEF DecideQuote
<1> DEFINE c == [Quote EXCEPT !.price = p, !.visit = 0]
           x == [pc |-> "save", does |-> does, at |-> at, copy |-> c]
<1>2. artist' = [artist EXCEPT ![a] = x]
  BY <1>1
<1>3. c \in QuoteRows /\ c.price = p /\ c.visit = 0
  BY QuoteIs DEF QuoteRows, Sums
<1> HIDE DEF c
<1>4. x \in ArtistRows /\ x.copy = c
  BY <1>3 DEF ArtistRows
<1> HIDE DEF x
<1>5. x.copy.price \in Prices /\ x.copy.visit = 0
  BY <1>3, <1>4
<1> QED BY <1>1, <1>2, <1>4, <1>5, ArtistOnly

\* An artist's request adds an event, and perhaps an appointment, while nobody books.
LEMMA ArtistLogs ==
    ASSUME QuoteInv, NEW a \in Artists, UNCHANGED <<lines, run>>, LockFree,
           flags' \in [ai : BOOLEAN, status : {"OPEN", "AWAITING_QUOTE", "QUOTE_APPROVED", "BOOKING_LINKED"}],
           NEW x \in ArtistRows, artist' = [artist EXCEPT ![a] = x], x.pc = "done",
           NEW q \in QuoteRows, quotes' = Append(quotes, q), q.kind # "ACCEPTED",
           visits' \in Seq(VisitRows), Len(visits') >= Len(visits), VisitsFit', QuoteFits(q, Len(visits'))
    PROVE  QuoteInv'
<1>3. artist' \in [Artists -> ArtistRows] /\ artist'[a] = x /\ \A b \in Artists : b # a => artist'[b] = artist[b]
  BY ArtistFacts
<1>4. \A b \in Artists : ArtistKnows(b)'
  BY <1>3 DEF QuoteInv, ArtistKnows
<1>5. Len(visits') \in Nat /\ Len(lines) \in Nat /\ Len(visits) \in Nat
  BY QuoteLengths DEF QuoteInv
<1>6. QuotesFit' /\ quotes' \in Seq(QuoteRows)
  BY <1>5, LogFits
<1>7. QuoteShapes'
  BY <1>3, <1>6 DEF QuoteInv, QuoteShapes
<1>8. LinesFit'
  BY <1>5 DEF QuoteInv, LinesFit
<1>9. RunsApart'
  BY DEF QuoteInv, RunsApart
<1>0. PICK moved \in SUBSET Runs : moved = {}
  OBVIOUS
<1>10. \A u \in moved : RunKnows(u)'
  BY <1>0
<1>11. \A u \in Runs \ moved : /\ run'[u] = run[u] /\ (run[u].pc = "square" => quotes' = quotes)
                               /\ run[u].pc \in {"mark", "deliver"} => lines'[run[u].line] = lines[run[u].line]
  BY LockIsFree
<1>12. \A k \in 1 .. Len(lines) : /\ lines'[k].who = lines[k].who /\ lines'[k].says = lines[k].says
                                  /\ lines[k].gone = TRUE => lines'[k].gone = TRUE
                                  /\ lines'[k].terms = lines[k].terms \/ lines[k].terms = NoTerms
  OBVIOUS
<1>13. Len(lines') >= Len(lines)
  BY <1>5
<1> QED BY <1>4, <1>6, <1>7, <1>8, <1>9, <1>10, <1>11, <1>12, <1>13, QuotesGoOn

\* What an artist's request appends: an event of its decision, and a booking only for
\* the approved quote in force.
LEMMA SaveQuoteCases ==
    ASSUME QuoteInv, NEW a \in Artists, SaveQuote(a)
    PROVE  \/ UNCHANGED <<flags, lines, quotes, visits, run>> /\ artist' = [artist EXCEPT ![a].pc = "done"]
           \/ \E q \in QuoteRows :
                 /\ UNCHANGED <<lines, run>> /\ LockFree /\ artist' = [artist EXCEPT ![a].pc = "done"]
                 /\ flags' \in [ai : BOOLEAN, status : {"OPEN", "AWAITING_QUOTE", "QUOTE_APPROVED", "BOOKING_LINKED"}]
                 /\ quotes' = Append(quotes, q) /\ q.kind # "ACCEPTED" /\ QuoteFits(q, Len(visits'))
                 /\ visits' \in Seq(VisitRows) /\ Len(visits') >= Len(visits) /\ VisitsFit'
                 /\ q.kind = "LINKED" => Bookable(Quote) /\ q.price = Quote.price
<1> DEFINE c == artist[a].copy
           n == Len(visits) + 1
           w == [price |-> c.price, at |-> artist[a].at, asked |-> 0]
<1>1. /\ artist[a].pc = "save" /\ UNCHANGED <<lines, run>> /\ LockFree /\ artist' = [artist EXCEPT ![a].pc = "done"]
  BY DEF SaveQuote
<1>2. c \in QuoteRows /\ c.price \in Prices /\ c.visit = 0 /\ Len(visits) \in Nat /\ visits \in Seq(VisitRows)
  BY <1>1, ArtistFacts, QuoteLengths DEF ArtistKnows, QuoteInv, QuoteShapes
<1>3. CASE ~StillDecided(a)
  <2>1. UNCHANGED <<flags, quotes, visits>>
    BY <1>3 DEF SaveQuote
  <2> QED BY <1>1, <2>1
<1>4. CASE StillDecided(a) /\ artist[a].does \in {"APPROVE", "MANUAL", "AI_SCHEDULING"}
  <2>1. PICK sort \in {"APPROVED", "AI_SCHEDULING"} :
          /\ quotes' = Append(quotes, [c EXCEPT !.kind = sort]) /\ UNCHANGED visits
          /\ \/ flags' = [ai |-> FALSE, status |-> "QUOTE_APPROVED"]
             \/ flags' = [ai |-> TRUE, status |-> "OPEN"]
    <3>1. CASE artist[a].does = "APPROVE"
      BY <1>4, <3>1 DEF SaveQuote, LogEvent
    <3>2. CASE artist[a].does = "MANUAL"
      BY <1>4, <3>2 DEF SaveQuote, LogEvent
    <3>3. CASE artist[a].does = "AI_SCHEDULING"
      BY <1>4, <3>3 DEF SaveQuote, LogEvent
    <3> QED BY <1>4, <3>1, <3>2, <3>3
  <2> DEFINE q == [c EXCEPT !.kind = sort]
  <2>2. q \in QuoteRows /\ q.kind = sort /\ q.price = c.price /\ q.visit = c.visit
    BY <1>2 DEF QuoteRows, Kinds
  <2> HIDE DEF q
  <2>3. QuoteFits(q, Len(visits)) /\ q.kind # "ACCEPTED" /\ q.kind # "LINKED"
    BY <1>2, <2>2 DEF QuoteFits, HasBooking
  <2>4. flags' \in [ai : BOOLEAN, status : {"OPEN", "AWAITING_QUOTE", "QUOTE_APPROVED", "BOOKING_LINKED"}]
    <3>1. PICK on, off \in BOOLEAN : on = TRUE /\ off = FALSE
      OBVIOUS
    <3>2. \/ flags' = [ai |-> off, status |-> "QUOTE_APPROVED"]
          \/ flags' = [ai |-> on, status |-> "OPEN"]
      BY <2>1, <3>1
    <3> QED BY <3>2
  <2>5. VisitsFit' /\ visits' \in Seq(VisitRows) /\ Len(visits') = Len(visits)
    BY <1>1, <2>1, SameVisits
  <2>6. quotes' = Append(quotes, q)
    BY <2>1 DEF q
  <2>7. QuoteFits(q, Len(visits')) /\ Len(visits') >= Len(visits)
    BY <1>2, <2>3, <2>5
  <2> QED BY <1>1, <2>2, <2>3, <2>4, <2>5, <2>6, <2>7
<1>5. CASE StillDecided(a) /\ artist[a].does = "LINK"
  <2>1. /\ flags' = [ai |-> FALSE, status |-> "BOOKING_LINKED"]
        /\ IF VisitAt(artist[a].at) = {}
           THEN /\ visits' = Append(visits, w)
                /\ quotes' = Append(quotes, [[c EXCEPT !.visit = n] EXCEPT !.kind = "LINKED"])
           ELSE /\ UNCHANGED visits
                /\ quotes' = Append(quotes, [[c EXCEPT !.visit = Newest(VisitAt(artist[a].at))] EXCEPT !.kind = "LINKED"])
    BY <1>5 DEF SaveQuote, LogEvent
  <2>2. Quote.kind = "APPROVED" /\ Quote.price = c.price
    BY <1>5 DEF StillDecided
  <2>3. w \in VisitRows /\ w.asked = 0
    BY <1>2, ArtistFacts DEF VisitRows, Sums
  <2> HIDE DEF w
  <2>4. PICK v \in Nat : /\ v # 0 /\ v \in 0 .. Len(visits')
                         /\ quotes' = Append(quotes, [[c EXCEPT !.visit = v] EXCEPT !.kind = "LINKED"])
                         /\ VisitsFit' /\ visits' \in Seq(VisitRows) /\ Len(visits') >= Len(visits)
    <3>1. CASE VisitAt(artist[a].at) = {}
      <4>1. /\ visits' = Append(visits, w)
            /\ quotes' = Append(quotes, [[c EXCEPT !.visit = n] EXCEPT !.kind = "LINKED"])
        BY <2>1, <3>1
      <4>2. VisitsFit' /\ visits' \in Seq(VisitRows) /\ Len(visits') = n
        BY <1>1, <2>3, <4>1, VisitAdded
      <4>3. n \in Nat /\ n # 0 /\ n >= Len(visits)
        BY <1>2
      <4>4. n \in 0 .. Len(visits') /\ Len(visits') >= Len(visits)
        BY <1>2, <4>2
      <4> HIDE DEF n
      <4> QED BY <4>1, <4>2, <4>3, <4>4
    <3>2. CASE VisitAt(artist[a].at) # {}
      <4> DEFINE m == Newest(VisitAt(artist[a].at))
      <4>1. /\ UNCHANGED visits
            /\ quotes' = Append(quotes, [[c EXCEPT !.visit = m] EXCEPT !.kind = "LINKED"])
        BY <2>1, <3>2
      <4>2. VisitAt(artist[a].at) \in SUBSET (1 .. Len(visits))
        BY DEF VisitAt
      <4>3. m \in VisitAt(artist[a].at)
        BY <1>2, <3>2, <4>2, NewestIs
      <4>4. m \in 1 .. Len(visits)
        BY <4>2, <4>3
      <4> HIDE DEF m
      <4>5. VisitsFit' /\ visits' \in Seq(VisitRows) /\ Len(visits') = Len(visits)
        BY <1>1, <4>1, SameVisits
      <4>6. m \in Nat /\ m # 0 /\ m \in 0 .. Len(visits') /\ Len(visits') >= Len(visits)
        BY <1>2, <4>4, <4>5
      <4> QED BY <4>1, <4>5, <4>6
    <3> QED BY <3>1, <3>2
  <2> DEFINE b == [c EXCEPT !.visit = v]
             q == [b EXCEPT !.kind = "LINKED"]
  <2>5. b \in QuoteRows /\ b.price = c.price /\ b.visit = v
    BY <1>2 DEF QuoteRows
  <2>6. quotes' = Append(quotes, q)
    BY <2>4
  <2> HIDE DEF b
  <2>7. q \in QuoteRows /\ q.kind = "LINKED" /\ q.price = c.price /\ q.visit = v
    BY <2>5 DEF QuoteRows, Kinds
  <2> HIDE DEF q
  <2>8. QuoteFits(q, Len(visits')) /\ q.kind # "ACCEPTED"
    BY <1>2, <2>4, <2>7 DEF QuoteFits, HasBooking
  <2>9. Bookable(Quote) /\ q.price = Quote.price
    BY <2>2, <2>7 DEF Bookable
  <2>10. flags' \in [ai : BOOLEAN, status : {"OPEN", "AWAITING_QUOTE", "QUOTE_APPROVED", "BOOKING_LINKED"}]
    <3>1. PICK off \in BOOLEAN : off = FALSE
      OBVIOUS
    <3>2. flags' = [ai |-> off, status |-> "BOOKING_LINKED"]
      BY <2>1, <3>1
    <3> QED BY <3>2
  <2>11. VisitsFit' /\ visits' \in Seq(VisitRows) /\ Len(visits') >= Len(visits)
    BY <2>4
  <2> QED BY <1>1, <2>6, <2>7, <2>8, <2>9, <2>10, <2>11
<1>6. artist[a].does \in {"APPROVE", "AI_SCHEDULING", "MANUAL", "LINK"}
  BY ArtistFacts
<1> QED BY <1>3, <1>4, <1>5, <1>6

LEMMA SaveQuoteKeeps == ASSUME QuoteInv, NEW a \in Artists, SaveQuote(a) PROVE QuoteInv'
<1> DEFINE x == [artist[a] EXCEPT !.pc = "done"]
<1>1. artist' = [artist EXCEPT ![a].pc = "done"]
  BY DEF SaveQuote
<1>2. artist' = [artist EXCEPT ![a] = x]
  BY <1>1, ArtistFacts
<1>3. x \in ArtistRows /\ x.pc = "done"
  BY ArtistFacts DEF ArtistRows
<1> HIDE DEF x
<1>4. CASE UNCHANGED <<flags, lines, quotes, visits, run>>
  BY <1>2, <1>3, <1>4, ArtistOnly
<1>5. CASE \E q \in QuoteRows :
                 /\ UNCHANGED <<lines, run>> /\ LockFree
                 /\ flags' \in [ai : BOOLEAN, status : {"OPEN", "AWAITING_QUOTE", "QUOTE_APPROVED", "BOOKING_LINKED"}]
                 /\ quotes' = Append(quotes, q) /\ q.kind # "ACCEPTED" /\ QuoteFits(q, Len(visits'))
                 /\ visits' \in Seq(VisitRows) /\ Len(visits') >= Len(visits) /\ VisitsFit'
  BY <1>2, <1>3, <1>5, ArtistLogs
<1> QED BY <1>4, <1>5, SaveQuoteCases

LEMMA QuoteStart == ASSUME QuoteInit PROVE QuoteInv
<1> USE DEF QuoteInit
<1>1. flags \in [ai : BOOLEAN, status : {"OPEN", "AWAITING_QUOTE", "QUOTE_APPROVED", "BOOKING_LINKED"}]
  <2>1. PICK on \in BOOLEAN : on = TRUE
    OBVIOUS
  <2>2. flags = [ai |-> on, status |-> "OPEN"]
    BY <2>1
  <2> QED BY <2>2
<1>2. lines \in Seq(LineRows) /\ quotes \in Seq(QuoteRows) /\ visits \in Seq(VisitRows)
  OBVIOUS
<1>3. Len(lines) = 0 /\ Len(quotes) = 0 /\ Len(visits) = 0
  OBVIOUS
<1>4. IdleArtist \in ArtistRows /\ IdleArtist.pc = "idle"
  BY NoQuoteFits DEF IdleArtist, ArtistRows
<1>5. IdleRun \in RunRows /\ IdleRun.pc = "idle" /\ IdleRun.copy = NoQuote /\ IdleRun.terms = NoTerms
  <2>1. PICK off \in BOOLEAN : off = FALSE
    OBVIOUS
  <2>2. IdleRun = [pc |-> "idle", seen |-> 0, copy |-> NoQuote, terms |-> NoTerms, line |-> 0, tools |-> 0,
                   handoff |-> off]
    BY <2>1 DEF IdleRun
  <2>3. 0 \in 0 .. LastTool
    BY QuoteBounds
  <2> QED BY <2>2, <2>3, NoQuoteFits, NoTermsFit DEF RunRows, RunSteps
<1>6. artist \in [Artists -> ArtistRows] /\ \A a \in Artists : artist[a] = IdleArtist
  BY <1>4
<1>7. run \in [Runs -> RunRows] /\ \A r \in Runs : run[r] = IdleRun
  BY <1>5
<1>8. QuoteShapes
  BY <1>1, <1>2, <1>6, <1>7 DEF QuoteShapes
<1>9. LinesFit /\ QuotesFit /\ VisitsFit
  BY <1>3 DEF LinesFit, QuotesFit, VisitsFit
<1>10. RunsApart
  BY <1>5, <1>7 DEF RunsApart
<1>11. \A a \in Artists : ArtistKnows(a)
  BY <1>4, <1>6 DEF ArtistKnows
<1>12. \A r \in Runs : RunKnows(r)
  BY <1>3, <1>5, <1>7, NoQuoteFits, NoTermsFit DEF RunKnows
<1> QED BY <1>8, <1>9, <1>10, <1>11, <1>12 DEF QuoteInv

LEMMA QuoteStep == ASSUME QuoteInv, [QuoteNext]_quoteVars PROVE QuoteInv'
<1>1. CASE \E word \in {"yes", "another"} : ClientWrites(word)
  BY <1>1, ClientWritesKeeps
<1>2. CASE FlipAi
  BY <1>2, FlipAiKeeps
<1>3. ASSUME NEW a \in Artists, SaveQuote(a) PROVE QuoteInv'
  BY <1>3, SaveQuoteKeeps
<1>4. ASSUME NEW a \in Artists, NEW does \in {"APPROVE", "AI_SCHEDULING", "MANUAL", "LINK"}, DecideQuote(a, does)
      PROVE  QuoteInv'
  BY <1>4, DecideQuoteKeeps
<1>5. ASSUME NEW r \in Runs, RunStep(r) PROVE QuoteInv'
  <2>1. CASE BeginRun(r)
    BY <2>1, BeginRunKeeps
  <2>2. CASE OpenInquiry(r)
    BY <2>2, OpenInquiryKeeps
  <2>3. CASE PresentTerms(r)
    BY <2>3, PresentTermsKeeps
  <2>4. CASE RequestQuote(r)
    BY <2>4, RequestQuoteKeeps
  <2>5. CASE BookQuote(r)
    BY <2>5, BookQuoteKeeps
  <2>6. CASE RecordVisit(r)
    BY <2>6, RecordVisitKeeps
  <2>7. CASE SquareFails(r)
    BY <2>7, SquareFailsKeeps
  <2>8. CASE ReadAgreement(r)
    BY <2>8, ReadAgreementKeeps
  <2>9. CASE CheckAgreement(r)
    BY <2>9, CheckAgreementKeeps
  <2>10. CASE WriteAgreement(r)
    BY <2>10, WriteAgreementKeeps
  <2>11. CASE AskDeposit(r)
    BY <2>11, AskDepositKeeps
  <2>12. CASE StoreReply(r)
    BY <2>12, StoreReplyKeeps
  <2>13. CASE MarkReply(r)
    BY <2>13, MarkReplyKeeps
  <2>14. CASE DeliverReply(r)
    BY <2>14, DeliverReplyKeeps
  <2>15. CASE HandOff(r)
    BY <2>15, HandOffKeeps
  <2> QED BY <1>5, <2>1, <2>2, <2>3, <2>4, <2>5, <2>6, <2>7, <2>8, <2>9, <2>10, <2>11, <2>12, <2>13, <2>14, <2>15 DEF RunStep
<1>6. CASE UNCHANGED quoteVars
  BY <1>6 DEF quoteVars, QuoteInv, QuoteShapes, LinesFit, QuotesFit, VisitsFit, RunsApart, ArtistKnows, RunKnows,
              Agreement, Quote
<1> QED BY <1>1, <1>2, <1>3, <1>4, <1>5, <1>6 DEF QuoteNext

LEMMA AppendedLast ==
    ASSUME QuoteInv, NEW q \in QuoteRows, quotes' = Append(quotes, q)
    PROVE  Last(quotes') = q
<1>1. quotes \in Seq(QuoteRows)
  BY DEF QuoteInv, QuoteShapes
<1> QED BY <1>1 DEF Last

\* Every step that records a booking, and whose price it takes.
LEMMA StepBooksApproved ==
    ASSUME QuoteInv, QuoteNext, Len(quotes') > Len(quotes), Last(quotes').kind = "LINKED"
    PROVE  Bookable(Quote) /\ Last(quotes').price = Quote.price
<1>0. quotes \in Seq(QuoteRows) /\ Len(quotes) \in Nat
  BY QuoteLengths DEF QuoteInv, QuoteShapes
<1>1. quotes' # quotes
  BY <1>0
<1>2. ASSUME NEW a \in Artists, SaveQuote(a) PROVE Bookable(Quote) /\ Last(quotes').price = Quote.price
  <2>1. PICK q \in QuoteRows : quotes' = Append(quotes, q) /\ (q.kind = "LINKED" => Bookable(Quote) /\ q.price = Quote.price)
    BY <1>1, <1>2, SaveQuoteCases
  <2> QED BY <2>1, AppendedLast
<1>3. ASSUME NEW r \in Runs, RecordVisit(r) PROVE Bookable(Quote) /\ Last(quotes').price = Quote.price
  <2> DEFINE n == Len(visits) + 1
             c == [run[r].copy EXCEPT !.visit = n]
             q == [c EXCEPT !.kind = "LINKED"]
  <2>1. run[r].pc = "square" /\ quotes' = Append(quotes, q)
    BY <1>3 DEF RecordVisit, LogEvent
  <2>2. run[r].copy = Quote /\ Quote.kind = "AI_SCHEDULING"
    BY <2>1, RunFacts DEF RunKnows
  <2>3. c \in QuoteRows /\ c.price = Quote.price
    BY <2>2, RunFacts DEF QuoteRows
  <2> HIDE DEF c
  <2>4. q \in QuoteRows /\ q.price = Quote.price
    BY <2>3 DEF QuoteRows, Kinds
  <2> HIDE DEF q
  <2> QED BY <2>1, <2>2, <2>4, AppendedLast DEF Bookable
<1>4. ASSUME NEW r \in Runs, NEW q \in QuoteRows, quotes' = Append(quotes, q), q.kind # "LINKED" PROVE FALSE
  BY <1>4, AppendedLast
<1>5. ASSUME NEW r \in Runs, OpenInquiry(r) \/ HandOff(r) PROVE FALSE
  <2>1. quotes' = Append(quotes, [NoQuote EXCEPT !.kind = "REQUESTED"])
    BY <1>1, <1>5 DEF OpenInquiry, HandOff, LogEvent
  <2>2. [NoQuote EXCEPT !.kind = "REQUESTED"] = NoQuote /\ NoQuote.kind # "LINKED"
    BY DEF NoQuote
  <2>3. NoQuote \in QuoteRows
    BY NoQuoteFits
  <2> QED BY <1>4, <2>1, <2>2, <2>3
<1>6. ASSUME NEW r \in Runs, WriteAgreement(r) PROVE FALSE
  <2> DEFINE q == [run[r].copy EXCEPT !.kind = "ACCEPTED"]
  <2>1. quotes' = Append(quotes, q)
    BY <1>6 DEF WriteAgreement, LogEvent
  <2>2. q \in QuoteRows /\ q.kind = "ACCEPTED"
    BY RunFacts DEF QuoteRows, Kinds
  <2> HIDE DEF q
  <2> QED BY <1>4, <2>1, <2>2
<1>7. \/ \E a \in Artists : SaveQuote(a)
      \/ \E r \in Runs : RecordVisit(r)
      \/ \E r \in Runs : OpenInquiry(r) \/ HandOff(r) \/ WriteAgreement(r)
  <2>1. ASSUME NEW r \in Runs, RunStep(r), quotes' # quotes
        PROVE  RecordVisit(r) \/ OpenInquiry(r) \/ HandOff(r) \/ WriteAgreement(r)
    BY <2>1 DEF RunStep, BeginRun, PresentTerms, RequestQuote, BookQuote, SquareFails, ReadAgreement, CheckAgreement,
                AskDeposit, StoreReply, MarkReply, DeliverReply
  <2>2. ASSUME NEW word, ClientWrites(word) PROVE quotes' = quotes
    BY <2>2 DEF ClientWrites
  <2>3. FlipAi => quotes' = quotes
    BY DEF FlipAi
  <2>4. ASSUME NEW a, NEW does, DecideQuote(a, does) PROVE quotes' = quotes
    BY <2>4 DEF DecideQuote
  <2> QED BY <1>1, <2>1, <2>2, <2>3, <2>4 DEF QuoteNext
<1> QED BY <1>2, <1>3, <1>5, <1>6, <1>7

\* What the invariant says of the quotes: every row has its type, and every deposit
\* that was asked for was agreed to.
LEMMA InvAgrees == ASSUME QuoteInv PROVE QuoteTypeOK /\ DepositAgreed
<1>1. QuoteShapes /\ LinesFit /\ QuotesFit /\ VisitsFit
  BY DEF QuoteInv
<1>2. \A i \in 1 .. Len(lines) : /\ lines[i].who \in {"client", "maia"} /\ lines[i].gone => ~lines[i].shown
                                 /\ lines[i].terms.visit \in 0 .. Len(visits)
  <2>1. ASSUME NEW i \in 1 .. Len(lines) PROVE /\ lines[i].who \in {"client", "maia"} /\ lines[i].gone => ~lines[i].shown
                                               /\ lines[i].terms.visit \in 0 .. Len(visits)
    <3>1. lines[i].who \in {"client", "maia"} /\ lines[i].gone \in BOOLEAN /\ lines[i].shown \in BOOLEAN
      BY <1>1, QuoteLengths DEF LineRows
    <3>2. lines[i].terms.visit \in 0 .. Len(visits) /\ ~(lines[i].gone = TRUE /\ lines[i].shown = TRUE)
      BY <1>1 DEF LinesFit
    <3> QED BY <3>1, <3>2
  <2> QED BY <2>1
<1>3. \A e \in 1 .. Len(quotes) :
        /\ quotes[e].kind \in Kinds
        /\ quotes[e].kind \in {"LINKED", "ACCEPTED"} <=> quotes[e].visit \in 1 .. Len(visits)
        /\ quotes[e].kind # "REQUESTED" => quotes[e].price \in Prices
  <2>1. ASSUME NEW e \in 1 .. Len(quotes)
        PROVE  /\ quotes[e].kind \in Kinds
               /\ quotes[e].kind \in {"LINKED", "ACCEPTED"} <=> quotes[e].visit \in 1 .. Len(visits)
               /\ quotes[e].kind # "REQUESTED" => quotes[e].price \in Prices
    <3>1. quotes[e] \in QuoteRows /\ QuoteFits(quotes[e], Len(visits)) /\ Len(visits) \in Nat
      BY <1>1, QuoteLengths DEF QuotesFit
    <3> QED BY <3>1 DEF QuoteRows, QuoteFits, HasBooking
  <2> QED BY <2>1
<1>4. \A r \in Runs : run[r].tools \in 0 .. LastTool
  BY RunFacts
<1>5. QuoteTypeOK
  BY <1>1, <1>2, <1>3, <1>4 DEF QuoteTypeOK, QuoteShapes
<1>6. ASSUME NEW v \in 1 .. Len(visits), visits[v].asked # 0
      PROVE  \E j \in 1 .. Len(lines) : \E i \in 1 .. (j - 1) : AgreedIn(i, j, v)
  <2>1. Agreement(v, visits[v].asked)
    BY <1>1, <1>6 DEF VisitsFit
  <2>2. PICK j \in 1 .. Len(lines) : \E i \in 1 .. (j - 1) :
           /\ lines[i].who = "maia" /\ lines[i].terms = [visit |-> v, price |-> visits[v].asked]
           /\ lines[j].says = "yes"
           /\ \A k \in (i + 1) .. (j - 1) : lines[k].who = "maia" => lines[k].gone = TRUE
    BY <2>1 DEF Agreement
  <2>3. PICK i \in 1 .. (j - 1) :
           /\ lines[i].who = "maia" /\ lines[i].terms = [visit |-> v, price |-> visits[v].asked]
           /\ lines[j].says = "yes"
           /\ \A k \in (i + 1) .. (j - 1) : lines[k].who = "maia" => lines[k].gone = TRUE
    BY <2>2
  <2>4. \A k \in (i + 1) .. (j - 1) : lines[k].who = "maia" => lines[k].gone
    BY <2>3
  <2>5. AgreedIn(i, j, v)
    BY <2>3, <2>4 DEF AgreedIn
  <2> QED BY <2>5
<1>7. DepositAgreed
  BY <1>6 DEF DepositAgreed
<1> QED BY <1>5, <1>7

(* Quotes keep to what was agreed, for any number of artists' requests,    *)
(* runs, prices, messages and events: every booking is made under the      *)
(* price in force, though requests and runs read it without the lock and   *)
(* write later, and a deposit is asked for an appointment only after a     *)
(* reply presented its price and the client said yes to that reply.        *)
THEOREM QuotesAreAgreed == QuoteSpec => QuotesSafe
<1>1. QuoteInit => QuoteInv
  BY QuoteStart
<1>2. QuoteInv /\ [QuoteNext]_quoteVars => QuoteInv'
  BY QuoteStep
<1>3. QuoteInv => QuoteTypeOK /\ DepositAgreed
  BY InvAgrees
<1>4. QuoteInv /\ [QuoteNext]_quoteVars =>
        [Len(quotes') > Len(quotes) /\ Last(quotes').kind = "LINKED" =>
            Bookable(Quote) /\ Last(quotes').price = Quote.price]_quoteVars
  <2>1. CASE UNCHANGED quoteVars
    BY <2>1
  <2>2. CASE QuoteInv /\ QuoteNext
    BY <2>2, StepBooksApproved
  <2> QED BY <2>1, <2>2
<1> QED BY <1>1, <1>2, <1>3, <1>4, PTL DEF QuoteSpec, QuotesSafe, BookedAtApproved
=============================================================================
