--------------------------- MODULE ServiceCatalog ---------------------------
(***************************************************************************)
(* The services one artist offers, the settings around them, and the two   *)
(* parts of the program that judge them independently: the readiness page, *)
(* which tells a studio whether clients can book and pay deposits, and the *)
(* tools with which the receptionist looks for times, books and asks for   *)
(* the deposit.                                                            *)
(*                                                                         *)
(* A service is edited field by field by requests that read the row,       *)
(* normalise what they would write against what they read, and write       *)
(* without a lock; the receptionist reads services between any two edits.  *)
(* Names and descriptions are left out: services are told apart by id.     *)
(* Tokens and sign-in of the Square connection belong to SquareConnection. *)
(***************************************************************************)
EXTENDS Integers

CONSTANTS
    Offered,      \* the services of the artist
    Editors,      \* requests that edit a service
    Drafts,       \* rows services are created with
    Changes,      \* the fields each editor sends: sets of [Editors -> partial rows]
    Places,       \* Square locations
    StripeKeys,   \* whether the deployment has Stripe's keys
    SettingLimit  \* bound: changes of the settings around the services

None == -1

\* What a service row may hold: the schemas of the two routes check every field.
FieldRange == [active |-> BOOLEAN, duration |-> Nat, pricing |-> {"FLAT", "HOURLY", "QUOTE"},
               base |-> Nat \cup {None}, hourly |-> Nat \cup {None}, approval |-> BOOLEAN, tattoo |-> BOOLEAN,
               deposit |-> {"NONE", "FIXED", "PERCENT"}, amount |-> (Nat \ {0}) \cup {None},
               percent |-> (1 .. 100) \cup {None}, pays |-> {"SQUARE", "STRIPE", "VENMO_MANUAL"}]

ChangeFits(c) == DOMAIN c \subseteq DOMAIN FieldRange /\ \A field \in DOMAIN c : c[field] \in FieldRange[field]
RowFits(r) == DOMAIN r = DOMAIN FieldRange /\ ChangeFits(r)

ASSUME CatalogInputs ==
    /\ \A d \in Drafts : RowFits(d)
    /\ \A c \in Changes, e \in Editors : ChangeFits(c[e])
    /\ StripeKeys \in BOOLEAN /\ SettingLimit \in Nat /\ "none" \notin Places

VARIABLES
    rows,         \* services.*: a function on the services that exist
    change,       \* what each editor wants
    editor,       \* each editor: [pc, on, read]
    artist,       \* [booking, receptionist, venmo]
    square,       \* schedulingConnections: [status, place]
    mapped,       \* serviceProviderMappings: <<service, place>>
    hours,        \* whether bookable hours are set
    settings,     \* changes of the settings so far
    reading,      \* the service row a booking in progress has read, or NoRow
    booked        \* the receptionist's latest appointment: [of, duration, deposit, pays]

catalogVars == <<rows, change, editor, artist, square, mapped, hours, settings, reading, booked>>

NoRow == [active |-> FALSE, duration |-> 0, pricing |-> "QUOTE", base |-> None, hourly |-> None,
          approval |-> FALSE, tattoo |-> FALSE, deposit |-> "NONE", amount |-> None, percent |-> None,
          pays |-> "SQUARE"]

CatalogInit ==
    /\ rows = << >> /\ change \in Changes
    /\ editor = [e \in Editors |-> [pc |-> "idle", on |-> CHOOSE s \in Offered : TRUE, read |-> NoRow]]
    /\ artist = [booking |-> TRUE, receptionist |-> TRUE, venmo |-> FALSE]
    /\ square = [status |-> "none", place |-> "none"]
    /\ mapped = {} /\ hours = FALSE /\ settings = 0
    /\ reading = [of |-> CHOOSE s \in Offered : TRUE, row |-> NoRow] /\ booked = {}

-----------------------------------------------------------------------------
(* What a row must satisfy, and how a partial edit is completed.           *)

ValidDuration(r) == r.duration > 0 \/ (r.duration = 0 /\ r.pricing = "QUOTE" /\ r.approval)

Sent(c, field) == field \in DOMAIN c

\* The fields of f, and of g those that f leaves out.
Over(f, g) == [field \in DOMAIN f \cup DOMAIN g |-> IF field \in DOMAIN f THEN f[field] ELSE g[field]]

\* A price is kept only for the type it belongs to, and lost when the type changes.
Kept(c, r, type, own, field) ==
    IF type # own THEN None
    ELSE IF Sent(c, field) THEN c[field]
    ELSE IF r.pricing = type THEN r[field] ELSE None

Priced(c, r) ==
    LET type == IF Sent(c, "pricing") THEN c.pricing ELSE r.pricing
    IN [base |-> Kept(c, r, type, "FLAT", "base"), hourly |-> Kept(c, r, type, "HOURLY", "hourly")]

TouchesDeposit(c) == DOMAIN c \cap {"deposit", "amount", "percent"} # {}

Deposited(c, r) ==
    LET type == IF Sent(c, "deposit") THEN c.deposit ELSE r.deposit
        Keep(own, field) == IF type # own THEN None
                            ELSE IF Sent(c, field) THEN c[field]
                            ELSE IF r.deposit = type THEN r[field] ELSE None
    IN [deposit |-> type, amount |-> Keep("FIXED", "amount"), percent |-> Keep("PERCENT", "percent")]

ValidDeposit(d) ==
    \/ d.deposit = "NONE" /\ d.amount = None /\ d.percent = None
    \/ d.deposit = "FIXED" /\ d.amount > 0
    \/ d.deposit = "PERCENT" /\ d.percent \in 1 .. 100

\* What an edit writes, worked out from the row its request has read.
Written(c, r) ==
    LET priced == Over(Priced(c, r), c) IN IF TouchesDeposit(c) THEN Over(Deposited(c, r), priced) ELSE priced

-----------------------------------------------------------------------------
(* The studio's side.                                                      *)

CreateService(s, d) ==
    /\ s \notin DOMAIN rows /\ ValidDuration(d) /\ ValidDeposit(Deposited(d, d))
    /\ rows' = [t \in DOMAIN rows \cup {s} |-> IF t = s THEN Over(Deposited(d, d), Over(Priced(d, d), d)) ELSE rows[t]]
    /\ UNCHANGED <<change, editor, artist, square, mapped, hours, settings, reading, booked>>

ReadService(e, s) ==
    /\ editor[e].pc = "idle" /\ s \in DOMAIN rows
    /\ editor' = [editor EXCEPT ![e] =
         [pc |-> IF /\ ValidDuration(Over(change[e], rows[s]))
                    /\ TouchesDeposit(change[e]) => ValidDeposit(Deposited(change[e], rows[s]))
                 THEN "save" ELSE "refused",
          on |-> s, read |-> rows[s]]]
    /\ UNCHANGED <<rows, change, artist, square, mapped, hours, settings, reading, booked>>

SaveService(e) ==
    /\ editor[e].pc = "save"
    /\ rows' = [rows EXCEPT ![editor[e].on] = Over(Written(change[e], editor[e].read), @)]
    /\ editor' = [editor EXCEPT ![e].pc = "done"]
    /\ UNCHANGED <<change, artist, square, mapped, hours, settings, reading, booked>>

\* Settings change one at a time.
Setting == settings < SettingLimit /\ settings' = settings + 1

SetArtist(booking, receptionist) ==
    /\ Setting /\ artist' = [artist EXCEPT !.booking = booking, !.receptionist = receptionist]
    /\ UNCHANGED <<rows, change, editor, square, mapped, hours, reading, booked>>

SetVenmo(on) ==
    /\ Setting /\ artist' = [artist EXCEPT !.venmo = on]
    /\ UNCHANGED <<rows, change, editor, square, mapped, hours, reading, booked>>

\* Bookable hours belong to the native calendar only.
SetHours(on) ==
    /\ Setting /\ square.status # "CONNECTED" /\ hours' = on
    /\ UNCHANGED <<rows, change, editor, artist, square, mapped, reading, booked>>

ConnectSquare ==
    /\ Setting /\ square.status # "CONNECTED" /\ square' = [square EXCEPT !.status = "CONNECTED"]
    /\ UNCHANGED <<rows, change, editor, artist, mapped, hours, reading, booked>>

SetPlace(p) ==
    /\ Setting /\ square.status = "CONNECTED" /\ square' = [square EXCEPT !.place = p]
    /\ UNCHANGED <<rows, change, editor, artist, mapped, hours, reading, booked>>

DisconnectSquare ==
    /\ Setting /\ square.status # "none" /\ square' = [status |-> "DISCONNECTED", place |-> "none"]
    /\ UNCHANGED <<rows, change, editor, artist, mapped, hours, reading, booked>>

MapService(s) ==
    /\ Setting /\ square.status = "CONNECTED" /\ square.place # "none"
    /\ s \in DOMAIN rows /\ rows[s].active
    /\ mapped' = mapped \cup {<<s, square.place>>}
    /\ UNCHANGED <<rows, change, editor, artist, square, hours, reading, booked>>

UnmapService(s, p) ==
    /\ Setting /\ square.status = "CONNECTED" /\ mapped' = mapped \ {<<s, p>>}
    /\ UNCHANGED <<rows, change, editor, artist, square, hours, reading, booked>>

-----------------------------------------------------------------------------
(* What the readiness page says.                                           *)

UsableService(r) ==
    /\ r.active /\ r.duration > 0
    /\ \/ r.pricing = "QUOTE"
       \/ r.pricing = "FLAT" /\ r.base >= 0
       \/ r.pricing = "HOURLY" /\ r.hourly >= 0

Counted == {s \in DOMAIN rows : artist.receptionist /\ UsableService(rows[s])}

HasDeposit(r) == r.active /\ \/ r.deposit = "FIXED" /\ r.amount > 0
                             \/ r.deposit = "PERCENT" /\ r.percent \in 1 .. 100

MappedHere(s) == <<s, square.place>> \in mapped

BookingRequired == artist.booking /\ Counted # {}

BookingReady ==
    IF square.status \in {"none", "DISCONNECTED"} THEN hours
    ELSE square.place # "none" /\ \A s \in Counted : MappedHere(s)

PaymentsReady ==
    \A s \in {t \in Counted : HasDeposit(rows[t])} :
        CASE rows[s].pays = "SQUARE" -> square.status = "CONNECTED" /\ square.place # "none"
          [] rows[s].pays = "STRIPE" -> StripeKeys
          [] rows[s].pays = "VENMO_MANUAL" -> artist.venmo

-----------------------------------------------------------------------------
(* What the receptionist's tools do.                                       *)

\* Faulty variant: only a quoted service needs the artist.
QuotedOnly(r) == r.pricing = "QUOTE" /\ r.approval

NeedsQuote(r) == r.duration <= 0 \/ (r.pricing = "QUOTE" /\ r.approval)

\* The answer of a search for times of an active service.
Lookup(s) ==
    IF NeedsQuote(rows[s]) THEN "ARTIST_QUOTE_REQUIRED"
    ELSE IF square.status \in {"none", "DISCONNECTED"} THEN IF hours THEN "SEARCHED" ELSE "NO_HOURS"
    ELSE IF square.place = "none" THEN "NOT_CONFIGURED"
    ELSE IF <<s, square.place>> \in mapped THEN "SEARCHED" ELSE "SERVICE_NOT_MAPPED"

\* What the client is asked to pay before an appointment is firm.
DepositFor(r) ==
    IF r.deposit = "FIXED" /\ r.amount > 0 THEN r.amount
    ELSE IF r.deposit = "PERCENT" /\ r.base > 0 /\ r.percent \in 1 .. 100
         THEN (r.base * r.percent + 50) \div 100
    ELSE 0

CanCollect(pays) ==
    CASE pays = "SQUARE" -> square.status = "CONNECTED" /\ square.place # "none"
      [] pays = "STRIPE" -> StripeKeys
      [] pays = "VENMO_MANUAL" -> artist.venmo

ReadForBooking(s) ==
    /\ reading.row = NoRow /\ s \in DOMAIN rows /\ rows[s].active
    /\ ~rows[s].tattoo /\ ~NeedsQuote(rows[s])
    /\ reading' = [of |-> s, row |-> rows[s]]
    /\ UNCHANGED <<rows, change, editor, artist, square, mapped, hours, settings, booked>>

\* Times are searched again, for the row as it is by now; the appointment
\* carries the duration and the deposit of the row read before.
Book ==
    /\ reading.row # NoRow /\ booked' \in {booked,
         {[of |-> reading.of, duration |-> reading.row.duration,
                       deposit |-> DepositFor(reading.row), pays |-> reading.row.pays]}}
    /\ booked' # booked => Lookup(reading.of) = "SEARCHED"
    /\ reading' = [reading EXCEPT !.row = NoRow]
    /\ UNCHANGED <<rows, change, editor, artist, square, mapped, hours, settings>>

CatalogNext ==
    \/ \E s \in Offered, d \in Drafts : CreateService(s, d)
    \/ \E e \in Editors, s \in Offered : ReadService(e, s)
    \/ \E e \in Editors : SaveService(e)
    \/ \E booking, receptionist \in BOOLEAN : SetArtist(booking, receptionist)
    \/ \E on \in BOOLEAN : SetVenmo(on) \/ SetHours(on)
    \/ ConnectSquare \/ DisconnectSquare
    \/ \E p \in Places : SetPlace(p)
    \/ \E s \in Offered : MapService(s) \/ \E p \in Places : UnmapService(s, p)
    \/ \E s \in Offered : ReadForBooking(s)
    \/ Book

CatalogSpec == CatalogInit /\ [][CatalogNext]_catalogVars

-----------------------------------------------------------------------------
CatalogTypeOK ==
    /\ DOMAIN rows \subseteq Offered
    /\ \A s \in DOMAIN rows : RowFits(rows[s])
    /\ \A e \in Editors : /\ editor[e].pc \in {"idle", "save", "refused", "done"}
                          /\ editor[e].pc = "save" => editor[e].on \in DOMAIN rows
    /\ artist \in [booking : BOOLEAN, receptionist : BOOLEAN, venmo : BOOLEAN]
    /\ hours \in BOOLEAN /\ settings \in 0 .. SettingLimit
    /\ square \in [status : {"none", "CONNECTED", "DISCONNECTED"}, place : Places \cup {"none"}]
    /\ mapped \subseteq Offered \X Places
    /\ \A b \in booked : b.of \in Offered /\ b.duration >= 0 /\ b.deposit >= 0

\* When the readiness page says clients can book, a search for times of any
\* service it counted reaches a calendar or asks for the artist's quote; when
\* it says deposits can be paid, a payment link can be had for any of them.
ReadinessHolds ==
    /\ BookingRequired /\ BookingReady =>
         \A s \in Counted : Lookup(s) \in {"SEARCHED", "ARTIST_QUOTE_REQUIRED"}
    /\ PaymentsReady => \A s \in Counted : DepositFor(rows[s]) > 0 => CanCollect(rows[s].pays)

\* Whatever edits cross on one row, no appointment of no length is booked: a
\* duration of zero stands for an inquiry and is never a bookable duration.
NothingOfNoLength == \A b \in booked : b.duration > 0

\* What the run checks of services: readiness is true, every booking has a length.
CatalogSafe == CatalogTypeOK /\ ReadinessHolds /\ NothingOfNoLength
=============================================================================
