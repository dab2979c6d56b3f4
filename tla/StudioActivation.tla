-------------------------- MODULE StudioActivation -------------------------
(***************************************************************************)
(* The activation page of one artist: staff choose how the studio gets its *)
(* number, record that texts and calls were tested, activate and pause.    *)
(*                                                                         *)
(* Every request writes one row, then its log entry, then reads the page   *)
(* again; an activation also reads the page before it writes, and the page *)
(* is read by separate queries while others write.  Around the requests    *)
(* the carriers decide on the number, the number changes when a port       *)
(* completes, and texts that pass over the number count as tests.          *)
(***************************************************************************)
EXTENDS Integers, Sequences, FiniteSets

CONSTANTS
    Staff,          \* the requests
    Commands,       \* what they ask for: sets of [Staff -> [does, arg]]
    FirstPhones,    \* the primary numbers the artist may begin with, and
    FirstTexts,     \* the texts that have passed over them
    CarrierStates,  \* registration states of a number that are told apart
    OutsideLimit    \* bound: changes around the requests

VARIABLES
    command,        \* what each request asks for
    activation,     \* studio_activations: [strategy, marked, status]
    phone,          \* the primary number: [id, state], id 0 if none
    texts,          \* which tests texts over which number count as: <<id, test>>
    prepared,       \* profile, legal pages and consent form are all ready
    outside,        \* changes around the requests so far
    reader,         \* each request: [pc, left, view]
    trail,          \* ghost: the commands stored, in order
    journal         \* studio_activation_events: the requests that logged one

activationVars == <<command, activation, phone, texts, prepared, outside, reader, trail, journal>>

SmsTests == {"INBOUND_SMS", "OUTBOUND_SMS"}

Queries == {"saved", "number", "detected"}

Strategies == {"TEMPORARY", "PORT_EXISTING"}
Tests == SmsTests \cup {"VOICE"}

\* What a request may ask for.
Asked(c) ==
    /\ c.does \in {"strategy", "test", "activate", "pause", "view"}
    /\ c.does = "strategy" => c.arg \in Strategies
    /\ c.does = "test" => c.arg \in Tests

ASSUME ActivationBounds ==
    /\ IsFiniteSet(Staff) /\ OutsideLimit \in Nat
    /\ \A asked \in Commands, h \in Staff : Asked(asked[h])
    /\ \A p \in FirstPhones : p.id \in Nat /\ p = [id |-> p.id, state |-> p.state]
    /\ FirstTexts \subseteq SUBSET (Nat \X SmsTests)

NoView == [strategy |-> "TEMPORARY", marked |-> {}, status |-> "IN_PROGRESS", upTo |-> 0,
           id |-> 0, state |-> "none", prepared |-> FALSE, detected |-> {}]

ActivationInit ==
    /\ command \in Commands /\ prepared \in BOOLEAN
    /\ activation = [strategy |-> "TEMPORARY", marked |-> {}, status |-> "IN_PROGRESS"]
    /\ phone \in FirstPhones /\ texts \in FirstTexts /\ outside = 0
    /\ reader = [h \in Staff |-> [pc |-> "new", left |-> {}, view |-> NoView]]
    /\ trail = << >> /\ journal = {}

-----------------------------------------------------------------------------
(* The plan.                                                               *)

RegistrationStatus(state) ==
    CASE state \in {"APPROVED", "MOCK_APPROVED"} -> "APPROVED"
      [] state \in {"BRAND_PENDING", "CAMPAIGN_PENDING", "MOCK_PENDING"} -> "PENDING_APPROVAL"
      [] state \in {"REJECTED", "CAMPAIGN_REJECTED", "FAILED"} -> "ACTION_REQUIRED"
      [] OTHER -> "NOT_STARTED"

RequiredTests(strategy) == SmsTests \cup (IF strategy = "PORT_EXISTING" THEN {"VOICE"} ELSE {})

ReadyToActivate(view) ==
    /\ view.prepared /\ view.id # 0 /\ RegistrationStatus(view.state) = "APPROVED"
    /\ RequiredTests(view.strategy) \subseteq view.marked \cup view.detected

ShownStatus(view) ==
    IF view.status = "LIVE" /\ ~ReadyToActivate(view) THEN "ACTION_REQUIRED" ELSE view.status

-----------------------------------------------------------------------------
(* Reading the page: its queries are answered one by one, in any order.    *)

Loading(pc) == pc \in {"check", "load"}

Query(h, q) ==
    /\ Loading(reader[h].pc) /\ q \in reader[h].left
    /\ reader' = [reader EXCEPT ![h].left = @ \ {q}, ![h].view =
         CASE q = "saved" -> [@ EXCEPT !.strategy = activation.strategy, !.marked = activation.marked,
                                       !.status = activation.status, !.upTo = Len(trail)]
           [] q = "number" -> [@ EXCEPT !.id = phone.id, !.state = phone.state, !.prepared = prepared]
           [] q = "detected" -> [@ EXCEPT !.detected = {t \in SmsTests : <<phone.id, t>> \in texts}]]
    /\ UNCHANGED <<command, activation, phone, texts, prepared, outside, trail, journal>>

Goto(h, pc) == reader' = [reader EXCEPT ![h].pc = pc, ![h].left = IF Loading(pc) THEN Queries ELSE {}]

Start(h) ==
    /\ reader[h].pc = "new"
    /\ Goto(h, CASE command[h].does = "activate" -> "check" [] command[h].does = "view" -> "load" [] OTHER -> "write")
    /\ UNCHANGED <<command, activation, phone, texts, prepared, outside, trail, journal>>

Checked(h) ==
    /\ reader[h].pc = "check" /\ reader[h].left = {}
    /\ Goto(h, IF ReadyToActivate(reader[h].view) THEN "write" ELSE "refused")
    /\ UNCHANGED <<command, activation, phone, texts, prepared, outside, trail, journal>>

Shown(h) ==
    /\ reader[h].pc = "load" /\ reader[h].left = {} /\ Goto(h, "shown")
    /\ UNCHANGED <<command, activation, phone, texts, prepared, outside, trail, journal>>

-----------------------------------------------------------------------------
(* The commands.                                                           *)

\* Faulty variant: choosing a strategy leaves what was tested and decided.
StrategyKept(strategy) == [activation EXCEPT !.strategy = strategy]

\* A new strategy starts over: its tests and its activation are to come.
StrategyChosen(strategy) == [strategy |-> strategy, marked |-> {}, status |-> "IN_PROGRESS"]

WriteCommand(h) ==
    /\ reader[h].pc = "write"
    /\ activation' =
         CASE command[h].does = "strategy" -> StrategyChosen(command[h].arg)
           [] command[h].does = "test" -> [activation EXCEPT !.marked = @ \cup {command[h].arg}]
           [] command[h].does = "activate" -> [activation EXCEPT !.status = "LIVE"]
           [] command[h].does = "pause" -> [activation EXCEPT !.status = "PAUSED"]
    /\ trail' = Append(trail, command[h]) /\ Goto(h, "log")
    /\ UNCHANGED <<command, phone, texts, prepared, outside, journal>>

WriteEvent(h) ==
    /\ reader[h].pc = "log" /\ journal' = journal \cup {h} /\ Goto(h, "load")
    /\ UNCHANGED <<command, activation, phone, texts, prepared, outside, trail>>

-----------------------------------------------------------------------------
(* Around them.                                                            *)

Outside == outside < OutsideLimit /\ outside' = outside + 1

Prepare ==
    /\ Outside /\ prepared' = ~prepared
    /\ UNCHANGED <<command, activation, phone, texts, reader, trail, journal>>

NumberAssigned ==
    /\ Outside /\ phone' = [id |-> phone.id + 1, state |-> "none"]
    /\ UNCHANGED <<command, activation, texts, prepared, reader, trail, journal>>

NumberDecided(state) ==
    /\ Outside /\ phone.id # 0 /\ phone' = [phone EXCEPT !.state = state]
    /\ UNCHANGED <<command, activation, texts, prepared, reader, trail, journal>>

TextPasses(test) ==
    /\ Outside /\ phone.id # 0 /\ texts' = texts \cup {<<phone.id, test>>}
    /\ UNCHANGED <<command, activation, phone, prepared, reader, trail, journal>>

ActivationNext ==
    \/ \E h \in Staff : \/ Start(h) \/ Checked(h) \/ WriteCommand(h) \/ WriteEvent(h) \/ Shown(h)
                        \/ \E q \in Queries : Query(h, q)
    \/ Prepare \/ NumberAssigned
    \/ \E s \in CarrierStates : NumberDecided(s)
    \/ \E t \in SmsTests : TextPasses(t)

ActivationSpec == ActivationInit /\ [][ActivationNext]_activationVars

-----------------------------------------------------------------------------
ActivationTypeOK ==
    /\ activation.strategy \in Strategies
    /\ activation.marked \subseteq Tests
    /\ activation.status \in {"IN_PROGRESS", "LIVE", "PAUSED"}
    /\ phone.id \in Nat /\ texts \subseteq Nat \X SmsTests
    /\ outside \in 0 .. OutsideLimit /\ prepared \in BOOLEAN
    /\ \A h \in Staff : /\ reader[h].pc \in {"new", "check", "refused", "write", "log", "load", "shown"}
                        /\ reader[h].left \subseteq Queries
    /\ Len(trail) <= Cardinality(Staff) /\ journal \subseteq Staff

\* The place of the latest of these commands among the first n stored.
LatestOf(does, n) ==
    LET at == {i \in 1 .. n : trail[i].does \in does}
    IN IF at = {} THEN 0 ELSE CHOOSE i \in at : \A j \in at : j <= i

\* A studio shown as live was activated after the latest pause and after the
\* latest change of its number strategy, and when it ports its own number the
\* call was tested after that change too: no activation, no test is carried
\* over, however the requests cross.
NothingCarriedOver ==
    \A h \in Staff : LET view == reader[h].view IN
        reader[h].pc = "shown" /\ ShownStatus(view) = "LIVE" =>
            /\ LatestOf({"strategy", "pause"}, view.upTo) < LatestOf({"activate"}, view.upTo)
            /\ view.strategy = "PORT_EXISTING" =>
                 \E i \in LatestOf({"strategy"}, view.upTo) + 1 .. view.upTo : trail[i].arg = "VOICE"

\* What the run checks of activation: nothing is carried over.
ActivationSafe == ActivationTypeOK /\ NothingCarriedOver
=============================================================================
