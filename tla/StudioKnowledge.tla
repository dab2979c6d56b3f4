-------------------------- MODULE StudioKnowledge --------------------------
(***************************************************************************)
(* What the receptionist may say of a studio: rules and frequent questions *)
(* that staff save on the settings page, statements of earlier answers     *)
(* that staff approve, how they are read for a client, and which aftercare *)
(* text fits an appointment.                                               *)
(*                                                                         *)
(* A save is one read-committed transaction that first updates the         *)
(* studio's profile, then edits or inserts rows in the order the page sent *)
(* them, then the artist.  A review is one that first locks the artist.    *)
(* An updated row stays locked until the end; inserting a rule keeps a     *)
(* share of its artist's row, which only the exclusive lock waits for.     *)
(* The receptionist reads the tables at once, each when its turn comes.    *)
(* Aftercare texts are saved and read as frequent questions are.  What the *)
(* profile and the artist's row hold, the search for words and the limits  *)
(* on the number of rows told are left out.                                *)
(***************************************************************************)
EXTENDS Integers, Sequences, FiniteSets

CONSTANTS
    Edits,       \* the transactions
    EditKinds,   \* what they do: functions from Edits to tasks
    FirstRows,   \* the rows the studio may begin with: sequences of rows
    Places       \* the studio's locations

VARIABLES
    edits,     \* what each transaction does
    facts,     \* the rows: [kind, text, shown, at, active, by], by their identifiers
    reviews,   \* the recorded reviews: [source, by]
    held,      \* who holds the profile, the artist and each row exclusively
    share,     \* who keeps a share of the artist's row
    txn,       \* each transaction: [pc, at, put, add]
    places,    \* the active locations
    reading    \* the receptionist: [pc, named, copy, told], and [seen], all shown meanwhile

knowledgeVars == <<edits, facts, reviews, held, share, txn, places, reading>>

NoEdit == 0
Everywhere == "everywhere"
RowIds == 1 .. 3

\* Rules are the studio's; questions are for clients.  What a page saves, and what
\* a review decides.
FactRows == {r \in [kind : {"rule", "faq"}, text : STRING, shown : BOOLEAN, at : Places \cup {Everywhere},
                    active : BOOLEAN, by : Edits \cup {NoEdit}] :
               (r.kind = "rule" => r.at = Everywhere) /\ (r.kind = "faq" => r.shown = TRUE)}
FactOf(item, t) == [kind |-> item.kind, text |-> item.text, shown |-> item.shown, at |-> item.at,
                    active |-> item.active, by |-> t]
Saved(task) == /\ task.does = "save" /\ task.artist \in BOOLEAN
               /\ task.rows = [i \in 1 .. Len(task.rows) |-> task.rows[i]] /\ Len(task.rows) \in Nat
               /\ \A i \in 1 .. Len(task.rows) :
                     task.rows[i].id \in RowIds \cup {0} /\ FactOf(task.rows[i], NoEdit) \in FactRows
Reviewed(task) == task.does = "review" /\ task.approve \in BOOLEAN /\ task.text \in STRING

ASSUME KnowledgeBounds ==
    /\ NoEdit \notin Edits /\ Everywhere \notin Places /\ IsFiniteSet(Places)
    /\ \A kinds \in EditKinds : \A t \in Edits : Saved(kinds[t]) \/ Reviewed(kinds[t])
    /\ \A rows \in FirstRows : rows \in Seq(FactRows) /\ \A i \in DOMAIN rows : rows[i].by = NoEdit

Locks == {<<"profile", 0>>, <<"artist", 0>>} \cup {<<"row", i>> : i \in RowIds}

IdleTx == [pc |-> "new", at |-> 1, put |-> << >>, add |-> << >>]
NotReading == [pc |-> "idle", named |-> {}, copy |-> << >>, told |-> {}, seen |-> {}]

KnowledgeInit ==
    /\ edits \in EditKinds /\ facts \in FirstRows /\ reviews = {}
    /\ held = [x \in Locks |-> NoEdit] /\ share = {}
    /\ txn = [t \in Edits |-> IdleTx]
    /\ places = Places /\ reading = NotReading

ForClients(all) == {r \in {all[i] : i \in DOMAIN all} : r.active /\ r.shown}

-----------------------------------------------------------------------------
Task(t) == edits[t]
Item(t) == Task(t).rows[txn[t].at]

\* What the next statement of a transaction locks, if anything.
Needs(t) ==
    CASE txn[t].pc = "profile" -> {<<"profile", 0>>}
      [] txn[t].pc = "rows" -> IF Item(t).id # 0 THEN {<<"row", Item(t).id>>} ELSE {}
      [] txn[t].pc \in {"artist", "review"} -> {<<"artist", 0>>}
      [] OTHER -> {}

\* Inserting a rule only asks that nobody holds its artist exclusively.
Shares(t) == txn[t].pc = "rows" /\ Item(t).id = 0 /\ Item(t).kind = "rule"

\* The transactions that the next statement waits for.
WaitsFor(t) ==
    ({held[x] : x \in Needs(t)} \cup (IF Shares(t) THEN {held[<<"artist", 0>>]} ELSE {})
     \cup (IF <<"artist", 0>> \in Needs(t) THEN share ELSE {})) \ {NoEdit, t}

Take(t) ==
    /\ WaitsFor(t) = {}
    /\ held' = [x \in Locks |-> IF x \in Needs(t) THEN t ELSE held[x]]
    /\ share' = share \cup (IF Shares(t) THEN {t} ELSE {})

Release(t) ==
    /\ held' = [x \in Locks |-> IF held[x] = t THEN NoEdit ELSE held[x]]
    /\ share' = share \ {t}

\* Faulty variant: a save does not begin with the profile.
FirstStepNoProfile(t) == IF Task(t).does = "save" THEN "rows" ELSE "review"

FirstStep(t) == IF Task(t).does = "save" THEN "profile" ELSE "review"

\* Where a save stands once its next row is the given one.
RowsFrom(t, i) ==
    IF i <= Len(Task(t).rows) THEN "rows" ELSE IF Task(t).artist THEN "artist" ELSE "commit"

BeginEdit(t) ==
    /\ txn[t].pc = "new" /\ txn' = [txn EXCEPT ![t].pc = FirstStep(t)]
    /\ UNCHANGED <<edits, facts, reviews, held, share, places, reading>>

UpdateProfile(t) ==
    /\ txn[t].pc = "profile" /\ Take(t)
    /\ txn' = [txn EXCEPT ![t].pc = RowsFrom(t, 1)]
    /\ UNCHANGED <<edits, facts, reviews, places, reading>>

SaveRow(t) ==
    LET item == Item(t)
        put == [i \in DOMAIN txn[t].put \cup {item.id} |-> IF i = item.id THEN FactOf(item, t) ELSE txn[t].put[i]]
    IN /\ txn[t].pc = "rows" /\ Take(t)
       /\ txn' = [txn EXCEPT ![t].pc = RowsFrom(t, txn[t].at + 1), ![t].at = @ + 1,
                           ![t].put = IF item.id # 0 THEN put ELSE @,
                           ![t].add = IF item.id = 0 THEN Append(@, FactOf(item, t)) ELSE @]
       /\ UNCHANGED <<edits, facts, reviews, places, reading>>

SaveArtist(t) ==
    /\ txn[t].pc = "artist" /\ Take(t)
    /\ txn' = [txn EXCEPT ![t].pc = "commit"]
    /\ UNCHANGED <<edits, facts, reviews, places, reading>>

-----------------------------------------------------------------------------
LockArtist(t) ==
    /\ txn[t].pc = "review" /\ Take(t)
    /\ txn' = [txn EXCEPT ![t].pc = "prior"]
    /\ UNCHANGED <<edits, facts, reviews, places, reading>>

\* A source that was reviewed before is left as it is.
CheckPrior(t) ==
    /\ txn[t].pc = "prior"
    /\ txn' = [txn EXCEPT ![t].pc = IF \E r \in reviews : r.source = Task(t).source THEN "undo"
                                  ELSE IF Task(t).approve THEN "same" ELSE "commit"]
    /\ UNCHANGED <<edits, facts, reviews, held, share, places, reading>>

\* An approved statement becomes a rule unless clients are told it already.
AddRule(t) ==
    /\ txn[t].pc = "same"
    /\ LET known == \E r \in ForClients(facts) : r.kind = "rule" /\ r.text = Task(t).text
           rule == [kind |-> "rule", text |-> Task(t).text, shown |-> TRUE, at |-> Everywhere,
                    active |-> TRUE, by |-> t]
       IN txn' = [txn EXCEPT ![t].pc = "commit", ![t].add = IF known THEN << >> ELSE <<rule>>]
    /\ UNCHANGED <<edits, facts, reviews, held, share, places, reading>>

CommitEdit(t) ==
    /\ txn[t].pc = "commit" /\ Release(t)
    /\ facts' = [i \in DOMAIN facts |-> IF i \in DOMAIN txn[t].put THEN txn[t].put[i] ELSE facts[i]] \o txn[t].add
    /\ reviews' = reviews \cup (IF Task(t).does = "save" THEN {} ELSE {[source |-> Task(t).source, by |-> t]})
    /\ txn' = [txn EXCEPT ![t] = [IdleTx EXCEPT !.pc = "done"]]
    /\ reading' = [reading EXCEPT !.seen = IF reading.pc = "reading" THEN @ \cup ForClients(facts') ELSE @]
    /\ UNCHANGED <<edits, places>>

\* A statement fails, or the process stops; a source reviewed before.
RollBack(t) ==
    /\ txn[t].pc \notin {"new", "done"} /\ Release(t)
    /\ txn' = [txn EXCEPT ![t] = [IdleTx EXCEPT !.pc = "done"]]
    /\ UNCHANGED <<edits, facts, reviews, places, reading>>

-----------------------------------------------------------------------------
\* The places that the client's words fit; {Everywhere} if none is named.
StartReading ==
    /\ reading.pc = "idle"
    /\ \E named \in (SUBSET Places) \cup {{Everywhere}} :
         reading' = [NotReading EXCEPT !.pc = "reading", !.named = named, !.seen = ForClients(facts)]
    /\ UNCHANGED <<edits, facts, reviews, held, share, txn, places>>

\* Rules, questions and locations are read in any order, the active ones only.
ReadTable(table) ==
    LET found == IF table = "places" THEN places
                 ELSE {r \in {facts[i] : i \in DOMAIN facts} : r.active /\ r.kind = table}
    IN /\ reading.pc = "reading" /\ table \notin DOMAIN reading.copy
       /\ reading' = [reading EXCEPT !.copy = [x \in DOMAIN @ \cup {table} |-> IF x = table THEN found ELSE @[x]]]
       /\ UNCHANGED <<edits, facts, reviews, held, share, txn, places>>

\* Of the active locations one is the primary.
Primary(open) == IF open = {} THEN {} ELSE {CHOOSE p \in open : TRUE}

\* Faulty variant: of several places that fit, one is taken.
TheirPlaceGuessed(named, open) ==
    IF named = {Everywhere} THEN Primary(open)
    ELSE IF named \cap open = {} THEN {} ELSE {CHOOSE p \in named \cap open : TRUE}

\* The place the client is told of: the only one that fits, or else none; the
\* primary one if none is named.
TheirPlace(named, open) ==
    IF named = {Everywhere} THEN Primary(open)
    ELSE IF Cardinality(named \cap open) = 1 THEN named \cap open ELSE {}

Project ==
    /\ reading.pc = "reading" /\ DOMAIN reading.copy = {"rule", "faq", "places"}
    /\ LET here == TheirPlace(reading.named, reading.copy["places"])
       IN reading' = [reading EXCEPT !.pc = "told",
            !.told = {r \in reading.copy["rule"] : r.shown}
                     \cup {r \in reading.copy["faq"] : r.at \in here \cup {Everywhere}}]
    /\ UNCHANGED <<edits, facts, reviews, held, share, txn, places>>

\* Staff close a location.
ClosePlace ==
    /\ places = Places /\ reading.pc = "reading"
    /\ \E p \in places : places' = places \ {p}
    /\ UNCHANGED <<edits, facts, reviews, held, share, txn, reading>>

Edit(t) ==
    \/ BeginEdit(t) \/ UpdateProfile(t) \/ SaveRow(t) \/ SaveArtist(t)
    \/ LockArtist(t) \/ CheckPrior(t) \/ AddRule(t) \/ CommitEdit(t) \/ RollBack(t)

Tell == StartReading \/ (\E x \in {"rule", "faq", "places"} : ReadTable(x)) \/ Project \/ ClosePlace

KnowledgeNext == (\E t \in Edits : Edit(t)) \/ Tell

KnowledgeSpec == KnowledgeInit /\ [][KnowledgeNext]_knowledgeVars

-----------------------------------------------------------------------------
\* An aftercare text that fits an appointment is for its place, service or
\* category alone or for all of them, and has an order; the best score is taken.
AftercareTexts == [place : BOOLEAN, service : BOOLEAN, category : BOOLEAN, order : {-10000, -1, 0, 10000}]

Points(flag, points) == IF flag THEN 1000 * points ELSE 0

Score(a) == Points(a.place, 80) + Points(a.service, 40) + Points(a.category, 20) - a.order

MoreSpecific(a, b) ==
    \/ a.place /\ ~b.place
    \/ a.place = b.place /\ a.service /\ ~b.service
    \/ a.place = b.place /\ a.service = b.service /\ a.category /\ ~b.category

-----------------------------------------------------------------------------
KnowledgeTyped ==
    /\ edits \in EditKinds /\ places \subseteq Places
    /\ held \in [Locks -> Edits \cup {NoEdit}] /\ share \subseteq Edits
    /\ \A t \in Edits : txn[t].pc \in {"new", "profile", "rows", "artist", "review", "prior", "same", "undo",
                                      "commit", "done"}

ByApproval(i) == facts[i].by \in Edits /\ edits[facts[i].by].does = "review"

\* No source is reviewed twice, and of the rules that approvals added and
\* nobody edited since no two say the same.
ReviewedOnce ==
    /\ \A r, s \in reviews : r.source = s.source => r = s
    /\ \A i, j \in DOMAIN facts : ByApproval(i) /\ ByApproval(j) /\ facts[i].text = facts[j].text => i = j

\* No transactions wait for each other, whatever rows the pages sent in
\* whatever order: the database never has to abort one of them.
NeverStuck ==
    \A stuck \in SUBSET Edits : (\A t \in stuck : WaitsFor(t) \cap stuck # {}) => stuck = {}

\* What a client is told was in force and meant for clients at some moment since
\* the reading began, and is of one place, which the client may have meant.
ToldWasShown ==
    reading.pc = "told" =>
      /\ reading.told \subseteq reading.seen
      /\ LET own == {r.at : r \in reading.told} \ {Everywhere}
             fits == reading.named \cap reading.copy["places"]
         IN Cardinality(own) <= 1 /\ (own # {} /\ reading.named # {Everywhere} => own = fits)

\* A text for the appointment's place goes before any other, then one for its
\* service, then one for its category, whatever order staff gave them; only
\* orders 20000 apart can make a text as good as a more specific one.
AftercareSpecific ==
    \A a, b \in AftercareTexts : MoreSpecific(a, b) =>
      \/ Score(a) > Score(b)
      \/ Score(a) = Score(b) /\ a.order - b.order = 20000

\* What clients are told of the studio is right.  A rule told twice, two settings
\* pages that block each other, and an internal or withdrawn statement told to a
\* client are what this rules out.
KnowledgeSafe == KnowledgeTyped /\ ReviewedOnce /\ NeverStuck /\ ToldWasShown /\ AftercareSpecific
=============================================================================
