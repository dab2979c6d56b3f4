-------------------------- MODULE StudioLocations --------------------------
(***************************************************************************)
(* The studio's locations and their business hours, edited by staff whose  *)
(* requests overlap, and the receptionist who tells clients about them.    *)
(*                                                                         *)
(* A save is one database transaction that reads the other locations,      *)
(* demotes them if it makes its own the primary one, updates its row,      *)
(* replaces its hours and may hand the primary role to another location.   *)
(* The database is read-committed: a statement sees what is committed when *)
(* it starts, an updated row stays locked until the transaction ends, and  *)
(* a partial unique index admits one primary location.  Addresses, names   *)
(* and time zones are left out: a row is known by the save that wrote it.  *)
(***************************************************************************)
EXTENDS Integers, Sequences

CONSTANTS
    Locations,     \* every location there may be
    LocationRows,  \* the locations the studio may begin with: [location -> row]
    Saves,         \* the requests, numbered from 1
    SaveKinds      \* what they ask for: sets of [Saves -> [does, on, active, primary]]

VARIABLES
    locations,     \* studio_locations: [active, primary, by] of each that exists
    openings,      \* studio_business_hours: for each location, the saves whose rows exist
    lock,          \* the transaction holding each row's lock, 0 if none
    save,          \* what each request asks for
    tx,            \* each request: [pc, was, other, make, put, cut]
    guide,         \* what the receptionist reads: [pc, at, by, hours]
    history        \* ghost: the committed saves of each location, in order

locationVars == <<locations, openings, lock, save, tx, guide, history>>

Nowhere == "nowhere"

\* Rows are studio_locations' columns; a save or a creation asks for one row.
LocationRow == [active : BOOLEAN, primary : BOOLEAN, by : Saves \cup {0}]
LocationWish == [does : {"save", "create"}, on : Locations, active : BOOLEAN, primary : BOOLEAN]

ASSUME LocationBounds ==
    /\ 0 \notin Saves /\ Nowhere \notin Locations
    /\ \A kinds \in SaveKinds : DOMAIN kinds = Saves /\ \A t \in Saves : kinds[t] \in LocationWish
    /\ \A first \in LocationRows :
         /\ DOMAIN first \subseteq Locations /\ first = [l \in DOMAIN first |-> first[l]]
         /\ \A l \in DOMAIN first : first[l] \in LocationRow /\ first[l].by = 0

NoTx == [pc |-> "new", was |-> FALSE, other |-> Nowhere, make |-> FALSE, put |-> << >>, cut |-> {}]

LocationsInit ==
    /\ locations \in LocationRows
    /\ openings = [l \in Locations |-> IF l \in DOMAIN locations THEN {0} ELSE {}]
    /\ history = [l \in Locations |-> IF l \in DOMAIN locations THEN <<0>> ELSE << >>]
    /\ lock = [l \in Locations |-> 0] /\ save \in SaveKinds
    /\ tx = [t \in Saves |-> NoTx]
    /\ guide = [pc |-> "idle", at |-> Nowhere, by |-> 0, hours |-> {}]

-----------------------------------------------------------------------------
Running(t) == tx[t].pc \in {"demote", "write", "cut", "promote", "commit"}

\* Faulty variant: a transaction never waits for another's row.
NeverWaits(t, rows) == TRUE

\* The rows are not locked by another transaction.
RowsFree(t, rows) == \A l \in rows : lock[l] \in {0, t}

Locked(t, rows) == [l \in Locations |-> IF l \in rows THEN t ELSE lock[l]]

\* The unique index lets l become primary: no other row is, and no other
\* transaction still open may make or leave one so.
OnlyPrimary(t, l) ==
    /\ \A m \in DOMAIN locations \ {l} : locations[m].primary =>
         m \in DOMAIN tx[t].put /\ ~tx[t].put[m].primary
    /\ \A u \in Saves \ {t} : Running(u) => \A m \in DOMAIN tx[u].put : ~tx[u].put[m].primary

\* The rows as the transaction sees them: its own writes over what is committed.
Over(put, old) == [l \in DOMAIN put \cup DOMAIN old |-> IF l \in DOMAIN put THEN put[l] ELSE old[l]]
Seen(t, l) == Over(tx[t].put, locations)[l]
With(t, l, r) == Over([m \in {l} |-> r], tx[t].put)

Refuse(t) ==
    /\ tx[t].pc = "new"
    /\ \/ save[t].primary /\ ~save[t].active
       \/ save[t].does = "save" /\ save[t].on \notin DOMAIN locations
    /\ tx' = [tx EXCEPT ![t].pc = "refused"]
    /\ UNCHANGED <<locations, openings, lock, save, guide, history>>

\* Whether the location is primary is read before the transaction begins.
ReadCurrent(t) ==
    /\ tx[t].pc = "new" /\ save[t].does = "save" /\ save[t].on \in DOMAIN locations
    /\ ~(save[t].primary /\ ~save[t].active)
    /\ tx' = [tx EXCEPT ![t].pc = "begin", ![t].was = locations[save[t].on].primary]
    /\ UNCHANGED <<locations, openings, lock, save, guide, history>>

OtherActive(l) == {m \in DOMAIN locations \ {l} : locations[m].active}

MakePrimary(t, other) ==
    /\ save[t].active
    /\ save[t].primary \/ (other = Nowhere /\ (tx[t].was \/ ~save[t].primary))

BeginSave(t) ==
    /\ tx[t].pc = "begin"
    /\ \E other \in IF OtherActive(save[t].on) = {} THEN {Nowhere} ELSE OtherActive(save[t].on) :
         tx' = [tx EXCEPT ![t].other = other, ![t].make = MakePrimary(t, other),
                          ![t].pc = IF MakePrimary(t, other) THEN "demote" ELSE "write"]
    /\ UNCHANGED <<locations, openings, lock, save, guide, history>>

BeginCreate(t) ==
    /\ tx[t].pc = "new" /\ save[t].does = "create" /\ save[t].on \notin DOMAIN locations
    /\ ~(save[t].primary /\ ~save[t].active)
    /\ LET existing == \E m \in DOMAIN locations : locations[m].primary /\ locations[m].active
           make == save[t].active /\ (save[t].primary \/ ~existing)
       IN tx' = [tx EXCEPT ![t].make = make, ![t].pc = IF make THEN "demote" ELSE "write"]
    /\ UNCHANGED <<locations, openings, lock, save, guide, history>>

Demote(t) ==
    /\ tx[t].pc = "demote" /\ RowsFree(t, DOMAIN locations)
    /\ lock' = Locked(t, DOMAIN locations)
    /\ tx' = [tx EXCEPT ![t].pc = "write",
                        ![t].put = [l \in DOMAIN locations |-> [locations[l] EXCEPT !.primary = FALSE]]]
    /\ UNCHANGED <<locations, openings, save, guide, history>>

\* The row itself: updated, or inserted by a request that creates it.
WriteLocation(t) ==
    /\ tx[t].pc = "write" /\ RowsFree(t, {save[t].on})
    /\ tx[t].make => OnlyPrimary(t, save[t].on)
    /\ lock' = Locked(t, {save[t].on})
    /\ tx' = [tx EXCEPT ![t].pc = "cut",
                        ![t].put = With(t, save[t].on, [active |-> save[t].active, primary |-> tx[t].make, by |-> t])]
    /\ UNCHANGED <<locations, openings, save, guide, history>>

\* The hours committed by now are deleted and the new ones inserted.
ReplaceHours(t) ==
    /\ tx[t].pc = "cut"
    /\ tx' = [tx EXCEPT ![t].cut = openings[save[t].on],
                        ![t].pc = IF tx[t].was /\ ~tx[t].make /\ tx[t].other # Nowhere THEN "promote" ELSE "commit"]
    /\ UNCHANGED <<locations, openings, lock, save, guide, history>>

\* The other location found at the beginning becomes primary, as it is by now.
Promote(t) ==
    /\ tx[t].pc = "promote" /\ RowsFree(t, {tx[t].other}) /\ OnlyPrimary(t, tx[t].other)
    /\ lock' = Locked(t, {tx[t].other})
    /\ tx' = [tx EXCEPT ![t].pc = "commit",
                        ![t].put = With(t, tx[t].other, [Seen(t, tx[t].other) EXCEPT !.primary = TRUE])]
    /\ UNCHANGED <<locations, openings, save, guide, history>>

Released(t) == [l \in Locations |-> IF lock[l] = t THEN 0 ELSE lock[l]]

Commit(t) ==
    /\ tx[t].pc = "commit"
    /\ locations' = Over(tx[t].put, locations)
    /\ openings' = [openings EXCEPT ![save[t].on] = (@ \ tx[t].cut) \cup {t}]
    /\ history' = [history EXCEPT ![save[t].on] = Append(@, t)]
    /\ lock' = Released(t) /\ tx' = [tx EXCEPT ![t] = [NoTx EXCEPT !.pc = "done"]]
    /\ UNCHANGED <<save, guide>>

\* A refused primary, a deadlock or a lost connection rolls everything back.
Rollback(t) ==
    /\ Running(t)
    /\ lock' = Released(t) /\ tx' = [tx EXCEPT ![t] = [NoTx EXCEPT !.pc = "failed"]]
    /\ UNCHANGED <<locations, openings, save, guide, history>>

-----------------------------------------------------------------------------
(* The receptionist: the active locations, then the hours in a second      *)
(* query; without a name it speaks of the primary one, else of all.        *)

Spoken ==
    LET active == {l \in DOMAIN locations : locations[l].active}
        primary == {l \in active : locations[l].primary}
    IN IF primary # {} THEN primary ELSE active

ReadLocations ==
    /\ guide.pc \in {"idle", "told"}
    /\ \E l \in Spoken : guide' = [pc |-> "hours", at |-> l, by |-> locations[l].by, hours |-> {}]
    /\ UNCHANGED <<locations, openings, lock, save, tx, history>>

ReadHours ==
    /\ guide.pc = "hours"
    /\ guide' = [guide EXCEPT !.pc = "told", !.hours = openings[guide.at]]
    /\ UNCHANGED <<locations, openings, lock, save, tx, history>>

LocationsNext ==
    \/ \E t \in Saves : \/ Refuse(t) \/ ReadCurrent(t) \/ BeginSave(t) \/ BeginCreate(t) \/ Demote(t)
                        \/ WriteLocation(t) \/ ReplaceHours(t) \/ Promote(t) \/ Commit(t) \/ Rollback(t)
    \/ ReadLocations \/ ReadHours

LocationsSpec == LocationsInit /\ [][LocationsNext]_locationVars

-----------------------------------------------------------------------------
LocationsTypeOK ==
    /\ DOMAIN locations \subseteq Locations
    /\ \A l \in DOMAIN locations : locations[l] \in LocationRow
    /\ openings \in [Locations -> SUBSET (Saves \cup {0})]
    /\ lock \in [Locations -> Saves \cup {0}]
    /\ \A t \in Saves :
         /\ tx[t].pc \in {"new", "refused", "begin", "demote", "write", "cut", "promote", "commit", "done", "failed"}
         /\ DOMAIN tx[t].put \subseteq Locations /\ tx[t].other \in Locations \cup {Nowhere}

\* However saves of a location overlap, its hours are those of one save, the
\* one that wrote its row: never a mixture, and never another save's.
HoursOfOneSave == \A l \in DOMAIN locations : openings[l] = {locations[l].by}

\* The hours the receptionist gives for a location are one save's, and never
\* older than the row it read before them.
HoursNotOlder ==
    guide.pc = "told" =>
        \E i, j \in DOMAIN history[guide.at] :
            i <= j /\ history[guide.at][i] = guide.by /\ guide.hours = {history[guide.at][j]}

\* What the run checks of locations: hours belong to one save, stored and told.
LocationsSafe == LocationsTypeOK /\ HoursOfOneSave /\ HoursNotOlder
=============================================================================
