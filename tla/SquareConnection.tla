-------------------------- MODULE SquareConnection --------------------------
(***************************************************************************)
(* One artist's Square connection: signing in with Square and the callback *)
(* that stores the tokens, choosing a location, mapping services by hand,  *)
(* importing Square's services, refreshing the token before a search or a  *)
(* booking, and disconnecting, all of them against each other.             *)
(*                                                                         *)
(* A merchant owns locations and service variations; Owner tells whose     *)
(* they are.  A token is the merchant it opens.  Transactions run under    *)
(* READ COMMITTED: what they delete is what they could see, and a row that *)
(* another transaction has locked makes a writer wait.                     *)
(***************************************************************************)
EXTENDS Integers, FiniteSets

CONSTANTS Merchants,   \* Square accounts
          Holdings,    \* their locations and variations
          Services,    \* Maia services that can be mapped by hand
          Clicks,      \* requests, each doing one thing
          ClickPlans,  \* what each does: [does, at, key]
          LastImport   \* services an import may create

ASSUME ConnectionBounds ==
    /\ LastImport \in Nat
    /\ Holdings \subseteq [kind : {"location", "variation"}, owner : Merchants, n : Nat]
    /\ \A p \in ClickPlans : DOMAIN p = Clicks

VARIABLES conn,     \* the scheduling_connections row
          maps,     \* the service_provider_mappings rows
          states,   \* sign-in states that are stored
          logins,   \* tokens stored for each sign-in state so far
          imported, \* services created by imports
          rowLock,  \* the transaction holding the connection row, or 0
          click     \* the requests

cvars == <<conn, maps, states, logins, imported, rowLock, click>>

Keys == 1 .. 3

\* Each sign-in stores a state of its own, a random one.
ASSUME ClickWishes ==
    \A p \in ClickPlans : \A c \in Clicks :
        /\ p[c].does \in {"connect", "callback", "locate", "map", "unmap", "disconnect", "import", "search"}
        /\ p[c].key \in Keys
        /\ p[c].does = "callback" => p[c].at \in Merchants
        /\ p[c].does = "connect" => \A d \in Clicks : p[d].does = "connect" /\ p[d].key = p[c].key => d = c

NoConnection == [merchant |-> "none", status |-> "NONE", location |-> 0, token |-> "none",
                 fresh |-> FALSE]
HoldingOf(kind, m, n) == [kind |-> kind, owner |-> m, n |-> n] \in Holdings

ConnectionInit ==
    /\ conn \in {NoConnection} \cup
           {[merchant |-> m, status |-> "CONNECTED", location |-> 1, token |-> m, fresh |-> FALSE] :
                m \in Merchants}
    /\ maps = {} /\ states = {} /\ imported = 0 /\ rowLock = 0
    /\ logins = [k \in Keys |-> 0]
    /\ \E p \in ClickPlans :
           click = [c \in Clicks |-> [does |-> p[c].does, at |-> p[c].at, key |-> p[c].key,
                                      pc |-> "start", saw |-> NoConnection, doomed |-> {}]]

ClickAt(c, does, pc) == click[c].does = does /\ click[c].pc = pc
GoTo(c, pc) == click' = [click EXCEPT ![c].pc = pc]
ReadRow(c, pc) == click' = [click EXCEPT ![c].pc = pc, ![c].saw = conn]

-----------------------------------------------------------------------------
\* connect/route.ts stores a state for ten minutes; states expire.
StartSignIn(c) ==
    /\ ClickAt(c, "connect", "start")
    /\ states' = states \cup {click[c].key} /\ GoTo(c, "done")
    /\ UNCHANGED <<conn, maps, logins, imported, rowLock>>

StateExpires ==
    /\ \E k \in states : states' = states \ {k}
    /\ UNCHANGED <<conn, maps, logins, imported, rowLock, click>>

Consumed(key) == states \ {key}

\* The callback consumes the state; a refusal by the merchant ends it.
UseState(c) ==
    /\ ClickAt(c, "callback", "start")
    /\ IF click[c].key \in states
       THEN /\ states' = Consumed(click[c].key)
            /\ \E pc \in {"exchange", "done"} : GoTo(c, pc)
       ELSE UNCHANGED states /\ GoTo(c, "done")
    /\ UNCHANGED <<conn, maps, logins, imported, rowLock>>

\* The transaction after the exchange: another merchant's mappings are deleted first.
DropMappings(c) ==
    /\ ClickAt(c, "callback", "exchange")
    /\ click' = [click EXCEPT ![c].pc = "store",
           ![c].doomed = IF conn.merchant \notin {"none", click[c].at} THEN maps ELSE {}]
    /\ UNCHANGED <<conn, maps, states, logins, imported, rowLock>>

StoreTokens(c) ==
    /\ ClickAt(c, "callback", "store") /\ rowLock = 0
    /\ maps' = maps \ click[c].doomed
    /\ conn' = [conn EXCEPT !.merchant = click[c].at, !.token = click[c].at,
                            !.status = "CONNECTED", !.fresh = TRUE]
    /\ logins' = [logins EXCEPT ![click[c].key] = @ + 1]
    /\ GoTo(c, "done")
    /\ UNCHANGED <<states, imported, rowLock>>

-----------------------------------------------------------------------------
\* findConnection, with the status each request asks for.
ReadConnection(c) ==
    /\ click[c].does \in {"locate", "map", "unmap", "disconnect", "import", "search"}
    /\ click[c].pc = "start"
    /\ IF \/ conn.status = "NONE"
          \/ conn.status # "CONNECTED" /\ click[c].does # "disconnect"
          \/ conn.location = 0 /\ click[c].does \in {"import", "search"}
       THEN GoTo(c, "done")
       ELSE ReadRow(c, CASE click[c].does = "disconnect" -> "write"
                         [] conn.fresh -> "list"
                         [] OTHER -> "refresh")
    /\ UNCHANGED <<conn, maps, states, logins, imported, rowLock>>

\* squareAccessToken: an expired token is exchanged with the refresh token that was read
\* and stored under the row's id; a refusal fails the request.
Refresh(c) ==
    /\ click[c].pc = "refresh"
    /\ \/ GoTo(c, "renew") \/ GoTo(c, "done")
    /\ UNCHANGED <<conn, maps, states, logins, imported, rowLock>>

StoreRefreshed(c) ==
    /\ click[c].pc = "renew" /\ rowLock = 0
    /\ conn' = [conn EXCEPT !.token = click[c].saw.token, !.fresh = TRUE]
    /\ GoTo(c, "list")
    /\ UNCHANGED <<maps, states, logins, imported, rowLock>>

TokenExpires ==
    /\ conn.fresh /\ conn' = [conn EXCEPT !.fresh = FALSE]
    /\ rowLock = 0
    /\ UNCHANGED <<maps, states, logins, imported, rowLock, click>>

\* What the request asked for is looked for in the lists of the account it read.
ListSquare(c) ==
    LET row == click[c].saw
        own == HoldingOf(IF click[c].does = "locate" THEN "location" ELSE "variation",
                         row.token, click[c].key)
    IN  /\ click[c].pc = "list" /\ click[c].does # "search"
        /\ GoTo(c, IF own \/ click[c].does = "unmap" THEN "write" ELSE "done")
        /\ UNCHANGED <<conn, maps, states, logins, imported, rowLock>>

-----------------------------------------------------------------------------
\* The writes of the settings requests, each one statement by the row's id.
Locate(c) ==
    /\ ClickAt(c, "locate", "write") /\ rowLock = 0
    /\ conn' = [conn EXCEPT !.location = click[c].key]
    /\ GoTo(c, "done")
    /\ UNCHANGED <<maps, states, logins, imported, rowLock>>

Disconnect(c) ==
    /\ ClickAt(c, "disconnect", "write") /\ rowLock = 0
    /\ conn' = [conn EXCEPT !.status = "DISCONNECTED", !.location = 0]
    /\ GoTo(c, "done")
    /\ UNCHANGED <<maps, states, logins, imported, rowLock>>

Mapping(service, location, m, n, by) ==
    [service |-> service, location |-> location, owner |-> m, variation |-> n, by |-> by]

SaveMapping(c) ==
    LET row == click[c].saw
        same(m) == m.service = click[c].at /\ m.location = row.location
    IN  /\ ClickAt(c, "map", "write") /\ rowLock = 0
        /\ maps' = IF row.location = 0 THEN maps
                   ELSE {m \in maps : ~same(m)} \cup
                        {Mapping(click[c].at, row.location, row.token, click[c].key, "hand")}
        /\ GoTo(c, "done")
        /\ UNCHANGED <<conn, states, logins, imported, rowLock>>

RemoveMapping(c) ==
    /\ ClickAt(c, "unmap", "write")
    /\ maps' = {m \in maps : ~(m.service = click[c].at /\ m.location = click[c].saw.location)}
    /\ GoTo(c, "done")
    /\ UNCHANGED <<conn, states, logins, imported, rowLock>>

\* The import locks the row and goes on only if the connection is the one it read.
LockRow(c) ==
    /\ ClickAt(c, "import", "write") /\ rowLock = 0
    /\ IF /\ conn.status = "CONNECTED" /\ conn.location = click[c].saw.location
          /\ conn.merchant = click[c].saw.merchant
       THEN rowLock' = c /\ GoTo(c, "insert")
       ELSE UNCHANGED rowLock /\ GoTo(c, "done")
    /\ UNCHANGED <<conn, maps, states, logins, imported>>

\* Faulty variant: only mappings imported by hand count as existing.
HandMapped(m, n) == \E x \in maps : x.owner = m /\ x.variation = n /\ x.by = "hand"
\* A variation that is mapped already is skipped.
Mapped(m, n) == \E x \in maps : x.owner = m /\ x.variation = n

InsertImported(c) ==
    LET row == click[c].saw
        news == IF Mapped(row.token, click[c].key) THEN {}
                ELSE {Mapping(100 + imported, row.location, row.token, click[c].key, "import")}
    IN  /\ ClickAt(c, "import", "insert") /\ imported < LastImport
        /\ maps' = maps \cup news
        /\ imported' = imported + Cardinality(news)
        /\ rowLock' = 0 /\ GoTo(c, "done")
        /\ UNCHANGED <<conn, states, logins>>

\* A search takes the service's mapping at the location it read.
Search(c) ==
    /\ ClickAt(c, "search", "list")
    /\ GoTo(c, IF \E m \in maps : m.service = click[c].at /\ m.location = click[c].saw.location
               THEN "asked" ELSE "done")
    /\ UNCHANGED <<conn, maps, states, logins, imported, rowLock>>

ClickStep(c) == \/ StartSignIn(c) \/ UseState(c) \/ DropMappings(c) \/ StoreTokens(c)
                \/ ReadConnection(c) \/ Refresh(c) \/ StoreRefreshed(c) \/ ListSquare(c)
                \/ Locate(c) \/ Disconnect(c) \/ SaveMapping(c) \/ RemoveMapping(c)
                \/ LockRow(c) \/ InsertImported(c) \/ Search(c)

ConnectionNext == StateExpires \/ TokenExpires \/ \E c \in Clicks : ClickStep(c)

ConnectionSpec == ConnectionInit /\ [][ConnectionNext]_cvars

-----------------------------------------------------------------------------
ConnectionTypeOK ==
    /\ conn.merchant \in Merchants \cup {"none"} /\ conn.token \in Merchants \cup {"none"}
    /\ conn.status \in {"NONE", "CONNECTED", "DISCONNECTED"}
    /\ states \subseteq Keys /\ rowLock \in Clicks \cup {0} /\ imported \in 0 .. LastImport

\* A redirect from Square that arrives twice, on two servers at once or after a reload,
\* stores tokens once (callback/route.ts:33-40).
SignInOnce == \A k \in Keys : logins[k] <= 1

\* Imports that run at once, or again after another, create one Maia service for a
\* Square service (import/route.ts:22-34).
ImportedOnce ==
    \A x, y \in {m \in maps : m.by = "import"} :
        x.owner = y.owner /\ x.variation = y.variation => x = y

\* What the run checks of the connection: one sign-in a click, one import a service.
SquareLinkSafe == ConnectionTypeOK /\ SignInOnce /\ ImportedOnce
=============================================================================
