------------------------------ MODULE SocialInbox ------------------------------
(***************************************************************************)
(* Instagram and Facebook: artists connect the accounts of one page, staff *)
(* disconnect and check them, and Meta delivers what clients write.  Every *)
(* delivery is answered at once and handled afterwards on its own, so that *)
(* deliveries of the same text, or of two texts of one person, overlap.    *)
(***************************************************************************)
EXTENDS Naturals, FiniteSets

CONSTANTS
    Accounts,     \* external accounts of the page (Facebook, Instagram)
    Studios,      \* artists who may own them
    Persons,      \* people who write, by the id Meta gives them
    Messages,     \* Meta message ids
    Hands,        \* requests
    HandRoles,    \* sets of requests, each [does, for, at, from, mid]
    SetupTries    \* bound on repeated selections after a failed one

\* A sign-in is an artist's for the accounts it picks, any other request is about
\* one account; a delivery names its sender and its message.
ASSUME SocialBounds ==
    /\ SetupTries \in Nat /\ "nobody" \notin Hands \cup Studios
    /\ \A r \in HandRoles : \A h \in Hands :
          /\ r[h].at \subseteq Accounts
          /\ r[h].does = "connect" => r[h].for \in Studios
          /\ r[h].does # "connect" => \E a \in Accounts : r[h].at = {a}
          /\ r[h].does = "event" => r[h].from \in Persons /\ r[h].mid \in Messages

VARIABLES
    rows,      \* channel_connections by external account
    feed,      \* sign-ins that subscribed the page
    hand,      \* the requests
    roles,     \* what each request is
    known,     \* client_channel_identities; a client is named by the request that made it
    threads,   \* conversations, named by the request that made them
    inbox,     \* stored client messages
    replies    \* replies Meta took

socialVars == <<rows, feed, hand, roles, known, threads, inbox, replies>>

Nobody == "nobody"
NoRow == [owner |-> Nobody, status |-> "none", token |-> Nobody]
HandSteps == {"idle", "choose", "subscribe", "inspect", "record", "look", "seek", "meet", "place",
              "store", "count", "reply", "answer", "done"}

\* Every row has its type, and what is stored refers to what exists.
SocialTypeOK ==
    /\ \A a \in Accounts : /\ rows[a].owner \in Studios \cup {Nobody}
                           /\ rows[a].status \in {"none", "ACTIVE", "ACTION_REQUIRED", "DISCONNECTED"}
                           /\ rows[a].token \in Hands \cup {Nobody}
    /\ feed \subseteq Hands /\ roles \in HandRoles
    /\ \A h \in Hands : hand[h].pc \in HandSteps /\ hand[h].todo \subseteq Accounts
    /\ known \subseteq [client : Hands, account : Accounts, person : Persons]
    /\ threads \subseteq [id : Hands, artist : Studios, account : Accounts, client : Hands]
    /\ inbox \subseteq [by : Hands, mid : Messages, thread : threads]
    /\ replies \subseteq [by : Hands, thread : threads]

SocialInit ==
    /\ rows = [a \in Accounts |-> NoRow]
    /\ roles \in HandRoles /\ feed = {} /\ known = {} /\ threads = {} /\ inbox = {} /\ replies = {}
    /\ hand = [h \in Hands |-> [pc |-> "idle", todo |-> {}, tries |-> 0, valid |-> FALSE, late |-> FALSE,
                                artist |-> Nobody, client |-> Nobody, thread |-> Nobody]]

To(h, pc) == hand' = [hand EXCEPT ![h].pc = pc]
In(h, pc) == hand[h].pc = pc
Does(h, what) == roles[h].does = what
AccountOf(h) == CHOOSE a \in roles[h].at : TRUE

-----------------------------------------------------------------------------
(* Connecting.                                                              *)

\* The sign-in state is consumed and its pages are kept for the selection.
Authorize(h) ==
    /\ Does(h, "connect") /\ In(h, "idle")
    /\ \E pc \in {"choose", "done"} : To(h, pc)
    /\ UNCHANGED <<rows, feed, roles, known, threads, inbox, replies>>

\* Faulty variant: any artist may take the row over.
Untaken(a, s) == TRUE

OwnRow(a, s) == rows[a].owner \in {Nobody, s}

\* One transaction over the chosen accounts: all of them or none.  A row
\* keeps the owner it was inserted with; token and status are replaced.
Reserve(h) ==
    LET s == roles[h].for picks == roles[h].at IN
    /\ In(h, "choose") /\ Does(h, "connect")
    /\ IF \A a \in picks : OwnRow(a, s)
       THEN /\ rows' = [a \in Accounts |->
                           IF a \notin picks THEN rows[a]
                           ELSE [owner |-> IF rows[a].owner = Nobody THEN s ELSE rows[a].owner,
                                 status |-> "ACTION_REQUIRED", token |-> h]]
            /\ To(h, "subscribe")
       ELSE To(h, "done") /\ UNCHANGED rows
    /\ UNCHANGED <<feed, roles, known, threads, inbox, replies>>

\* Meta subscribes the page, refuses, or the call fails; the person may try again.
Subscribe(h) ==
    /\ In(h, "subscribe")
    /\ \/ /\ feed' = feed \cup {h}
          /\ hand' = [hand EXCEPT ![h].pc = "inspect", ![h].todo = roles[h].at]
       \/ /\ hand' = [hand EXCEPT ![h].pc = IF hand[h].tries < SetupTries THEN "choose" ELSE "done",
                                  ![h].tries = IF @ < SetupTries THEN @ + 1 ELSE @]
          /\ UNCHANGED feed
    /\ UNCHANGED <<rows, roles, known, threads, inbox, replies>>

\* A connection is healthy when its token is valid and the page subscribed.
Healthy(ok) == ok /\ feed # {}

Inspect(h) ==
    /\ In(h, "inspect") /\ hand[h].todo # {}
    /\ \E ok \in BOOLEAN : hand' = [hand EXCEPT ![h].pc = "record", ![h].valid = Healthy(ok)]
    /\ UNCHANGED <<rows, feed, roles, known, threads, inbox, replies>>

\* The result is written whatever the row has become meanwhile.
RecordHealth(h) ==
    /\ In(h, "record")
    /\ \E a \in hand[h].todo :
        /\ rows' = [rows EXCEPT ![a].status = IF hand[h].valid THEN "ACTIVE" ELSE "ACTION_REQUIRED"]
        /\ hand' = [hand EXCEPT ![h].todo = @ \ {a},
                                ![h].pc = IF hand[h].todo = {a} THEN "done" ELSE "inspect"]
    /\ UNCHANGED <<feed, roles, known, threads, inbox, replies>>

CheckHealth(h) ==
    /\ Does(h, "health") /\ In(h, "idle")
    /\ LET there == rows[AccountOf(h)].token # Nobody IN
       hand' = [hand EXCEPT ![h].pc = IF there THEN "inspect" ELSE "done",
                            ![h].todo = IF there THEN roles[h].at ELSE {}]
    /\ UNCHANGED <<rows, feed, roles, known, threads, inbox, replies>>

Disconnect(h) ==
    /\ Does(h, "disconnect") /\ In(h, "idle") /\ To(h, "done")
    /\ rows' = [a \in Accounts |-> IF a \in roles[h].at /\ rows[a].owner # Nobody
                                   THEN [rows[a] EXCEPT !.status = "DISCONNECTED"] ELSE rows[a]]
    /\ UNCHANGED <<feed, roles, known, threads, inbox, replies>>

-----------------------------------------------------------------------------
(* A delivery.                                                              *)

Stored(mid) == \E e \in inbox : e.mid = mid

\* Only the active connection of the account routes.
Route(h) ==
    /\ Does(h, "event") /\ In(h, "idle")
    /\ hand' = [hand EXCEPT ![h].pc = IF rows[AccountOf(h)].status = "ACTIVE" THEN "look" ELSE "done",
                            ![h].artist = rows[AccountOf(h)].owner, ![h].late = Stored(roles[h].mid)]
    /\ UNCHANGED <<rows, feed, roles, known, threads, inbox, replies>>

Duplicate(mid) == Stored(mid)

SkipDuplicate(h) ==
    /\ In(h, "look") /\ To(h, IF Duplicate(roles[h].mid) THEN "done" ELSE "seek")
    /\ UNCHANGED <<rows, feed, roles, known, threads, inbox, replies>>

Identities(a, p) == {i \in known : i.account = a /\ i.person = p}

FindClient(h) ==
    LET found == Identities(AccountOf(h), roles[h].from) IN
    /\ In(h, "seek")
    /\ IF found = {} THEN To(h, "meet")
       ELSE \E i \in found : hand' = [hand EXCEPT ![h].pc = "place", ![h].client = i.client]
    /\ UNCHANGED <<rows, feed, roles, known, threads, inbox, replies>>

\* The profile is fetched, then client and identity are inserted; no index
\* keeps a second identity out.  A failing call ends the delivery.
MeetClient(h) ==
    /\ In(h, "meet")
    /\ \/ /\ known' = known \cup {[client |-> h, account |-> AccountOf(h), person |-> roles[h].from]}
          /\ hand' = [hand EXCEPT ![h].pc = "place", ![h].client = h]
       \/ To(h, "done") /\ UNCHANGED known
    /\ UNCHANGED <<rows, feed, roles, threads, inbox, replies>>

Matching(h) == {t \in threads : /\ t.artist = hand[h].artist /\ t.client = hand[h].client
                                /\ t.account = AccountOf(h)}

\* The thread last written in, or a new one.  Two deliveries may both insert.
PlaceThread(h) ==
    /\ In(h, "place")
    /\ IF Matching(h) # {}
       THEN /\ \E t \in Matching(h) : hand' = [hand EXCEPT ![h].pc = "store", ![h].thread = t.id]
            /\ UNCHANGED threads
       ELSE /\ threads' = threads \cup {[id |-> h, artist |-> hand[h].artist,
                                         account |-> AccountOf(h), client |-> hand[h].client]}
            /\ hand' = [hand EXCEPT ![h].pc = "store", ![h].thread = h]
    /\ UNCHANGED <<rows, feed, roles, known, inbox, replies>>

ThreadOf(h) == CHOOSE t \in threads : t.id = hand[h].thread

\* The message is inserted, the thread counted up and reopened; then Maia
\* is off, delayed (the job of AiResponse), or answers here.
StoreMessage(h) ==
    /\ In(h, "store")
    /\ inbox' = inbox \cup {[by |-> h, mid |-> roles[h].mid, thread |-> ThreadOf(h)]}
    /\ \E pc \in {"reply", "done"} : To(h, pc)
    /\ UNCHANGED <<rows, feed, roles, known, threads, replies>>

\* Sent with the connection and the sender this delivery began with.  A
\* refused token marks the connection, other failures leave its status.
AnswerHere(h) ==
    /\ In(h, "reply") /\ To(h, "done")
    /\ \/ replies' = replies \cup {[by |-> h, thread |-> ThreadOf(h)]} /\ UNCHANGED rows
       \/ UNCHANGED <<replies, rows>>
       \/ /\ rows' = [rows EXCEPT ![AccountOf(h)].status = "ACTION_REQUIRED"]
          /\ UNCHANGED replies
    /\ UNCHANGED <<feed, roles, known, threads, inbox>>

HandStep(h) ==
    \/ Authorize(h) \/ Reserve(h) \/ Subscribe(h) \/ Inspect(h) \/ RecordHealth(h)
    \/ CheckHealth(h) \/ Disconnect(h) \/ Route(h) \/ SkipDuplicate(h) \/ FindClient(h)
    \/ MeetClient(h) \/ PlaceThread(h) \/ StoreMessage(h) \/ AnswerHere(h)

SocialNext == \E h \in Hands : HandStep(h)

SocialSpec == SocialInit /\ [][SocialNext]_socialVars

-----------------------------------------------------------------------------
(* However sign-ins of two artists for one page overlap, the credentials   *)
(* in a row and the subscription at Meta were brought by the artist the    *)
(* row routes to: nobody subscribes before the accounts are his.           *)
OwnersOnly ==
    /\ \A a \in Accounts : rows[a].token # Nobody => roles[rows[a].token].for = rows[a].owner
    /\ \A h \in feed : \A a \in roles[h].at : rows[a].owner = roles[h].for

(* A message is kept in a thread of the artist its account belongs to,     *)
(* with a client known under its sender's id on that very account.         *)
FiledUnderSender ==
    \A e \in inbox :
        /\ e.thread.account \in roles[e.by].at
        /\ e.thread.artist = rows[e.thread.account].owner
        /\ [client |-> e.thread.client, account |-> e.thread.account,
            person |-> roles[e.by].from] \in known

(* Meta's redelivery of a message that was already stored when it arrived  *)
(* is neither stored nor answered again.                                   *)
RedeliveryIgnored == \A e \in inbox \cup replies : ~hand[e.by].late

\* What the run checks of the social inbox: owners, senders and redeliveries.
SocialSafe == SocialTypeOK /\ OwnersOnly /\ FiledUnderSender /\ RedeliveryIgnored
=============================================================================
