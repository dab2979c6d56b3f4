------------------------- MODULE GoogleCredentials -------------------------
(***************************************************************************)
(* The Google Calendar tokens of one calendar: saving them after a sign-in *)
(* (which need not bring a refresh token), refreshing the access token     *)
(* when availability is asked for, and the operator's conversion of rows   *)
(* stored in the old form.  Each runs in a transaction that holds an       *)
(* advisory lock for the calendar, across the call to Google.              *)
(*                                                                         *)
(* A refresh token is the sign-in it stems from and how often Google has   *)
(* replaced it since; Google no longer takes one it has replaced.          *)
(***************************************************************************)
EXTENDS Integers, FiniteSets

CONSTANTS Callers,      \* transactions
          CallerKinds,  \* what each does: "signin", "use" or "convert"
          LastRotation  \* times Google replaces a refresh token

ASSUME CallerBounds == /\ LastRotation \in Nat /\ Callers \cap {"first", "none"} = {}
                       /\ CallerKinds \subseteq [Callers -> {"signin", "use", "convert"}]

VARIABLES calendar, \* the calendar_connections row
          holder,   \* who holds the lock, or "none"
          newest,   \* for each sign-in, the newest replacement Google has made
          lost,     \* sign-ins one of whose replacements never reached us
          deadAsks, \* sign-ins whose replaced token was presented to Google
          latest,   \* the sign-in saved last with a refresh token
          caller    \* the transactions

gvars == <<calendar, holder, newest, lost, deadAsks, latest, caller>>

Origins == Callers \cup {"first"}
Token(origin, n) == [origin |-> origin, n |-> n]
NoToken == Token("none", 0)

GoogleInit ==
    /\ calendar \in {[refresh |-> Token("first", 0), form |-> f, fresh |-> FALSE] : f \in {"sealed", "plain"}}
                    \cup {[refresh |-> NoToken, form |-> "sealed", fresh |-> FALSE]}
    /\ holder = "none"
    /\ newest = [o \in Origins |-> 0]
    /\ lost = {} /\ deadAsks = {}
    /\ latest = calendar.refresh.origin
    /\ \E k \in CallerKinds :
           caller = [c \in Callers |-> [does |-> k[c], pc |-> "start", saw |-> NoToken]]

Pass(c, pc) == caller' = [caller EXCEPT ![c].pc = pc]

\* Faulty variant: no lock is taken.
Unlocked(c) == TRUE
\* pg_advisory_xact_lock waits until nobody holds it.
LockFor(c) == holder = "none"

Enter(c) ==
    /\ caller[c].pc = "start" /\ LockFor(c)
    /\ holder' = c
    /\ caller' = [caller EXCEPT ![c].pc = "locked", ![c].saw = calendar.refresh]
    /\ UNCHANGED <<calendar, newest, lost, deadAsks, latest>>

Leaves(c) == holder' = "none" /\ Pass(c, "done")

\* saveGoogleCredentials: without a refresh token of its own the row's is kept, and
\* without either, or with a row that cannot be read, the sign-in fails.
SaveSignIn(c) ==
    /\ caller[c].does = "signin" /\ caller[c].pc = "locked"
    /\ \/ /\ calendar' = [refresh |-> Token(c, 0), form |-> "sealed", fresh |-> TRUE]
          /\ latest' = c
       \/ /\ caller[c].saw # NoToken /\ calendar.form = "sealed"
          /\ calendar' = [calendar EXCEPT !.refresh = caller[c].saw, !.fresh = TRUE]
          /\ UNCHANGED latest
       \/ /\ caller[c].saw = NoToken \/ calendar.form = "plain"
          /\ UNCHANGED <<calendar, latest>>
    /\ Leaves(c)
    /\ UNCHANGED <<newest, lost, deadAsks>>

\* googleAccessToken: a fresh access token is used as it is.
UseFresh(c) ==
    /\ caller[c].does = "use" /\ caller[c].pc = "locked"
    /\ calendar.fresh \/ calendar.form = "plain" \/ caller[c].saw = NoToken
    /\ Leaves(c)
    /\ UNCHANGED <<calendar, newest, lost, deadAsks, latest>>

Dead(t) == t.n # newest[t.origin]

\* Google refuses a replaced token; otherwise it answers, with a replacement or not.
AskGoogle(c) ==
    LET t == caller[c].saw
    IN  /\ caller[c].does = "use" /\ caller[c].pc = "locked"
        /\ ~calendar.fresh /\ calendar.form = "sealed" /\ t # NoToken
        /\ IF Dead(t)
           THEN deadAsks' = deadAsks \cup {t.origin} /\ Leaves(c) /\ UNCHANGED newest
           ELSE /\ UNCHANGED <<deadAsks, holder>>
                /\ \/ UNCHANGED newest /\ Pass(c, "answered")
                   \/ /\ newest[t.origin] < LastRotation
                      /\ newest' = [newest EXCEPT ![t.origin] = @ + 1]
                      /\ caller' = [caller EXCEPT ![c].pc = "answered", ![c].saw.n = @ + 1]
        /\ UNCHANGED <<calendar, lost, latest>>

StoreAccess(c) ==
    /\ caller[c].pc = "answered"
    /\ calendar' = [calendar EXCEPT !.refresh = caller[c].saw, !.fresh = TRUE]
    /\ Leaves(c)
    /\ UNCHANGED <<newest, lost, deadAsks, latest>>

\* convertLegacyGoogleCredentials writes back what it read, encrypted.
Convert(c) ==
    /\ caller[c].does = "convert" /\ caller[c].pc = "locked"
    /\ calendar' = IF caller[c].saw = NoToken THEN calendar
                   ELSE [calendar EXCEPT !.refresh = caller[c].saw, !.form = "sealed"]
    /\ Leaves(c)
    /\ UNCHANGED <<newest, lost, deadAsks, latest>>

\* A timeout, an unusable answer or a dead process ends the transaction unwritten.
GiveUp(c) ==
    /\ caller[c].pc \in {"locked", "answered"}
    /\ lost' = IF caller[c].pc = "answered" /\ caller[c].saw # calendar.refresh
               THEN lost \cup {caller[c].saw.origin} ELSE lost
    /\ Leaves(c)
    /\ UNCHANGED <<calendar, newest, deadAsks, latest>>

AccessExpires ==
    /\ calendar.fresh /\ calendar' = [calendar EXCEPT !.fresh = FALSE]
    /\ UNCHANGED <<holder, newest, lost, deadAsks, latest, caller>>

GoogleStep(c) == Enter(c) \/ SaveSignIn(c) \/ UseFresh(c) \/ AskGoogle(c) \/ StoreAccess(c)
                 \/ Convert(c) \/ GiveUp(c)
GoogleNext == AccessExpires \/ \E c \in Callers : GoogleStep(c)
GoogleSpec == GoogleInit /\ [][GoogleNext]_gvars

-----------------------------------------------------------------------------
GoogleTypeOK ==
    /\ calendar.refresh.origin \in Origins \cup {"none"} /\ calendar.refresh.n \in 0 .. LastRotation
    /\ holder \in Callers \cup {"none"}
    /\ \A c \in Callers : caller[c].pc \in {"start", "locked", "answered", "done"}

\* A refresh token Google has replaced is presented again only after an answer of
\* Google's was lost; refreshes at the same time never use one twice
\* (google-credentials.ts:65-95).
ReplacedNotPresented == deadAsks \subseteq lost

\* A refresh or a conversion that started before a new sign-in never puts the earlier
\* sign-in's token back (google-credentials.ts:47-62,89-93,118).
LatestSignInKept == calendar.refresh.origin = latest

\* What the run checks of credentials: the newest are kept, dead ones not shown.
GoogleSafe == GoogleTypeOK /\ ReplacedNotPresented /\ LatestSignInKept
=============================================================================
