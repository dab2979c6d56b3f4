------------------------------ MODULE StripeConnect ------------------------------
(***************************************************************************)
(* Connecting a studio to Stripe: one row holds the account its clients'   *)
(* money goes to, whether it is a live one, and whether Stripe lets it     *)
(* charge.  The settings page connects an account, refreshes what Stripe   *)
(* says of it, and replaces the sandbox account by a live one.             *)
(*                                                                         *)
(* A request keeps the mode of the deployment it started under; a new      *)
(* deployment begins when the old one's requests have ended.  Stripe       *)
(* creates one account for each idempotency key, that is for each mode.    *)
(***************************************************************************)
EXTENDS Naturals, FiniteSets

CONSTANTS
    Visits,         \* visits of the payment settings
    VisitKinds,     \* what they do: functions from Visits
    OutsideChanges  \* bound: deployments and changes at Stripe

ASSUME ConnectBounds ==
    \A k \in VisitKinds : k \in [Visits -> {"CONNECT", "REFRESH", "CONNECT_LIVE"}]

VARIABLES
    wish,     \* what each visit does
    deployed,      \* the deployment: [live, cards], cards: live card payments are on
    linked,      \* studio_payment_accounts: [account, live, ready]
    allowed,  \* the accounts Stripe lets charge now
    visit,    \* each visit: [pc, named, live, saw, flag]
    changes,  \* deployments and changes at Stripe so far
    wasReady  \* ghost: the accounts Stripe has ever let charge

connectVars == <<wish, deployed, linked, allowed, visit, changes, wasReady>>

NoAccount == [account |-> "none", live |-> FALSE, ready |-> FALSE]

\* The key of the creation names the studio and the mode.
AccountFor(live) == IF live THEN "acct_live" ELSE "acct_test"

ConnectInit ==
    /\ wish \in VisitKinds /\ linked = NoAccount /\ allowed = {} /\ wasReady = {} /\ changes = 0
    /\ deployed = [live |-> FALSE, cards |-> FALSE]
    /\ visit = [v \in Visits |->
                  [pc |-> "new", named |-> "none", live |-> FALSE, saw |-> NoAccount, flag |-> FALSE]]

Busy(v) == visit[v].pc \notin {"new", "open", "done"}
Proceeds(v, pc) == visit' = [visit EXCEPT ![v].pc = pc]

\* The page shows the account; the owner may name it when replacing it.
OpenPage(v) ==
    /\ visit[v].pc = "new"
    /\ visit' = [visit EXCEPT ![v].pc = "open", ![v].named = linked.account]
    /\ UNCHANGED <<wish, deployed, linked, allowed, changes, wasReady>>

\* A live account is never replaced, nor any once live card payments are on.
CanReplace == ~linked.live /\ deployed.live /\ ~deployed.cards

Begin(v) ==
    LET next == IF wish[v] = "CONNECT_LIVE"
                THEN IF linked # NoAccount /\ CanReplace /\ visit[v].named = linked.account THEN "create" ELSE "done"
                ELSE IF linked.account = "none" THEN IF wish[v] = "REFRESH" THEN "done" ELSE "create"
                ELSE IF linked.live = deployed.live THEN "retrieve" ELSE "done"
    IN  /\ visit[v].pc = "open"
        /\ visit' = [visit EXCEPT ![v].pc = next, ![v].live = deployed.live, ![v].saw = linked]
        /\ UNCHANGED <<wish, deployed, linked, allowed, changes, wasReady>>

\* Stripe creates the account, or returns the one this key created before.
CreateAccount(v) ==
    /\ visit[v].pc = "create" /\ Proceeds(v, IF wish[v] = "CONNECT_LIVE" THEN "swap" ELSE "insert")
    /\ UNCHANGED <<wish, deployed, linked, allowed, changes, wasReady>>

\* Faulty variant: what Stripe said of the account before stays in the row.
FlagsStay(account) == [linked EXCEPT !.account = account, !.live = TRUE]

\* Nothing is known yet of the account that replaces the other.
Replaced(account) == [account |-> account, live |-> TRUE, ready |-> FALSE]

\* Only the account the owner named is replaced, and only while it is a sandbox one.
SwapAccount(v) ==
    /\ visit[v].pc = "swap" /\ Proceeds(v, "reread")
    /\ linked' = IF linked.account = visit[v].named /\ ~linked.live THEN Replaced(AccountFor(TRUE)) ELSE linked
    /\ UNCHANGED <<wish, deployed, allowed, changes, wasReady>>

InsertAccount(v) ==
    /\ visit[v].pc = "insert" /\ Proceeds(v, "reread")
    /\ linked' = IF linked = NoAccount THEN [NoAccount EXCEPT !.account = AccountFor(visit[v].live), !.live = visit[v].live]
                                 ELSE linked
    /\ UNCHANGED <<wish, deployed, allowed, changes, wasReady>>

\* The row as somebody left it; of another mode it ends the request.
Reread(v) ==
    /\ visit[v].pc = "reread"
    /\ visit' = [visit EXCEPT ![v].saw = linked, ![v].pc = IF linked.live = visit[v].live THEN "retrieve" ELSE "done"]
    /\ UNCHANGED <<wish, deployed, linked, allowed, changes, wasReady>>

Retrieve(v) ==
    /\ visit[v].pc = "retrieve"
    /\ visit' = [visit EXCEPT ![v].pc = "note", ![v].flag = visit[v].saw.account \in allowed]
    /\ UNCHANGED <<wish, deployed, linked, allowed, changes, wasReady>>

\* The answer is written to the studio's row, whichever account it names by now.
NoteFlags(v) ==
    /\ visit[v].pc = "note" /\ Proceeds(v, "done") /\ linked' = [linked EXCEPT !.ready = visit[v].flag]
    /\ UNCHANGED <<wish, deployed, allowed, changes, wasReady>>

\* A call to Stripe fails, or the process stops.
VisitFails(v) ==
    /\ Busy(v) /\ Proceeds(v, "done")
    /\ UNCHANGED <<wish, deployed, linked, allowed, changes, wasReady>>

-----------------------------------------------------------------------------
Change == changes < OutsideChanges /\ changes' = changes + 1

Deploy ==
    /\ Change /\ \A v \in Visits : ~Busy(v)
    /\ deployed' \in [live : BOOLEAN, cards : BOOLEAN] /\ deployed' # deployed /\ (deployed'.cards => deployed'.live)
    /\ UNCHANGED <<wish, linked, allowed, visit, wasReady>>

\* Stripe lets an account charge once its details are in, and may stop it later.
StripeDecides(account) ==
    /\ Change /\ allowed' = IF account \in allowed THEN allowed \ {account} ELSE allowed \cup {account}
    /\ wasReady' = wasReady \cup allowed'
    /\ UNCHANGED <<wish, deployed, linked, visit>>

ConnectNext ==
    \/ \E v \in Visits : \/ OpenPage(v) \/ Begin(v) \/ CreateAccount(v) \/ SwapAccount(v) \/ InsertAccount(v)
                         \/ Reread(v) \/ Retrieve(v) \/ NoteFlags(v) \/ VisitFails(v)
    \/ Deploy \/ \E live \in BOOLEAN : StripeDecides(AccountFor(live))

ConnectSpec == ConnectInit /\ [][ConnectNext]_connectVars

-----------------------------------------------------------------------------
ConnectTypeOK ==
    /\ linked \in [account : {"none", "acct_test", "acct_live"}, live : BOOLEAN, ready : BOOLEAN]
    /\ allowed \subseteq wasReady /\ wasReady \subseteq {"acct_test", "acct_live"}
    /\ \A v \in Visits : visit[v].pc \in {"new", "open", "create", "swap", "insert", "reread", "retrieve", "note", "done"}

\* A studio shown as ready to take payments is ready with the account its row
\* names: what Stripe said of the sandbox account never vouches for the live one
\* that replaced it, however refreshing and replacing overlap.
ReadyIsItsOwn == linked.ready => linked.account \in wasReady

\* The row says live of exactly the live account, also when a request created
\* one under an earlier deployment and another inserted its own first.
ModeOfItsAccount == linked.account # "none" => linked.account = AccountFor(linked.live)

\* What the run checks of the payment account: readiness and mode are its own.
StripeConnectSafe == ConnectTypeOK /\ ReadyIsItsOwn /\ ModeOfItsAccount
=============================================================================
