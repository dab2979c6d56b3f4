---------------------------- MODULE SetupProofs ----------------------------
(***************************************************************************)
(* Proofs about setting a studio up, part by part: calendar tokens, the    *)
(* Stripe account, delivery receipts, numbers, social messaging, the       *)
(* activation page and the carrier registration.  Every theorem is for any *)
(* number of callers, visits, texts, messages and requests at once.        *)
(***************************************************************************)
EXTENDS GoogleCredentials, StripeConnect, DeliveryReceipts, PhoneNumbers, SocialInbox,
        StudioActivation, CampaignRegistration, FiniteSetTheorems, WellFoundedInduction, TLAPS

-----------------------------------------------------------------------------
(* The Google Calendar tokens (module GoogleCredentials).                  *)

Tokens == {t \in [origin : Origins \cup {"none"}, n : 0 .. LastRotation] : t.origin = "none" => t.n = 0}

CallerRows == [does : {"signin", "use", "convert"},
               pc : {"start", "locked", "answered", "done"}, saw : Tokens]

\* What each variable holds, without what the row says beside its token.
TokenShapes ==
    /\ calendar = [refresh |-> calendar.refresh, form |-> calendar.form, fresh |-> calendar.fresh]
    /\ calendar.refresh \in Tokens
    /\ newest \in [Origins -> 0 .. LastRotation]
    /\ caller \in [Callers -> CallerRows]
    /\ holder \in Callers \cup {"none"}

Inside(c) == caller[c].pc \in {"locked", "answered"}
GoogleAnswered == \E c \in Callers : caller[c].pc = "answered"

\* Only who holds the lock is inside; the row is still what it read, but for a
\* replacement it has just been given.
HolderKnows ==
    \A c \in Callers :
        /\ Inside(c) => holder = c
        /\ caller[c].pc = "locked" => caller[c].saw = calendar.refresh
        /\ caller[c].pc = "answered" =>
              /\ caller[c].saw.origin = calendar.refresh.origin
              /\ caller[c].saw.origin \in Origins
              /\ newest[caller[c].saw.origin] = caller[c].saw.n

\* The row's token is the newest of its sign-in, unless a replacement is on its
\* way to the row or was lost.
RowIsNewest ==
    calendar.refresh.origin \in Origins =>
        \/ calendar.refresh.n = newest[calendar.refresh.origin]
        \/ calendar.refresh.origin \in lost
        \/ GoogleAnswered

\* A sign-in that has not ended has given no token to anybody.
NoEarlyToken ==
    \A c \in Callers : caller[c].pc # "done" =>
        newest[c] = 0 /\ calendar.refresh.origin # c

GoogleInv == TokenShapes /\ HolderKnows /\ RowIsNewest /\ NoEarlyToken
                /\ ReplacedNotPresented /\ LatestSignInKept

LEMMA GoogleStart == GoogleInit => GoogleInv
<1> SUFFICES ASSUME GoogleInit PROVE GoogleInv
  OBVIOUS
<1> USE CallerBounds DEF GoogleInit, Token, NoToken
<1>1. TokenShapes
  <2>1. calendar.refresh \in Tokens
    BY DEF Tokens, Origins
  <2>2. newest \in [Origins -> 0 .. LastRotation]
    OBVIOUS
  <2>3. NoToken \in Tokens
    BY DEF Tokens, Origins
  <2>4. caller \in [Callers -> CallerRows]
    BY <2>3 DEF CallerRows
  <2> QED BY <2>1, <2>2, <2>4 DEF TokenShapes
<1>2. \A c \in Callers : caller[c].pc = "start"
  OBVIOUS
<1>3. calendar.refresh.n = 0 /\ \A o \in Origins : newest[o] = 0
  OBVIOUS
<1>4. calendar.refresh.origin \in {"first", "none"}
  OBVIOUS
<1> QED BY <1>1, <1>2, <1>3, <1>4 DEF GoogleInv, HolderKnows, Inside, RowIsNewest, NoEarlyToken,
          ReplacedNotPresented, LatestSignInKept, Origins

\* What the holder knows, in one place: the row is not changed by anybody else.
LEMMA HolderIs ==
    ASSUME GoogleInv, NEW c \in Callers, Inside(c)
    PROVE  /\ holder = c /\ c # "none" /\ c \in Origins
           /\ \A d \in Callers : d # c => ~Inside(d)
           /\ caller[c] \in CallerRows /\ caller[c].saw \in Tokens
           /\ caller[c].pc = "locked" => caller[c].saw = calendar.refresh /\ ~GoogleAnswered
BY CallerBounds DEF GoogleInv, TokenShapes, HolderKnows, Inside, Origins, CallerRows, GoogleAnswered

\* The holder ends and leaves; the row has the token it had, or another one that
\* is the newest of its sign-in.
LEMMA CallEnds ==
    ASSUME GoogleInv, NEW c \in Callers, Inside(c), Pass(c, "done"), holder' = "none",
           newest' = newest, lost \subseteq lost', deadAsks' \subseteq lost',
           calendar' = [refresh |-> calendar'.refresh, form |-> calendar'.form, fresh |-> calendar'.fresh],
           calendar'.refresh \in Tokens, calendar'.refresh.origin = latest',
           calendar'.refresh.origin \in {calendar.refresh.origin, c},
           calendar'.refresh.origin \in Origins =>
              \/ calendar'.refresh.n = newest[calendar'.refresh.origin]
              \/ calendar'.refresh.origin \in lost'
    PROVE  GoogleInv'
<1>1. \A d \in Callers : d # c => caller'[d] = caller[d] /\ ~Inside(d)
  BY HolderIs DEF GoogleInv, TokenShapes, Pass
<1>2. caller'[c].pc = "done" /\ caller' \in [Callers -> CallerRows]
  BY DEF GoogleInv, TokenShapes, Pass, CallerRows
<1>3. \A d \in Callers : ~Inside(d)'
  BY <1>1, <1>2 DEF Inside
<1>4. TokenShapes'
  BY <1>2 DEF GoogleInv, TokenShapes
<1>5. HolderKnows' /\ RowIsNewest'
  BY <1>3 DEF HolderKnows, RowIsNewest, Inside
<1>6. NoEarlyToken'
  BY <1>1, <1>2 DEF GoogleInv, NoEarlyToken
<1> QED BY <1>4, <1>5, <1>6 DEF GoogleInv, ReplacedNotPresented, LatestSignInKept

LEMMA EnterKeeps == ASSUME GoogleInv, NEW c \in Callers, Enter(c) PROVE GoogleInv'
<1> USE DEF Enter, LockFor
<1>1. \A d \in Callers : d # c => caller'[d] = caller[d] /\ ~Inside(d)
  BY CallerBounds DEF GoogleInv, TokenShapes, HolderKnows
<1>2. /\ caller'[c].pc = "locked" /\ caller'[c].saw = calendar.refresh
      /\ caller' \in [Callers -> CallerRows] /\ calendar.refresh \in Tokens
  BY DEF GoogleInv, TokenShapes, CallerRows
<1>3. TokenShapes'
  BY <1>2 DEF GoogleInv, TokenShapes
<1>4. HolderKnows' /\ ~GoogleAnswered
  BY <1>1, <1>2 DEF HolderKnows, Inside, GoogleAnswered
<1>5. RowIsNewest' /\ NoEarlyToken'
  BY <1>1, <1>2, <1>4 DEF GoogleInv, RowIsNewest, NoEarlyToken
<1> QED BY <1>3, <1>4, <1>5 DEF GoogleInv, ReplacedNotPresented, LatestSignInKept

LEMMA SaveSignInKeeps == ASSUME GoogleInv, NEW c \in Callers, SaveSignIn(c) PROVE GoogleInv'
<1>1. /\ Inside(c) /\ Pass(c, "done") /\ holder' = "none" /\ caller[c].pc = "locked"
      /\ UNCHANGED <<newest, lost, deadAsks>>
  BY DEF SaveSignIn, Leaves, Inside
<1>2. newest[c] = 0 /\ c \in Origins /\ Token(c, 0) \in Tokens /\ caller[c].saw = calendar.refresh
  BY <1>1, HolderIs, CallerBounds DEF GoogleInv, NoEarlyToken, Tokens, Token, Origins
<1>3. CASE calendar' = [refresh |-> Token(c, 0), form |-> "sealed", fresh |-> TRUE] /\ latest' = c
  <2>1. calendar'.refresh.origin = c /\ calendar'.refresh.n = 0 /\ calendar'.refresh = Token(c, 0)
    BY <1>3 DEF Token
  <2> QED BY <1>1, <1>2, <1>3, <2>1, CallEnds DEF GoogleInv, ReplacedNotPresented
<1>4. CASE calendar' = [calendar EXCEPT !.refresh = caller[c].saw, !.fresh = TRUE] /\ UNCHANGED latest
  <2>1. /\ calendar' = [refresh |-> calendar.refresh, form |-> calendar.form, fresh |-> TRUE]
        /\ calendar'.refresh = calendar.refresh
    BY <1>2, <1>4 DEF GoogleInv, TokenShapes
  <2> QED BY <1>1, <1>4, <2>1, HolderIs, CallEnds DEF GoogleInv, TokenShapes, ReplacedNotPresented,
             LatestSignInKept, RowIsNewest
<1>5. CASE UNCHANGED <<calendar, latest>>
  BY <1>1, <1>5, HolderIs, CallEnds DEF GoogleInv, TokenShapes, ReplacedNotPresented, LatestSignInKept, RowIsNewest
<1> QED BY <1>3, <1>4, <1>5 DEF SaveSignIn

LEMMA UseFreshKeeps == ASSUME GoogleInv, NEW c \in Callers, UseFresh(c) PROVE GoogleInv'
<1>1. Inside(c) /\ Pass(c, "done") /\ holder' = "none" /\ ~GoogleAnswered
  BY HolderIs DEF UseFresh, Leaves, Inside
<1> QED BY <1>1, CallEnds DEF UseFresh, GoogleInv, TokenShapes, ReplacedNotPresented, LatestSignInKept, RowIsNewest

LEMMA ConvertKeeps == ASSUME GoogleInv, NEW c \in Callers, Convert(c) PROVE GoogleInv'
<1>1. Inside(c) /\ Pass(c, "done") /\ holder' = "none" /\ caller[c].saw = calendar.refresh /\ ~GoogleAnswered
  BY HolderIs DEF Convert, Leaves, Inside
<1>2. /\ calendar'.refresh = calendar.refresh
      /\ calendar' = [refresh |-> calendar'.refresh, form |-> calendar'.form, fresh |-> calendar'.fresh]
  <2>1. CASE calendar' = calendar
    BY <2>1 DEF GoogleInv, TokenShapes
  <2>2. CASE calendar' = [calendar EXCEPT !.refresh = caller[c].saw, !.form = "sealed"]
    BY <1>1, <2>2 DEF GoogleInv, TokenShapes
  <2> QED BY <2>1, <2>2 DEF Convert
<1> QED BY <1>1, <1>2, CallEnds DEF Convert, GoogleInv, TokenShapes, ReplacedNotPresented, LatestSignInKept,
           RowIsNewest

LEMMA StoreAccessKeeps == ASSUME GoogleInv, NEW c \in Callers, StoreAccess(c) PROVE GoogleInv'
<1>1. /\ Inside(c) /\ Pass(c, "done") /\ holder' = "none" /\ caller[c].saw \in Tokens
      /\ caller[c].saw.origin = calendar.refresh.origin
      /\ newest[caller[c].saw.origin] = caller[c].saw.n
  BY HolderIs DEF StoreAccess, Leaves, Inside, GoogleInv, HolderKnows
<1>2. /\ calendar'.refresh = caller[c].saw
      /\ calendar' = [refresh |-> calendar'.refresh, form |-> calendar'.form, fresh |-> calendar'.fresh]
  BY DEF StoreAccess, GoogleInv, TokenShapes
<1> QED BY <1>1, <1>2, CallEnds DEF StoreAccess, GoogleInv, ReplacedNotPresented, LatestSignInKept

LEMMA GiveUpKeeps == ASSUME GoogleInv, NEW c \in Callers, GiveUp(c) PROVE GoogleInv'
<1>1. Inside(c) /\ Pass(c, "done") /\ holder' = "none" /\ lost \subseteq lost'
  BY DEF GiveUp, Leaves, Inside
<1>2. caller[c].pc = "locked" => ~GoogleAnswered
  BY <1>1, HolderIs
<1>3. calendar.refresh.origin \in Origins =>
         \/ calendar.refresh.n = newest[calendar.refresh.origin] \/ calendar.refresh.origin \in lost'
  <2>1. CASE caller[c].pc = "locked"
    BY <1>1, <1>2, <2>1 DEF GoogleInv, RowIsNewest
  <2>2. CASE caller[c].pc = "answered"
    BY <2>2 DEF GiveUp, GoogleInv, HolderKnows
  <2> QED BY <2>1, <2>2 DEF GiveUp
<1> QED BY <1>1, <1>3, CallEnds DEF GiveUp, GoogleInv, TokenShapes, ReplacedNotPresented, LatestSignInKept

\* Google's answer: refused, as it was, or with a replacement.
LEMMA AskGoogleKeeps == ASSUME GoogleInv, NEW c \in Callers, AskGoogle(c) PROVE GoogleInv'
<1> DEFINE t == caller[c].saw
<1>1. /\ Inside(c) /\ caller[c].pc = "locked" /\ t = calendar.refresh /\ t # NoToken /\ t \in Tokens
      /\ UNCHANGED <<calendar, lost, latest>>
  BY HolderIs DEF AskGoogle, Inside
<1>2. t.origin \in Origins /\ ~GoogleAnswered /\ t.origin = calendar.refresh.origin /\ t.n = calendar.refresh.n
  BY <1>1, HolderIs DEF Tokens, NoToken, Token
<1>3. CASE Dead(t) /\ deadAsks' = deadAsks \cup {t.origin} /\ Leaves(c) /\ UNCHANGED newest
  <2>1. t.origin \in lost
    BY <1>2, <1>3 DEF Dead, GoogleInv, RowIsNewest
  <2> QED BY <1>1, <1>2, <1>3, <2>1, CallEnds DEF Leaves, GoogleInv, TokenShapes, ReplacedNotPresented,
             LatestSignInKept
<1>4. ASSUME ~Dead(t), UNCHANGED <<deadAsks, holder>>,
             \/ UNCHANGED newest /\ Pass(c, "answered")
             \/ /\ newest[t.origin] < LastRotation
                /\ newest' = [newest EXCEPT ![t.origin] = @ + 1]
                /\ caller' = [caller EXCEPT ![c].pc = "answered", ![c].saw.n = @ + 1]
      PROVE  GoogleInv'
  <2>1. \A d \in Callers : d # c => caller'[d] = caller[d] /\ ~Inside(d)
    BY <1>1, <1>4, HolderIs DEF GoogleInv, TokenShapes, Pass
  <2>2. /\ caller'[c].pc = "answered" /\ caller'[c].saw.origin = t.origin /\ caller'[c].saw.n = newest'[t.origin]
        /\ newest' \in [Origins -> 0 .. LastRotation] /\ caller' \in [Callers -> CallerRows]
    <3>1. CASE UNCHANGED newest /\ Pass(c, "answered")
      BY <1>1, <1>2, <1>4, <3>1 DEF GoogleInv, TokenShapes, Pass, CallerRows, Dead
    <3>2. CASE /\ newest[t.origin] < LastRotation
               /\ newest' = [newest EXCEPT ![t.origin] = @ + 1]
               /\ caller' = [caller EXCEPT ![c].pc = "answered", ![c].saw.n = @ + 1]
      <4>1. caller[c] \in CallerRows /\ caller \in [Callers -> CallerRows] /\ newest \in [Origins -> 0 .. LastRotation]
        BY DEF GoogleInv, TokenShapes
      <4>2. newest[t.origin] = t.n /\ t.n \in Nat /\ t.n + 1 \in 0 .. LastRotation
        BY <1>2, <1>4, <3>2, <4>1, CallerBounds DEF Dead
      <4>3. caller'[c] = [caller[c] EXCEPT !.pc = "answered", !.saw.n = @ + 1]
        BY <3>2, <4>1
      <4>4. caller'[c].saw = [t EXCEPT !.n = @ + 1] /\ caller'[c].pc = "answered"
            /\ caller'[c].does = caller[c].does
            /\ caller'[c] = [does |-> caller'[c].does, pc |-> caller'[c].pc, saw |-> caller'[c].saw]
        BY <4>1, <4>3 DEF CallerRows
      <4>5. t = [origin |-> t.origin, n |-> t.n]
        BY <1>1 DEF Tokens
      <4>6. caller'[c].saw.origin = t.origin /\ caller'[c].saw.n = t.n + 1
            /\ caller'[c].saw = [origin |-> caller'[c].saw.origin, n |-> caller'[c].saw.n]
        BY <4>4, <4>5
      <4>7. t.origin # "none"
        BY <1>2, CallerBounds DEF Origins
      <4>8. caller'[c].saw \in Tokens
        BY <1>2, <4>2, <4>6, <4>7 DEF Tokens
      <4>9. caller'[c] \in CallerRows
        BY <4>1, <4>4, <4>8 DEF CallerRows
      <4>10. caller' \in [Callers -> CallerRows]
        BY <3>2, <4>1, <4>9, <2>1
      <4> QED BY <1>2, <3>2, <4>1, <4>2, <4>4, <4>6, <4>10
    <3> QED BY <1>4, <3>1, <3>2
  <2>3. TokenShapes'
    BY <1>1, <1>4, <2>2 DEF GoogleInv, TokenShapes
  <2>4. HolderKnows'
    BY <1>1, <1>2, <1>4, <2>1, <2>2, HolderIs DEF HolderKnows, Inside
  <2>5. GoogleAnswered'
    BY <2>2 DEF GoogleAnswered
  <2>6. NoEarlyToken'
    <3>1. \A d \in Callers : caller'[d].pc # "done" => caller[d].pc # "done"
      BY <1>1, <2>1
    <3>2. \A d \in Callers : d # t.origin => newest'[d] = newest[d]
      BY <1>4 DEF GoogleInv, TokenShapes, Origins
    <3> QED BY <1>1, <1>2, <3>1, <3>2 DEF GoogleInv, NoEarlyToken
  <2> QED BY <1>1, <1>4, <2>3, <2>4, <2>5, <2>6 DEF GoogleInv, RowIsNewest, ReplacedNotPresented,
             LatestSignInKept
<1> QED BY <1>3, <1>4 DEF AskGoogle

LEMMA AccessExpiresKeeps == ASSUME GoogleInv, AccessExpires PROVE GoogleInv'
<1>1. /\ calendar' = [refresh |-> calendar.refresh, form |-> calendar.form, fresh |-> FALSE]
      /\ calendar'.refresh = calendar.refresh
  BY DEF AccessExpires, GoogleInv, TokenShapes
<1>2. UNCHANGED <<holder, newest, lost, deadAsks, latest, caller>>
  BY DEF AccessExpires
<1>3. TokenShapes'
  BY <1>1, <1>2 DEF GoogleInv, TokenShapes
<1>4. HolderKnows' /\ RowIsNewest' /\ NoEarlyToken'
  BY <1>1, <1>2 DEF GoogleInv, HolderKnows, RowIsNewest, NoEarlyToken, Inside, GoogleAnswered
<1> QED BY <1>1, <1>2, <1>3, <1>4 DEF GoogleInv, ReplacedNotPresented, LatestSignInKept

LEMMA GoogleInvStep == GoogleInv /\ [GoogleNext]_gvars => GoogleInv'
<1> SUFFICES ASSUME GoogleInv, [GoogleNext]_gvars PROVE GoogleInv'
  OBVIOUS
<1>1. ASSUME NEW c \in Callers, GoogleStep(c) PROVE GoogleInv'
  BY <1>1, EnterKeeps, SaveSignInKeeps, UseFreshKeeps, AskGoogleKeeps, StoreAccessKeeps,
     ConvertKeeps, GiveUpKeeps DEF GoogleStep
<1>2. CASE UNCHANGED gvars
  BY <1>2 DEF gvars, GoogleInv, TokenShapes, HolderKnows, RowIsNewest, NoEarlyToken, Inside, GoogleAnswered,
     ReplacedNotPresented, LatestSignInKept
<1> QED BY <1>1, <1>2, AccessExpiresKeeps DEF GoogleNext

\* However sign-ins, refreshes and conversions overlap, fail or lose Google's
\* answers, the row keeps the latest sign-in's token, and a token Google has
\* replaced is shown to it again only after an answer was lost.
THEOREM NewestTokenIsUsed == GoogleSpec => []GoogleSafe
<1>1. GoogleInv => GoogleSafe
  BY DEF GoogleInv, GoogleSafe, GoogleTypeOK, TokenShapes, CallerRows, Tokens
<1> QED BY GoogleStart, GoogleInvStep, <1>1, PTL DEF GoogleSpec

-----------------------------------------------------------------------------
(* Connecting a studio to Stripe (module StripeConnect).                   *)

StripeAccounts == {"none", "acct_test", "acct_live"}
LinkedRows == [account : StripeAccounts, live : BOOLEAN, ready : BOOLEAN]
VisitSteps == {"new", "open", "create", "swap", "insert", "reread", "retrieve", "note", "done"}
VisitRows == [pc : VisitSteps, named : StripeAccounts, live : BOOLEAN, saw : LinkedRows, flag : BOOLEAN]

VisitShapes ==
    /\ linked \in LinkedRows /\ visit \in [Visits -> VisitRows]
    /\ deployed \in [live : BOOLEAN, cards : BOOLEAN]
    /\ allowed \subseteq wasReady /\ wasReady \subseteq {"acct_test", "acct_live"}

Replaces(v) == \/ visit[v].pc = "swap"
               \/ visit[v].pc = "create" /\ wish[v] = "CONNECT_LIVE"

AsksStripe(v) == visit[v].pc \in {"retrieve", "note"}

\* A running request has the mode of the deployment; one that replaces an account
\* or reads the row again finds one there; one that asks Stripe asks about the
\* account the row still has; and what it will note is true of that account.
VisitKnows(v) ==
    /\ Busy(v) => visit[v].live = deployed.live
    /\ Replaces(v) => visit[v].live = TRUE
    /\ Replaces(v) \/ visit[v].pc = "reread" => linked.account # "none"
    /\ AsksStripe(v) => /\ visit[v].saw.account = linked.account /\ linked.account # "none"
                  /\ linked.live = visit[v].live
    /\ visit[v].pc = "note" /\ visit[v].flag = TRUE => visit[v].saw.account \in wasReady

ModeKept == linked.account # "none" => linked.account = AccountFor(linked.live)
NoRowIsLive == linked.account = "none" => linked.live = FALSE
ReadyKept == linked.ready = TRUE => linked.account \in wasReady

ConnectInv == VisitShapes /\ ModeKept /\ NoRowIsLive /\ ReadyKept /\ \A v \in Visits : VisitKnows(v)

LEMMA ConnectStart == ConnectInit => ConnectInv
<1> SUFFICES ASSUME ConnectInit PROVE ConnectInv
  OBVIOUS
<1>1. NoAccount \in LinkedRows /\ NoAccount.account = "none" /\ NoAccount.live = FALSE /\ NoAccount.ready = FALSE
  BY DEF NoAccount, LinkedRows, StripeAccounts
<1>2. \A v \in Visits : visit[v].pc = "new"
  BY DEF ConnectInit
<1>3. visit \in [Visits -> VisitRows]
  BY <1>1 DEF ConnectInit, VisitRows, VisitSteps, StripeAccounts
<1>4. VisitShapes
  BY <1>1, <1>3 DEF ConnectInit, VisitShapes
<1>5. ModeKept /\ NoRowIsLive /\ ReadyKept
  BY <1>1 DEF ConnectInit, ModeKept, NoRowIsLive, ReadyKept
<1> QED BY <1>2, <1>4, <1>5 DEF ConnectInv, VisitKnows, Busy, Replaces, AsksStripe

\* A step of one visit that leaves the row, the deployment and Stripe alone.
LEMMA RowStays ==
    ASSUME ConnectInv, NEW v \in Visits, NEW new \in VisitRows, visit' = [visit EXCEPT ![v] = new],
           UNCHANGED <<wish, deployed, linked, allowed, wasReady>>, VisitKnows(v)'
    PROVE  ConnectInv'
<1>1. visit' \in [Visits -> VisitRows] /\ \A w \in Visits : w # v => visit'[w] = visit[w]
  BY DEF ConnectInv, VisitShapes
<1>2. VisitShapes' /\ ModeKept' /\ NoRowIsLive' /\ ReadyKept'
  BY <1>1 DEF ConnectInv, VisitShapes, ModeKept, NoRowIsLive, ReadyKept
<1>3. \A w \in Visits : w # v => VisitKnows(w)'
  BY <1>1 DEF ConnectInv, VisitKnows, Busy, Replaces, AsksStripe
<1> QED BY <1>2, <1>3 DEF ConnectInv

LEMMA RowOf == ASSUME ConnectInv, NEW v \in Visits
               PROVE  visit[v] \in VisitRows /\ linked \in LinkedRows /\ VisitKnows(v)
                      /\ visit \in [Visits -> VisitRows]
BY DEF ConnectInv, VisitShapes

LEMMA OpenPageKeeps == ASSUME ConnectInv, NEW v \in Visits, OpenPage(v) PROVE ConnectInv'
<1> DEFINE new == [visit[v] EXCEPT !.pc = "open", !.named = linked.account]
<1>1. new \in VisitRows /\ visit' = [visit EXCEPT ![v] = new] /\ visit'[v] = new /\ new.pc = "open"
  BY RowOf DEF OpenPage, VisitRows, LinkedRows, VisitSteps
<1>2. VisitKnows(v)'
  BY <1>1 DEF VisitKnows, Busy, Replaces, AsksStripe
<1> HIDE DEF new
<1> QED BY <1>1, <1>2, RowStays DEF OpenPage

LEMMA BeginKeeps == ASSUME ConnectInv, NEW v \in Visits, Begin(v) PROVE ConnectInv'
<1> DEFINE next ==
         IF wish[v] = "CONNECT_LIVE"
         THEN IF linked # NoAccount /\ CanReplace /\ visit[v].named = linked.account THEN "create" ELSE "done"
         ELSE IF linked.account = "none" THEN IF wish[v] = "REFRESH" THEN "done" ELSE "create"
         ELSE IF linked.live = deployed.live THEN "retrieve" ELSE "done"
<1> DEFINE new == [visit[v] EXCEPT !.pc = next, !.live = deployed.live, !.saw = linked]
<1>1. /\ next \in {"create", "retrieve", "done"}
      /\ next = "create" /\ wish[v] = "CONNECT_LIVE" => linked # NoAccount /\ CanReplace
      /\ next = "retrieve" => linked.account # "none" /\ linked.live = deployed.live
  <2>1. CASE wish[v] = "CONNECT_LIVE"
    BY <2>1
  <2>2. CASE wish[v] # "CONNECT_LIVE" /\ linked.account = "none"
    BY <2>2
  <2>3. CASE wish[v] # "CONNECT_LIVE" /\ linked.account # "none"
    <3>1. next = IF linked.live = deployed.live THEN "retrieve" ELSE "done"
      BY <2>3
    <3> QED BY <2>3, <3>1
  <2> QED BY <2>1, <2>2, <2>3
<1>2. visit' = [visit EXCEPT ![v].pc = next, ![v].live = deployed.live, ![v].saw = linked]
  BY DEF Begin
<1> HIDE DEF next
<1>3. /\ new \in VisitRows /\ visit' = [visit EXCEPT ![v] = new] /\ visit'[v] = new
      /\ new.pc = next /\ new.live = deployed.live /\ new.saw = linked
  BY <1>1, <1>2, RowOf DEF VisitRows, VisitSteps, ConnectInv, VisitShapes
<1>4. linked # NoAccount /\ CanReplace => deployed.live = TRUE /\ linked.account # "none"
  <2>1. ASSUME linked.account = "none", CanReplace PROVE linked = NoAccount
    <3>1. linked.live = FALSE
      BY <2>1, RowOf DEF CanReplace, LinkedRows
    <3>2. linked.ready = FALSE
      BY <2>1, RowOf DEF ConnectInv, ReadyKept, VisitShapes, LinkedRows
    <3> QED BY <2>1, <3>1, <3>2, RowOf DEF NoAccount, LinkedRows
  <2>2. CanReplace => deployed.live = TRUE
    BY DEF CanReplace, ConnectInv, VisitShapes
  <2> QED BY <2>1, <2>2
<1> HIDE DEF new
<1>5. VisitKnows(v)'
  BY <1>1, <1>3, <1>4 DEF VisitKnows, Busy, Replaces, AsksStripe, Begin
<1> QED BY <1>3, <1>5, RowStays DEF Begin

\* The steps that change only where a visit stands.
LEMMA VisitMoves ==
    ASSUME ConnectInv, NEW v \in Visits, NEW pc \in VisitSteps, Proceeds(v, pc)
    PROVE  \E new \in VisitRows :
             /\ visit' = [visit EXCEPT ![v] = new] /\ visit'[v] = new /\ new.pc = pc
             /\ new.live = visit[v].live /\ new.saw = visit[v].saw /\ new.flag = visit[v].flag
<1> DEFINE new == [visit[v] EXCEPT !.pc = pc]
<1>1. /\ new \in VisitRows /\ visit' = [visit EXCEPT ![v] = new] /\ visit'[v] = new /\ new.pc = pc
      /\ new.live = visit[v].live /\ new.saw = visit[v].saw /\ new.flag = visit[v].flag
  BY RowOf DEF Proceeds, VisitRows
<1> QED BY <1>1

LEMMA CreateAccountKeeps == ASSUME ConnectInv, NEW v \in Visits, CreateAccount(v) PROVE ConnectInv'
<1>1. PICK pc \in VisitSteps : Proceeds(v, pc) /\ pc = IF wish[v] = "CONNECT_LIVE" THEN "swap" ELSE "insert"
  BY DEF CreateAccount, VisitSteps
<1>2. PICK new \in VisitRows :
             /\ visit' = [visit EXCEPT ![v] = new] /\ visit'[v] = new /\ new.pc = pc
             /\ new.live = visit[v].live /\ new.saw = visit[v].saw /\ new.flag = visit[v].flag
  BY <1>1, VisitMoves
<1>3. visit[v].pc = "create" /\ UNCHANGED <<wish, deployed, linked, wasReady>>
  BY DEF CreateAccount
<1>4. VisitKnows(v)'
  BY <1>1, <1>2, <1>3, RowOf DEF VisitKnows, Busy, Replaces, AsksStripe
<1> QED BY <1>2, <1>4, RowStays DEF CreateAccount

LEMMA RereadKeeps == ASSUME ConnectInv, NEW v \in Visits, Reread(v) PROVE ConnectInv'
<1> DEFINE new == [visit[v] EXCEPT !.saw = linked, !.pc = IF linked.live = visit[v].live THEN "retrieve" ELSE "done"]
<1>1. /\ new \in VisitRows /\ visit' = [visit EXCEPT ![v] = new] /\ visit'[v] = new
      /\ new.live = visit[v].live /\ new.saw = linked
      /\ new.pc = IF linked.live = visit[v].live THEN "retrieve" ELSE "done"
  BY RowOf DEF Reread, VisitRows, VisitSteps
<1>2. visit[v].pc = "reread" /\ UNCHANGED <<wish, deployed, linked, wasReady>>
  BY DEF Reread
<1> HIDE DEF new
<1>3. VisitKnows(v)'
  BY <1>1, <1>2, RowOf DEF VisitKnows, Busy, Replaces, AsksStripe
<1> QED BY <1>1, <1>3, RowStays DEF Reread

LEMMA RetrieveKeeps == ASSUME ConnectInv, NEW v \in Visits, Retrieve(v) PROVE ConnectInv'
<1> DEFINE told == visit[v].saw.account \in allowed
<1> DEFINE new == [visit[v] EXCEPT !.pc = "note", !.flag = told]
<1>1. told \in BOOLEAN /\ (told = TRUE => visit[v].saw.account \in wasReady)
  <2>1. told \in BOOLEAN
    OBVIOUS
  <2>2. told = TRUE => told
    BY Zenon
  <2>3. told => visit[v].saw.account \in wasReady
    BY DEF ConnectInv, VisitShapes
  <2> QED BY <2>1, <2>2, <2>3, Zenon
<1>2. visit' = [visit EXCEPT ![v].pc = "note", ![v].flag = told]
  BY DEF Retrieve
<1> HIDE DEF told
<1>3. /\ new \in VisitRows /\ visit' = [visit EXCEPT ![v] = new] /\ visit'[v] = new
      /\ new.live = visit[v].live /\ new.saw = visit[v].saw /\ new.pc = "note" /\ new.flag = told
  BY <1>1, <1>2, RowOf DEF VisitRows, VisitSteps
<1>4. visit[v].pc = "retrieve" /\ UNCHANGED <<wish, deployed, linked, wasReady>>
  BY DEF Retrieve
<1> HIDE DEF new
<1>5. VisitKnows(v)'
  BY <1>1, <1>3, <1>4, RowOf DEF VisitKnows, Busy, Replaces, AsksStripe
<1> QED BY <1>3, <1>5, RowStays DEF Retrieve

LEMMA VisitFailsKeeps == ASSUME ConnectInv, NEW v \in Visits, VisitFails(v) PROVE ConnectInv'
<1>1. PICK new \in VisitRows :
             /\ visit' = [visit EXCEPT ![v] = new] /\ visit'[v] = new /\ new.pc = "done"
  BY VisitMoves DEF VisitFails, VisitSteps
<1>2. VisitKnows(v)'
  BY <1>1 DEF VisitKnows, Busy, Replaces, AsksStripe
<1> QED BY <1>1, <1>2, RowStays DEF VisitFails

\* The page's account, put where the other was or where there was none: until the
\* requests under way have ended the row has the mode they run in.
LEMMA RowChanges ==
    ASSUME ConnectInv, NEW v \in Visits, NEW new \in VisitRows, NEW fresh \in LinkedRows,
           visit' = [visit EXCEPT ![v] = new], visit'[v] = new, new.pc = "reread",
           new.live = visit[v].live, Busy(v), linked' = fresh,
           fresh.account = AccountFor(fresh.live), fresh.ready = FALSE,
           \A w \in Visits : w # v => ~AsksStripe(w),
           UNCHANGED <<wish, deployed, allowed, wasReady>>
    PROVE  ConnectInv'
<1>1. visit' \in [Visits -> VisitRows] /\ \A w \in Visits : w # v => visit'[w] = visit[w]
  BY DEF ConnectInv, VisitShapes
<1>2. fresh.account # "none"
  BY DEF AccountFor
<1>3. VisitShapes' /\ ModeKept' /\ NoRowIsLive' /\ ReadyKept'
  BY <1>1, <1>2 DEF ConnectInv, VisitShapes, ModeKept, NoRowIsLive, ReadyKept
<1>4. \A w \in Visits : w # v => VisitKnows(w)'
  BY <1>1, <1>2 DEF ConnectInv, VisitKnows, Busy, Replaces, AsksStripe
<1>5. VisitKnows(v)'
  BY <1>2, RowOf DEF VisitKnows, Busy, Replaces, AsksStripe
<1> QED BY <1>3, <1>4, <1>5 DEF ConnectInv

LEMMA SwapAccountKeeps == ASSUME ConnectInv, NEW v \in Visits, SwapAccount(v) PROVE ConnectInv'
<1>1. PICK new \in VisitRows :
             /\ visit' = [visit EXCEPT ![v] = new] /\ visit'[v] = new /\ new.pc = "reread"
             /\ new.live = visit[v].live /\ new.saw = visit[v].saw /\ new.flag = visit[v].flag
  BY VisitMoves DEF SwapAccount, VisitSteps
<1>2. visit[v].pc = "swap" /\ Busy(v) /\ UNCHANGED <<wish, deployed, allowed, wasReady>>
  BY DEF SwapAccount, Busy
<1>3. visit[v].live = TRUE /\ deployed.live = TRUE /\ linked.account # "none"
  BY <1>2, RowOf DEF VisitKnows, Replaces
<1>4. CASE linked' = linked
  <2>1. VisitKnows(v)'
    BY <1>1, <1>2, <1>3, <1>4 DEF VisitKnows, Busy, Replaces, AsksStripe
  <2> QED BY <1>1, <1>2, <1>4, <2>1, RowStays
<1>5. CASE linked' = Replaced(AccountFor(TRUE)) /\ ~linked.live
  <2>1. \A w \in Visits : ~AsksStripe(w)
    BY <1>3, <1>5, RowOf DEF VisitKnows, Busy, AsksStripe
  <2>2. /\ Replaced(AccountFor(TRUE)) \in LinkedRows /\ Replaced(AccountFor(TRUE)).ready = FALSE
        /\ Replaced(AccountFor(TRUE)).live = TRUE
        /\ Replaced(AccountFor(TRUE)).account = AccountFor(TRUE)
    BY DEF Replaced, AccountFor, LinkedRows, StripeAccounts
  <2> QED BY <1>1, <1>2, <1>5, <2>1, <2>2, RowChanges
<1> QED BY <1>4, <1>5 DEF SwapAccount

LEMMA InsertAccountKeeps == ASSUME ConnectInv, NEW v \in Visits, InsertAccount(v) PROVE ConnectInv'
<1>1. PICK new \in VisitRows :
             /\ visit' = [visit EXCEPT ![v] = new] /\ visit'[v] = new /\ new.pc = "reread"
             /\ new.live = visit[v].live /\ new.saw = visit[v].saw /\ new.flag = visit[v].flag
  BY VisitMoves DEF InsertAccount, VisitSteps
<1>2. visit[v].pc = "insert" /\ Busy(v) /\ UNCHANGED <<wish, deployed, allowed, wasReady>>
  BY DEF InsertAccount, Busy
<1> DEFINE fresh == [NoAccount EXCEPT !.account = AccountFor(visit[v].live), !.live = visit[v].live]
<1>3. CASE linked # NoAccount /\ linked' = linked
  <2>1. linked.account # "none"
    <3>1. ASSUME linked.account = "none", linked.live = TRUE PROVE FALSE
      BY <3>1, <1>3 DEF ConnectInv, NoRowIsLive
    <3>2. linked.account = "none" => linked.live = FALSE
      BY <3>1, RowOf DEF LinkedRows
    <3>3. linked.account = "none" => linked.ready = FALSE
      BY RowOf DEF ConnectInv, ReadyKept, VisitShapes, LinkedRows
    <3> QED BY <1>3, <3>2, <3>3, RowOf DEF NoAccount, LinkedRows
  <2>2. VisitKnows(v)'
    BY <1>1, <1>2, <1>3, <2>1, RowOf DEF VisitKnows, Busy, Replaces, AsksStripe
  <2> QED BY <1>1, <1>2, <1>3, <2>2, RowStays
<1>4. CASE linked = NoAccount /\ linked' = fresh
  <2>1. linked.account = "none"
    BY <1>4 DEF NoAccount
  <2>2. \A w \in Visits : ~AsksStripe(w)
    BY <2>1, RowOf DEF VisitKnows
  <2>3. fresh \in LinkedRows /\ fresh.ready = FALSE /\ fresh.live = visit[v].live /\ fresh.account = AccountFor(fresh.live)
    BY RowOf DEF NoAccount, AccountFor, LinkedRows, StripeAccounts, VisitRows
  <2> HIDE DEF fresh
  <2> QED BY <1>1, <1>2, <1>4, <2>2, <2>3, RowChanges
<1> QED BY <1>3, <1>4 DEF InsertAccount

LEMMA NoteFlagsKeeps == ASSUME ConnectInv, NEW v \in Visits, NoteFlags(v) PROVE ConnectInv'
<1>1. PICK new \in VisitRows :
             /\ visit' = [visit EXCEPT ![v] = new] /\ visit'[v] = new /\ new.pc = "done"
  BY VisitMoves DEF NoteFlags, VisitSteps
<1>2. /\ visit[v].pc = "note" /\ linked' = [linked EXCEPT !.ready = visit[v].flag]
      /\ UNCHANGED <<wish, deployed, allowed, wasReady>>
  BY DEF NoteFlags
<1>3. /\ linked'.account = linked.account /\ linked'.live = linked.live /\ linked'.ready = visit[v].flag
      /\ linked' \in LinkedRows
  BY <1>2, RowOf DEF LinkedRows, VisitRows
<1>4. visit' \in [Visits -> VisitRows] /\ \A w \in Visits : w # v => visit'[w] = visit[w]
  BY <1>1 DEF ConnectInv, VisitShapes
<1>5. visit[v].flag = TRUE => linked.account \in wasReady
  BY <1>2, RowOf DEF VisitKnows, AsksStripe
<1>6. VisitShapes' /\ ModeKept' /\ NoRowIsLive' /\ ReadyKept'
  BY <1>2, <1>3, <1>4, <1>5 DEF ConnectInv, VisitShapes, ModeKept, NoRowIsLive, ReadyKept
<1>7. \A w \in Visits : w # v => VisitKnows(w)'
  BY <1>2, <1>3, <1>4 DEF ConnectInv, VisitKnows, Busy, Replaces, AsksStripe
<1>8. VisitKnows(v)'
  BY <1>1 DEF VisitKnows, Busy, Replaces, AsksStripe
<1> QED BY <1>6, <1>7, <1>8 DEF ConnectInv

\* A deployment waits until no request runs.
LEMMA DeployKeeps == ASSUME ConnectInv, Deploy PROVE ConnectInv'
<1>1. /\ \A v \in Visits : ~Busy(v) /\ visit'[v] = visit[v]
      /\ UNCHANGED <<wish, linked, allowed, visit, wasReady>>
      /\ deployed' \in [live : BOOLEAN, cards : BOOLEAN]
  BY DEF Deploy
<1>2. VisitShapes' /\ ModeKept' /\ NoRowIsLive' /\ ReadyKept'
  BY <1>1 DEF ConnectInv, VisitShapes, ModeKept, NoRowIsLive, ReadyKept
<1>3. \A v \in Visits : visit[v].pc \in {"new", "open", "done"}
  BY <1>1 DEF Busy
<1>4. \A v \in Visits : VisitKnows(v)'
  BY <1>1, <1>3 DEF VisitKnows, Busy, Replaces, AsksStripe
<1> QED BY <1>2, <1>4 DEF ConnectInv

LEMMA StripeDecidesKeeps ==
    ASSUME ConnectInv, NEW acct \in {"acct_test", "acct_live"}, StripeDecides(acct) PROVE ConnectInv'
<1>1. /\ UNCHANGED <<wish, deployed, linked, visit>> /\ wasReady \subseteq wasReady'
      /\ allowed' \subseteq wasReady' /\ wasReady' \subseteq {"acct_test", "acct_live"}
  BY DEF StripeDecides, ConnectInv, VisitShapes
<1>2. VisitShapes' /\ ModeKept' /\ NoRowIsLive' /\ ReadyKept'
  BY <1>1 DEF ConnectInv, VisitShapes, ModeKept, NoRowIsLive, ReadyKept
<1>3. \A v \in Visits : VisitKnows(v)'
  BY <1>1 DEF ConnectInv, VisitKnows, Busy, Replaces, AsksStripe
<1> QED BY <1>2, <1>3 DEF ConnectInv

LEMMA ConnectInvStep == ConnectInv /\ [ConnectNext]_connectVars => ConnectInv'
<1> SUFFICES ASSUME ConnectInv, [ConnectNext]_connectVars PROVE ConnectInv'
  OBVIOUS
<1>1. CASE UNCHANGED connectVars
  BY <1>1 DEF connectVars, ConnectInv, VisitShapes, ModeKept, NoRowIsLive, ReadyKept, VisitKnows, Busy, Replaces, AsksStripe
<1>2. ASSUME NEW live \in BOOLEAN, StripeDecides(AccountFor(live)) PROVE ConnectInv'
  BY <1>2, StripeDecidesKeeps DEF AccountFor
<1> QED BY <1>1, <1>2, OpenPageKeeps, BeginKeeps, CreateAccountKeeps, SwapAccountKeeps, InsertAccountKeeps,
           RereadKeeps, RetrieveKeeps, NoteFlagsKeeps, VisitFailsKeeps, DeployKeeps DEF ConnectNext

\* However connecting, refreshing and replacing overlap, a studio is shown as
\* ready only with what Stripe said of its own account, and the row's mode is
\* that account's.
THEOREM AccountSpeaksForItself == ConnectSpec => []StripeConnectSafe
<1>1. ConnectInv => ConnectTypeOK
  BY DEF ConnectInv, VisitShapes, ConnectTypeOK, LinkedRows, StripeAccounts, VisitRows, VisitSteps
<1>2. ConnectInv => ReadyIsItsOwn
  BY DEF ConnectInv, ReadyKept, ReadyIsItsOwn, VisitShapes, LinkedRows
<1>3. ConnectInv => ModeOfItsAccount
  BY DEF ConnectInv, ModeKept, ModeOfItsAccount
<1>4. ConnectInv => StripeConnectSafe
  BY <1>1, <1>2, <1>3 DEF StripeConnectSafe
<1> QED BY ConnectStart, ConnectInvStep, <1>4, PTL DEF ConnectSpec

-----------------------------------------------------------------------------
(* Delivery receipts (module DeliveryReceipts).                            *)

AllStatuses == {"none", "queued", "sending", "sent", "delivered", "failed"}
Reports == {"queued", "sending", "sent", "delivered", "failed"}
MessageRows == [there : BOOLEAN, sid : BOOLEAN, status : AllStatuses]
ReportPlaces == {"none", "due", "found", "applied", "unmatched"}

LEMMA StatusSets ==
    /\ DOMAIN StatusRank = AllStatuses /\ Statuses = Reports /\ Terminal \subseteq Reports
    /\ \A s \in AllStatuses : StatusRank[s] \in 0 .. 4
    /\ StatusRank["none"] = 0
    /\ \A s \in Terminal, u \in AllStatuses : StatusRank[s] >= StatusRank[u]
BY DEF StatusRank, AllStatuses, Statuses, Reports, Terminal

TextShapes ==
    /\ kindOf \in [Texts -> {"reply", "job", "staff"}]
    /\ sender \in [Texts -> {"ready", "sent", "done"}]
    /\ reported \in [Texts -> SUBSET Reports]
    /\ row \in [Texts -> MessageRows]
    /\ callback \in [Texts -> [Reports -> ReportPlaces]]

\* A job's or manual text is not found before its sender is done; a reply always is,
\* and once a last report was answered it shows how it ended.
TextKnows(t) ==
    /\ kindOf[t] # "reply" /\ sender[t] # "done" =>
          /\ row[t].sid = FALSE /\ row[t].status = "none"
          /\ \A s \in Reports : callback[t][s] \notin {"found", "applied"}
    /\ kindOf[t] = "reply" =>
          /\ row[t].there = TRUE
          /\ \A s \in Reports : callback[t][s] # "unmatched"
          /\ \A s \in Terminal : callback[t][s] = "applied" => row[t].status \in Terminal

ReceiptInv == TextShapes /\ \A t \in Texts : TextKnows(t)

\* What a step leaves of a text's status.
StatusHolds(t) ==
    /\ StatusRank[row'[t].status] >= StatusRank[row[t].status]
    /\ row[t].status \in Terminal => row'[t].status = row[t].status

LEMMA ReceiptStart == ReceiptInit => ReceiptInv
<1> SUFFICES ASSUME ReceiptInit PROVE ReceiptInv
  OBVIOUS
<1>1. kindOf \in [Texts -> {"reply", "job", "staff"}]
  BY ReceiptBounds DEF ReceiptInit
<1>2. \A t \in Texts : (kindOf[t] # "staff") \in BOOLEAN
  OBVIOUS
<1>3. row \in [Texts -> MessageRows]
  BY <1>2 DEF ReceiptInit, MessageRows, AllStatuses
<1>4. TextShapes
  BY <1>1, <1>3, StatusSets DEF ReceiptInit, TextShapes, Reports, ReportPlaces
<1>5. ASSUME NEW t \in Texts PROVE TextKnows(t)
  <2>1. row[t].sid = FALSE /\ row[t].status = "none"
    BY DEF ReceiptInit
  <2>2. \A s \in Reports : callback[t][s] = "none"
    BY StatusSets DEF ReceiptInit
  <2>3. kindOf[t] = "reply" => row[t].there = (kindOf[t] # "staff")
    BY DEF ReceiptInit
  <2>4. kindOf[t] = "reply" => (kindOf[t] # "staff") = TRUE
    BY Zenon
  <2>5. kindOf[t] = "reply" => row[t].there = TRUE
    BY <2>3, <2>4
  <2> QED BY <2>1, <2>2, <2>5, StatusSets DEF TextKnows
<1> QED BY <1>4, <1>5 DEF ReceiptInv

LEMMA TextStays == ASSUME ReceiptInv, NEW t \in Texts, row'[t] = row[t] PROVE StatusHolds(t)
<1>1. row[t].status \in AllStatuses
  BY DEF ReceiptInv, TextShapes, MessageRows
<1>2. StatusRank[row[t].status] \in 0 .. 4
  BY <1>1, StatusSets
<1>3. StatusRank[row'[t].status] = StatusRank[row[t].status]
  OBVIOUS
<1> QED BY <1>2, <1>3 DEF StatusHolds

\* One text's step: it suffices to look at that text.
LEMMA OneText ==
    ASSUME ReceiptInv, NEW t \in Texts, kindOf' = kindOf, TextShapes',
           \A u \in Texts : u # t => /\ sender'[u] = sender[u] /\ row'[u] = row[u]
                                     /\ callback'[u] = callback[u],
           TextKnows(t)', StatusHolds(t)
    PROVE  ReceiptInv' /\ \A u \in Texts : StatusHolds(u)
<1>1. \A u \in Texts : u # t => TextKnows(u)'
  BY DEF ReceiptInv, TextKnows
<1>2. \A u \in Texts : u # t => StatusHolds(u)
  BY TextStays
<1> QED BY <1>1, <1>2 DEF ReceiptInv

LEMMA SendTextHolds == ASSUME ReceiptInv, NEW t \in Texts, SendText(t)
                       PROVE  ReceiptInv' /\ \A u \in Texts : StatusHolds(u)
<1> USE DEF SendText
<1>1. TextShapes'
  BY StatusSets DEF ReceiptInv, TextShapes, Reports, ReportPlaces
<1>2. TextKnows(t)'
  BY StatusSets DEF ReceiptInv, TextShapes, TextKnows, Reports, Terminal
<1> QED BY <1>1, <1>2, OneText, TextStays DEF ReceiptInv, TextShapes

LEMMA CarrierReportsHolds == ASSUME ReceiptInv, NEW t \in Texts, CarrierReports(t)
                             PROVE  ReceiptInv' /\ \A u \in Texts : StatusHolds(u)
<1>1. PICK s \in Reports : /\ reported' = [reported EXCEPT ![t] = @ \cup {s}]
                           /\ callback' = [callback EXCEPT ![t][s] = "due"]
                           /\ UNCHANGED <<kindOf, sender, row>>
  BY StatusSets DEF CarrierReports
<1>2. TextShapes'
  BY <1>1 DEF ReceiptInv, TextShapes, ReportPlaces
<1>3. TextKnows(t)'
  BY <1>1, StatusSets DEF ReceiptInv, TextShapes, TextKnows
<1> QED BY <1>1, <1>2, <1>3, OneText, TextStays DEF ReceiptInv, TextShapes

LEMMA StoreAnswerHolds == ASSUME ReceiptInv, NEW t \in Texts, StoreAnswer(t)
                          PROVE  ReceiptInv' /\ \A u \in Texts : StatusHolds(u)
<1> DEFINE new == [there |-> TRUE, sid |-> TRUE,
                   status |-> IF kindOf[t] = "reply" THEN row[t].status ELSE "queued"]
<1>1. /\ row' = [row EXCEPT ![t] = new] /\ sender' = [sender EXCEPT ![t] = "done"] /\ sender[t] = "sent"
      /\ UNCHANGED <<kindOf, reported, callback>>
  BY DEF StoreAnswer
<1>2. new \in MessageRows /\ new.there = TRUE
      /\ new.status = IF kindOf[t] = "reply" THEN row[t].status ELSE "queued"
  BY DEF ReceiptInv, TextShapes, MessageRows, AllStatuses
<1> HIDE DEF new
<1>3. row' \in [Texts -> MessageRows] /\ row'[t] = new
  BY <1>1, <1>2 DEF ReceiptInv, TextShapes
<1>4. TextShapes'
  BY <1>1, <1>3 DEF ReceiptInv, TextShapes
<1>5. TextKnows(t)'
  BY <1>1, <1>2, <1>3 DEF ReceiptInv, TextShapes, TextKnows
<1>6. StatusHolds(t)
  <2>1. CASE kindOf[t] = "reply"
    BY <1>2, <1>3, <2>1, StatusSets DEF ReceiptInv, TextShapes, MessageRows, StatusHolds
  <2>2. CASE kindOf[t] # "reply"
    <3>1. row[t].status = "none" /\ row'[t].status = "queued"
      BY <1>1, <1>2, <1>3, <2>2 DEF ReceiptInv, TextKnows
    <3> QED BY <3>1 DEF StatusHolds, StatusRank, Terminal
  <2> QED BY <2>1, <2>2
<1> QED BY <1>1, <1>4, <1>5, <1>6, OneText DEF ReceiptInv, TextShapes

\* A callback that moves on without touching the message.
LEMMA CallbackMoves ==
    ASSUME ReceiptInv, NEW t \in Texts, NEW s \in Reports, NEW place \in ReportPlaces,
           callback' = [callback EXCEPT ![t][s] = place],
           UNCHANGED <<kindOf, sender, reported, row>>,
           kindOf[t] # "reply" /\ sender[t] # "done" => place \notin {"found", "applied"},
           kindOf[t] = "reply" => place \notin {"applied", "unmatched"}
    PROVE  ReceiptInv' /\ \A u \in Texts : StatusHolds(u)
<1>1. TextShapes'
  BY DEF ReceiptInv, TextShapes
<1>2. TextKnows(t)'
  BY StatusSets DEF ReceiptInv, TextShapes, TextKnows
<1> QED BY <1>1, <1>2, OneText, TextStays DEF ReceiptInv, TextShapes

LEMMA LookupHolds ==
    ASSUME ReceiptInv, NEW t \in Texts, NEW s \in Reports,
           FindMessage(t, s) \/ GiveUpCallback(t, s) \/ Redeliver(t, s)
    PROVE  ReceiptInv' /\ \A u \in Texts : StatusHolds(u)
<1>1. CASE FindMessage(t, s)
  <2>1. kindOf[t] # "reply" => sender[t] = "done"
    BY <1>1 DEF FindMessage, Found, ReceiptInv, TextKnows
  <2> QED BY <1>1, <2>1, CallbackMoves DEF FindMessage, ReportPlaces
<1>2. CASE GiveUpCallback(t, s)
  <2>1. kindOf[t] # "reply"
    BY <1>2 DEF GiveUpCallback, Found, ReceiptInv, TextKnows
  <2> QED BY <1>2, <2>1, CallbackMoves DEF GiveUpCallback, ReportPlaces
<1>3. CASE Redeliver(t, s)
  BY <1>3, CallbackMoves DEF Redeliver, ReportPlaces
<1> QED BY <1>1, <1>2, <1>3

LEMMA ApplyStatusHolds == ASSUME ReceiptInv, NEW t \in Texts, NEW s \in Reports, ApplyStatus(t, s)
                          PROVE  ReceiptInv' /\ \A u \in Texts : StatusHolds(u)
<1>1. /\ callback' = [callback EXCEPT ![t][s] = "applied"] /\ callback[t][s] = "found"
      /\ UNCHANGED <<kindOf, sender, reported>>
  BY DEF ApplyStatus
<1>2. kindOf[t] # "reply" => sender[t] = "done"
  BY <1>1 DEF ReceiptInv, TextKnows
<1>3. row[t] \in MessageRows /\ s \in AllStatuses
  BY DEF ReceiptInv, TextShapes, Reports, AllStatuses
<1>4. CASE row' = row /\ ~MayApply(row[t].status, s)
  <2>1. TextShapes'
    BY <1>1, <1>4 DEF ReceiptInv, TextShapes, ReportPlaces
  <2>2. s \in Terminal => row[t].status \in Terminal
    BY <1>3, <1>4, StatusSets DEF MayApply, MessageRows
  <2>3. TextKnows(t)'
    BY <1>1, <1>2, <1>4, <2>2, StatusSets DEF ReceiptInv, TextShapes, TextKnows
  <2> QED BY <1>1, <1>4, <2>1, <2>3, OneText, TextStays DEF ReceiptInv, TextShapes
<1>5. CASE row' = [row EXCEPT ![t].status = s, ![t].sid = TRUE] /\ MayApply(row[t].status, s)
  <2> DEFINE new == [row[t] EXCEPT !.status = s, !.sid = TRUE]
  <2>1. new \in MessageRows /\ new.there = row[t].there /\ new.status = s
    BY <1>3 DEF MessageRows
  <2>2. row' = [row EXCEPT ![t] = new]
    BY <1>5 DEF ReceiptInv, TextShapes, MessageRows
  <2> HIDE DEF new
  <2>3. row' \in [Texts -> MessageRows] /\ row'[t] = new
    BY <2>1, <2>2 DEF ReceiptInv, TextShapes
  <2>4. TextShapes'
    BY <1>1, <2>3 DEF ReceiptInv, TextShapes, ReportPlaces
  <2>5. row[t].status \notin Terminal /\ StatusRank[s] >= StatusRank[row[t].status]
    BY <1>5 DEF MayApply
  <2>6. kindOf[t] = "reply" => \A u \in Terminal : u # s => callback[t][u] # "applied"
    BY <2>5 DEF ReceiptInv, TextKnows
  <2>7. TextKnows(t)'
    BY <1>1, <1>2, <2>1, <2>3, <2>6, StatusSets DEF ReceiptInv, TextShapes, TextKnows
  <2>8. StatusHolds(t)
    BY <2>1, <2>3, <2>5 DEF StatusHolds
  <2> QED BY <1>1, <2>2, <2>4, <2>7, <2>8, OneText DEF ReceiptInv, TextShapes
<1> QED BY <1>4, <1>5 DEF ApplyStatus

LEMMA ReceiptStep ==
    ASSUME ReceiptInv, [ReceiptNext]_rvars
    PROVE  ReceiptInv' /\ \A u \in Texts : StatusHolds(u)
<1>1. CASE UNCHANGED rvars
  BY <1>1, TextStays DEF rvars, ReceiptInv, TextShapes, TextKnows
<1>2. CASE ReceiptNext
  BY <1>2, SendTextHolds, CarrierReportsHolds, StoreAnswerHolds, LookupHolds, ApplyStatusHolds,
     StatusSets DEF ReceiptNext
<1> QED BY <1>1, <1>2

\* Whatever order the reports and the senders' own writes come in, no status goes
\* back, a last one stays, and a reply's last report is not lost.
THEOREM ReceiptsKept == ReceiptSpec => ReceiptsSafe
<1>1. ReceiptInv => ReceiptTypeOK /\ FinalReportRecorded
  BY StatusSets DEF ReceiptInv, TextShapes, TextKnows, ReceiptTypeOK, FinalReportRecorded, MessageRows, ReportPlaces
<1>2. ReceiptInv /\ [ReceiptNext]_rvars => ReceiptInv'
  BY ReceiptStep
<1>3. ReceiptInv /\ [ReceiptNext]_rvars =>
         [\A t \in Texts :
            /\ StatusRank[row'[t].status] >= StatusRank[row[t].status]
            /\ row[t].status \in Terminal => row'[t].status = row[t].status]_rvars
  BY ReceiptStep DEF StatusHolds
<1> QED BY ReceiptStart, <1>1, <1>2, <1>3, PTL DEF ReceiptSpec, ReceiptsSafe, NoStatusRegression

-----------------------------------------------------------------------------
(* The studio's numbers (module PhoneNumbers).                             *)

OfficeRows == [pc : OfficeSteps, thing : Things \cup {"ACCOUNT", "none"}, old : BOOLEAN, ok : BOOLEAN,
               order : Offices]
NumberRows == [there : BOOLEAN, bound : BOOLEAN, active : BOOLEAN, primary : BOOLEAN,
               role : {"none", "TEMPORARY", "TEMPORARY_GRACE", "PORTED"}]
Lines == {"temporary", "ported"}
Sold == {"ACCOUNT", "SERVICE", "NUMBER"}
PortStates == {"none", "UPLOADING_DOCUMENT", "CREATING_REQUEST", "IN_REVIEW", "SUBMISSION_ERROR",
               "ACTION_REQUIRED", "COMPLETED_PENDING_INVENTORY", "COMPLETED"}
Intents == {"none", "INTENT", "COMPLETED"}

PhoneShapes ==
    /\ jobs \in OfficeJobs /\ office \in [Offices -> OfficeRows]
    /\ account \in Intents /\ op \in [Things -> Intents] /\ bought \in [Sold -> 0 .. 1]
    /\ service \in BOOLEAN /\ numbers \in [Lines -> NumberRows]
    /\ ports \in [Offices -> PortStates]
    /\ carrier \in [Offices -> {"none", "open", "rejected", "moved"}]
    /\ campaign \in [real : BOOLEAN, known : BOOLEAN]

Buying(o, t) == office[o].pc = "buy" /\ office[o].thing = t

\* What a request at Twilio, or between two of its writes, can rely on.
BuyerKnows(o) ==
    /\ office[o].pc = "buy" => \/ jobs[o] = "account" /\ office[o].thing = "ACCOUNT"
                               \/ jobs[o] = "provision" /\ office[o].thing \in Things
    /\ Buying(o, "ACCOUNT") => account = "INTENT" /\ bought["ACCOUNT"] = 0
    /\ \A t \in {"SERVICE", "NUMBER"} : Buying(o, t) => op[t] = "INTENT" /\ bought[t] = 0
    /\ office[o].pc = "save" => \/ jobs[o] = "account" /\ bought["ACCOUNT"] = 1
                                \/ jobs[o] = "provision" /\ office[o].thing \in Things
    /\ \A t \in {"SERVICE", "NUMBER"} : office[o].pc = "save" /\ office[o].thing = t => bought[t] = 1

ProvisionKnows(o) ==
    jobs[o] = "provision" =>
        /\ office[o].pc \in {"next", "buy", "save", "status"} =>
              /\ account = "COMPLETED" /\ office[o].thing \in Things
              /\ office[o].thing # "SERVICE" => service = TRUE
        /\ office[o].pc = "status" =>
              /\ office[o].thing = "SERVICE" => service = TRUE
              /\ office[o].thing = "NUMBER" => numbers["temporary"].there = TRUE

PorterKnows(o) ==
    /\ office[o].ok = TRUE => campaign.known = TRUE
    /\ jobs[o] = "port" /\ office[o].pc \in {"upload", "create", "submitted"} =>
          service = TRUE /\ campaign.known = TRUE
    /\ jobs[o] = "sync" /\ office[o].pc = "upsert" => service = TRUE
    /\ jobs[o] \in {"sync", "register"} /\ office[o].pc \in {"demote", "promote"} =>
          campaign.known = TRUE /\ numbers["ported"].there = TRUE

\* Two requests are never about to buy the same thing.
BuyersApart ==
    \A o, p \in Offices : \A t \in Sold : Buying(o, t) /\ Buying(p, t) => o = p

\* What was bought, and what an open intent still stands for.
PurchasesKnown ==
    /\ bought["ACCOUNT"] = 1 => account # "none"
    /\ \A t \in {"SERVICE", "NUMBER"} : bought[t] = 1 => op[t] # "none"
    /\ bought["SERVICE"] = 1 => service = TRUE \/ op["SERVICE"] = "INTENT"
    /\ bought["NUMBER"] = 1 => numbers["temporary"].there = TRUE \/ op["NUMBER"] = "INTENT"
    /\ service = TRUE => account = "COMPLETED" /\ bought["SERVICE"] = 1
    /\ numbers["temporary"].there = TRUE => bought["NUMBER"] = 1

LineKnows(n) ==
    /\ numbers[n].there = TRUE <=> numbers[n].role # "none"
    /\ numbers[n].primary = TRUE => numbers[n].there = TRUE
    /\ numbers[n].bound = TRUE => service = TRUE
    /\ numbers[n].active = TRUE => numbers[n].bound = TRUE /\ campaign.known = TRUE

ServiceGoesOn ==
    /\ campaign.known = TRUE => campaign.real = TRUE
    /\ numbers["temporary"].role = "TEMPORARY_GRACE" =>
          numbers["ported"].there = TRUE /\ campaign.known = TRUE
    /\ \A o \in Offices : carrier[o] # "none" => service = TRUE /\ campaign.known = TRUE

PhoneInv ==
    /\ PhoneShapes /\ BuyersApart /\ PurchasesKnown /\ ServiceGoesOn
    /\ \A n \in Lines : LineKnows(n)
    /\ \A o \in Offices : BuyerKnows(o) /\ ProvisionKnows(o) /\ PorterKnows(o)

LEMMA PhoneStart == PhoneInit => PhoneInv
<1> SUFFICES ASSUME PhoneInit PROVE PhoneInv
  OBVIOUS
<1>1. PhoneShapes
  <2>1. office \in [Offices -> OfficeRows]
    BY DEF PhoneInit, OfficeRows, OfficeSteps, Things
  <2>2. numbers \in [Lines -> NumberRows]
    BY DEF PhoneInit, Lines, NumberRows, NoNumber
  <2>3. account \in Intents /\ op \in [Things -> Intents] /\ bought \in [Sold -> 0 .. 1]
    BY DEF PhoneInit, Intents, Sold
  <2>4. ports \in [Offices -> PortStates]
    BY DEF PhoneInit, NoPorts, PortStates
  <2> QED BY <2>1, <2>2, <2>3, <2>4 DEF PhoneInit, PhoneShapes
<1>2. /\ \A o \in Offices : office[o].pc = "idle" /\ office[o].ok = FALSE
      /\ \A n \in Lines : numbers[n] = NoNumber
      /\ \A t \in Sold : bought[t] = 0
  BY DEF PhoneInit, Lines, Sold
<1>3. BuyersApart /\ \A o \in Offices : BuyerKnows(o) /\ ProvisionKnows(o) /\ PorterKnows(o)
  BY <1>2 DEF BuyersApart, BuyerKnows, ProvisionKnows, PorterKnows, Buying
<1>4. PurchasesKnown /\ ServiceGoesOn /\ \A n \in Lines : LineKnows(n)
  BY <1>2 DEF PhoneInit, PurchasesKnown, ServiceGoesOn, LineKnows, NoNumber, Lines, Sold
<1> QED BY <1>1, <1>3, <1>4 DEF PhoneInv

\* A request's own row changes; what the others rely on is left or grows.
LEMMA OthersRely ==
    ASSUME PhoneInv, NEW o \in Offices, NEW p \in Offices, p # o, UNCHANGED jobs,
           office'[p] = office[p],
           account = "COMPLETED" => account' = "COMPLETED",
           Buying(p, "ACCOUNT") => account' = "INTENT" /\ bought'["ACCOUNT"] = 0,
           \A t \in {"SERVICE", "NUMBER"} : Buying(p, t) => op'[t] = "INTENT" /\ bought'[t] = 0,
           \A t \in Sold : bought[t] = 1 => bought'[t] = 1,
           service = TRUE => service' = TRUE, campaign.known = TRUE => campaign'.known = TRUE,
           \A n \in Lines : numbers[n].there = TRUE => numbers'[n].there = TRUE
    PROVE  BuyerKnows(p)' /\ ProvisionKnows(p)' /\ PorterKnows(p)'
<1>1. BuyerKnows(p) /\ ProvisionKnows(p) /\ PorterKnows(p)
  BY DEF PhoneInv
<1>2. BuyerKnows(p)'
  BY <1>1 DEF BuyerKnows, Buying, Sold
<1>3. ProvisionKnows(p)' /\ PorterKnows(p)'
  BY <1>1 DEF ProvisionKnows, PorterKnows, Lines
<1> QED BY <1>2, <1>3

\* One request takes a step: what it has to show for the invariant to be kept.
LEMMA RequestMoves ==
    ASSUME PhoneInv, NEW o \in Offices, UNCHANGED jobs, PhoneShapes',
           \A p \in Offices : p # o => office'[p] = office[p],
           account = "COMPLETED" => account' = "COMPLETED",
           \A p \in Offices : p # o /\ Buying(p, "ACCOUNT") => account' = "INTENT" /\ bought'["ACCOUNT"] = 0,
           \A p \in Offices : \A t \in {"SERVICE", "NUMBER"} :
               p # o /\ Buying(p, t) => op'[t] = "INTENT" /\ bought'[t] = 0,
           \A t \in Sold : bought[t] = 1 => bought'[t] = 1,
           service = TRUE => service' = TRUE, campaign.known = TRUE => campaign'.known = TRUE,
           \A n \in Lines : numbers[n].there = TRUE => numbers'[n].there = TRUE,
           \A t \in Sold : Buying(o, t)' => \A p \in Offices : p # o => ~Buying(p, t),
           BuyerKnows(o)', ProvisionKnows(o)', PorterKnows(o)',
           PurchasesKnown', ServiceGoesOn', \A n \in Lines : LineKnows(n)'
    PROVE  PhoneInv'
<1>1. \A p \in Offices : p # o => BuyerKnows(p)' /\ ProvisionKnows(p)' /\ PorterKnows(p)'
  <2> SUFFICES ASSUME NEW p \in Offices, p # o PROVE BuyerKnows(p)' /\ ProvisionKnows(p)' /\ PorterKnows(p)'
    OBVIOUS
  <2>1. office'[p] = office[p]
    OBVIOUS
  <2>2. Buying(p, "ACCOUNT") => account' = "INTENT" /\ bought'["ACCOUNT"] = 0
    OBVIOUS
  <2>3. \A t \in {"SERVICE", "NUMBER"} : Buying(p, t) => op'[t] = "INTENT" /\ bought'[t] = 0
    OBVIOUS
  <2> QED BY <2>1, <2>2, <2>3, OthersRely
<1>2. BuyersApart'
  BY DEF PhoneInv, BuyersApart, Buying
<1> QED BY <1>1, <1>2 DEF PhoneInv

\* A request's place changes and nothing else in its row.
LEMMA PlaceTurns ==
    ASSUME PhoneInv, NEW o \in Offices, NEW pc \in OfficeSteps, Turn(o, pc)
    PROVE  /\ office' \in [Offices -> OfficeRows] /\ \A p \in Offices : p # o => office'[p] = office[p]
           /\ office'[o].pc = pc /\ office'[o].thing = office[o].thing /\ office'[o].ok = office[o].ok
           /\ office'[o].order = office[o].order
<1>1. office \in [Offices -> OfficeRows]
  BY DEF PhoneInv, PhoneShapes
<1> QED BY <1>1 DEF Turn, OfficeRows

\* A request moves on without having changed what was bought and recorded.
LEMMA QuietMove ==
    ASSUME PhoneInv, NEW o \in Offices, office' \in [Offices -> OfficeRows],
           \A p \in Offices : p # o => office'[p] = office[p], office'[o].pc # "buy",
           UNCHANGED <<jobs, account, op, bought, service, numbers, campaign>>,
           ports' \in [Offices -> PortStates],
           carrier' \in [Offices -> {"none", "open", "rejected", "moved"}],
           \A p \in Offices : carrier'[p] # "none" => service = TRUE /\ campaign.known = TRUE,
           BuyerKnows(o)', ProvisionKnows(o)', PorterKnows(o)'
    PROVE  PhoneInv'
<1>1. PhoneShapes'
  BY DEF PhoneInv, PhoneShapes
<1>2. PurchasesKnown' /\ ServiceGoesOn' /\ \A n \in Lines : LineKnows(n)'
  BY DEF PhoneInv, PurchasesKnown, ServiceGoesOn, LineKnows
<1>3. \A t \in Sold : ~Buying(o, t)'
  BY DEF Buying
<1>4. \A p \in Offices : BuyerKnows(p)
  BY DEF PhoneInv
<1>5. \A p \in Offices : p # o /\ Buying(p, "ACCOUNT") => account' = "INTENT" /\ bought'["ACCOUNT"] = 0
  BY <1>4 DEF BuyerKnows
<1>6. \A p \in Offices : \A t \in {"SERVICE", "NUMBER"} :
         p # o /\ Buying(p, t) => op'[t] = "INTENT" /\ bought'[t] = 0
  BY <1>4 DEF BuyerKnows
<1> QED BY <1>1, <1>2, <1>3, <1>5, <1>6, RequestMoves

\* A request ends, having left the studio's rows as they were.
LEMMA QuietEnd ==
    ASSUME PhoneInv, NEW o \in Offices, Turn(o, "done"),
           UNCHANGED <<jobs, account, op, bought, service, numbers, campaign, carrier>>,
           ports' \in [Offices -> PortStates]
    PROVE  PhoneInv'
<1>1. /\ office' \in [Offices -> OfficeRows] /\ \A p \in Offices : p # o => office'[p] = office[p]
      /\ office'[o].pc = "done" /\ office'[o].ok = office[o].ok
  BY PlaceTurns DEF OfficeSteps
<1>2. BuyerKnows(o)' /\ ProvisionKnows(o)' /\ PorterKnows(o)'
  BY <1>1 DEF BuyerKnows, Buying, ProvisionKnows, PorterKnows, PhoneInv
<1>3. carrier' \in [Offices -> {"none", "open", "rejected", "moved"}]
  BY DEF PhoneInv, PhoneShapes
<1>4. \A p \in Offices : carrier'[p] # "none" => service = TRUE /\ campaign.known = TRUE
  BY DEF PhoneInv, ServiceGoesOn
<1> QED BY <1>1, <1>2, <1>3, <1>4, QuietMove

LEMMA IntendAccountKeeps == ASSUME PhoneInv, NEW o \in Offices, IntendAccount(o) PROVE PhoneInv'
<1>1. CASE account # "none"
  <2>1. Turn(o, "done") /\ UNCHANGED <<jobs, account, op, bought, service, numbers, ports, carrier, campaign>>
    BY <1>1 DEF IntendAccount
  <2> QED BY <2>1, QuietEnd DEF PhoneInv, PhoneShapes
<1>2. CASE account = "none"
  <2>1. /\ jobs[o] = "account" /\ account' = "INTENT"
        /\ office' = [office EXCEPT ![o].pc = "buy", ![o].thing = "ACCOUNT"]
        /\ UNCHANGED <<jobs, op, bought, service, numbers, ports, carrier, campaign>>
    BY <1>2 DEF IntendAccount, Sits
  <2>2. /\ office' \in [Offices -> OfficeRows] /\ \A p \in Offices : p # o => office'[p] = office[p]
        /\ office'[o].pc = "buy" /\ office'[o].thing = "ACCOUNT" /\ office'[o].ok = office[o].ok
    <3>1. office \in [Offices -> OfficeRows]
      BY DEF PhoneInv, PhoneShapes
    <3>2. office'[o] = [office[o] EXCEPT !.pc = "buy", !.thing = "ACCOUNT"]
      BY <2>1, <3>1
    <3>3. office'[o] \in OfficeRows
      BY <3>1, <3>2 DEF OfficeRows, OfficeSteps
    <3> QED BY <2>1, <3>1, <3>2, <3>3 DEF OfficeRows
  <2>3. bought["ACCOUNT"] = 0 /\ service = FALSE
    BY <1>2 DEF PhoneInv, PurchasesKnown, PhoneShapes, Sold
  <2>4. \A p \in Offices : BuyerKnows(p) /\ PorterKnows(p) /\ ~Buying(p, "ACCOUNT")
    BY <1>2 DEF PhoneInv, BuyerKnows
  <2>5. BuyerKnows(o)' /\ ProvisionKnows(o)' /\ PorterKnows(o)'
    BY <2>1, <2>2, <2>3, <2>4 DEF BuyerKnows, ProvisionKnows, PorterKnows, Buying
  <2>6. PhoneShapes'
    BY <2>1, <2>2 DEF PhoneInv, PhoneShapes, Intents
  <2>7. PurchasesKnown' /\ ServiceGoesOn' /\ \A n \in Lines : LineKnows(n)'
    BY <2>1, <2>3 DEF PhoneInv, PurchasesKnown, ServiceGoesOn, LineKnows
  <2>8. \A t \in Sold : Buying(o, t)' => \A p \in Offices : p # o => ~Buying(p, t)
    BY <2>2, <2>4 DEF Buying
  <2>9. \A p \in Offices : \A t \in {"SERVICE", "NUMBER"} :
           p # o /\ Buying(p, t) => op'[t] = "INTENT" /\ bought'[t] = 0
    BY <2>1, <2>4 DEF BuyerKnows
  <2> QED BY <1>2, <2>1, <2>2, <2>4, <2>5, <2>6, <2>7, <2>8, <2>9, RequestMoves
<1> QED BY <1>1, <1>2

LEMMA ReadResourcesKeeps == ASSUME PhoneInv, NEW o \in Offices, ReadResources(o) PROVE PhoneInv'
<1> DEFINE primary == {n \in DOMAIN numbers : numbers[n].primary}
           pc == IF account = "COMPLETED" /\ ~(service /\ \E n \in primary : numbers[n].bound) THEN "next" ELSE "done"
           thing == IF ~service THEN "SERVICE" ELSE IF primary = {} THEN "NUMBER" ELSE "ASSOCIATE"
<1>1. /\ jobs[o] = "provision"
      /\ office' = [office EXCEPT ![o].pc = pc, ![o].thing = thing, ![o].old = (primary # {})]
      /\ UNCHANGED <<jobs, account, op, bought, service, numbers, ports, carrier, campaign>>
  BY DEF ReadResources, Sits
<1>2. /\ pc \in {"next", "done"} /\ (pc = "next" => account = "COMPLETED")
      /\ thing \in Things /\ (thing # "SERVICE" => service = TRUE) /\ (primary # {}) \in BOOLEAN
  BY DEF Things, PhoneInv, PhoneShapes
<1> HIDE DEF pc, thing, primary
<1>3. /\ office' \in [Offices -> OfficeRows] /\ \A p \in Offices : p # o => office'[p] = office[p]
      /\ office'[o].pc = pc /\ office'[o].thing = thing /\ office'[o].ok = office[o].ok
  <2>1. office \in [Offices -> OfficeRows]
    BY DEF PhoneInv, PhoneShapes
  <2>2. office'[o] = [office[o] EXCEPT !.pc = pc, !.thing = thing, !.old = (primary # {})]
    BY <1>1, <2>1
  <2>3. office'[o] \in OfficeRows
    BY <1>2, <2>1, <2>2 DEF OfficeRows, OfficeSteps
  <2> QED BY <1>1, <2>1, <2>2, <2>3 DEF OfficeRows
<1>4. BuyerKnows(o)' /\ ProvisionKnows(o)' /\ PorterKnows(o)'
  BY <1>1, <1>2, <1>3 DEF BuyerKnows, Buying, ProvisionKnows, PorterKnows, PhoneInv
<1>5. /\ ports' \in [Offices -> PortStates] /\ carrier' \in [Offices -> {"none", "open", "rejected", "moved"}]
      /\ \A p \in Offices : carrier'[p] # "none" => service = TRUE /\ campaign.known = TRUE
  BY <1>1 DEF PhoneInv, PhoneShapes, ServiceGoesOn
<1> QED BY <1>1, <1>2, <1>3, <1>4, <1>5, QuietMove

LEMMA ClaimStepKeeps == ASSUME PhoneInv, NEW o \in Offices, ClaimStep(o) PROVE PhoneInv'
<1> DEFINE t == office[o].thing
<1>1. CASE ~Unintended(t)
  <2>1. Turn(o, "done") /\ UNCHANGED <<jobs, account, op, bought, service, numbers, ports, carrier, campaign>>
    BY <1>1 DEF ClaimStep
  <2> QED BY <2>1, QuietEnd DEF PhoneInv, PhoneShapes
<1>2. CASE Unintended(t)
  <2>1. /\ jobs[o] = "provision" /\ office[o].pc = "next" /\ op[t] = "none"
        /\ op' = [op EXCEPT ![t] = "INTENT"] /\ Turn(o, "buy")
        /\ UNCHANGED <<jobs, account, bought, service, numbers, ports, carrier, campaign>>
    BY <1>2 DEF ClaimStep, Sits, Unintended
  <2>2. /\ office' \in [Offices -> OfficeRows] /\ \A p \in Offices : p # o => office'[p] = office[p]
        /\ office'[o].pc = "buy" /\ office'[o].thing = t /\ office'[o].ok = office[o].ok
    BY <2>1, PlaceTurns DEF OfficeSteps
  <2>3. t \in Things /\ account = "COMPLETED" /\ (t # "SERVICE" => service = TRUE)
    BY <2>1 DEF PhoneInv, ProvisionKnows
  <2>4. op'[t] = "INTENT" /\ op' \in [Things -> Intents] /\ \A u \in Things \ {t} : op'[u] = op[u]
    BY <2>1, <2>3 DEF PhoneInv, PhoneShapes, Intents
  <2>5. t \in {"SERVICE", "NUMBER"} => bought[t] = 0
    BY <2>1 DEF PhoneInv, PurchasesKnown, PhoneShapes, Sold
  <2>6. \A p \in Offices : BuyerKnows(p) /\ PorterKnows(p) /\ (t \in {"SERVICE", "NUMBER"} => ~Buying(p, t))
    BY <2>1 DEF PhoneInv, BuyerKnows
  <2>7. BuyerKnows(o)' /\ ProvisionKnows(o)' /\ PorterKnows(o)'
    <3>1. BuyerKnows(o)'
      BY <2>1, <2>2, <2>3, <2>4, <2>5 DEF BuyerKnows, Buying, Things
    <3>2. ProvisionKnows(o)' /\ PorterKnows(o)'
      BY <2>1, <2>2, <2>3, <2>6 DEF ProvisionKnows, PorterKnows
    <3> QED BY <3>1, <3>2
  <2>8. PhoneShapes'
    BY <2>1, <2>2, <2>4 DEF PhoneInv, PhoneShapes
  <2>9. PurchasesKnown' /\ ServiceGoesOn' /\ \A n \in Lines : LineKnows(n)'
    <3>1. \A u \in {"SERVICE", "NUMBER"} : /\ bought[u] = 1 => op[u] # "none"
                                           /\ op[u] # "none" => op'[u] = op[u]
      BY <2>1, <2>4 DEF PhoneInv, PurchasesKnown, Things
    <3> QED BY <2>1, <3>1 DEF PhoneInv, PurchasesKnown, ServiceGoesOn, LineKnows
  <2>10. \A u \in Sold : Buying(o, u)' => \A p \in Offices : p # o => ~Buying(p, u)
    BY <2>2, <2>3, <2>6 DEF Buying, Sold, Things
  <2>11. \A p \in Offices : \A u \in {"SERVICE", "NUMBER"} :
           p # o /\ Buying(p, u) => op'[u] = "INTENT" /\ bought'[u] = 0
    BY <2>1, <2>4, <2>6 DEF BuyerKnows, Things
  <2>12. \A p \in Offices : p # o /\ Buying(p, "ACCOUNT") => account' = "INTENT" /\ bought'["ACCOUNT"] = 0
    BY <2>1, <2>6 DEF BuyerKnows
  <2> QED BY <2>1, <2>2, <2>7, <2>8, <2>9, <2>10, <2>11, <2>12, RequestMoves
<1> QED BY <1>1, <1>2

LEMMA BuyKeeps == ASSUME PhoneInv, NEW o \in Offices, Buy(o) PROVE PhoneInv'
<1> DEFINE t == office[o].thing
<1>1. /\ office[o].pc = "buy" /\ UNCHANGED <<jobs, account, op, service, numbers, ports, carrier, campaign>>
      /\ bought' = IF t = "ASSOCIATE" THEN bought ELSE [bought EXCEPT ![t] = @ + 1]
  BY DEF Buy
<1>2. PICK pc \in {"save", "done"} : Turn(o, pc)
  BY DEF Buy
<1>3. /\ office' \in [Offices -> OfficeRows] /\ \A p \in Offices : p # o => office'[p] = office[p]
      /\ office'[o].pc = pc /\ office'[o].thing = t /\ office'[o].ok = office[o].ok
  BY <1>2, PlaceTurns DEF OfficeSteps
<1>4. BuyerKnows(o) /\ (t \in Sold => bought[t] = 0 /\ Buying(o, t)) /\ t \in Things \cup {"ACCOUNT"}
  BY <1>1 DEF PhoneInv, BuyerKnows, Buying, Sold, Things
<1>5. /\ bought' \in [Sold -> 0 .. 1] /\ (t \in Sold => bought'[t] = 1)
      /\ \A u \in Sold : u # t => bought'[u] = bought[u]
  BY <1>1, <1>4 DEF PhoneInv, PhoneShapes, Sold, Things
<1>6. \A p \in Offices : p # o => BuyerKnows(p) /\ (t \in Sold => ~Buying(p, t))
  BY <1>4 DEF PhoneInv, BuyersApart
<1>7. BuyerKnows(o)'
  BY <1>1, <1>3, <1>4, <1>5 DEF BuyerKnows, Buying, Sold, Things
<1>8. ProvisionKnows(o)' /\ PorterKnows(o)'
  BY <1>1, <1>3 DEF PhoneInv, ProvisionKnows, PorterKnows
<1>9. PhoneShapes'
  BY <1>1, <1>3, <1>5 DEF PhoneInv, PhoneShapes
<1>10. PurchasesKnown'
  BY <1>1, <1>4, <1>5 DEF PhoneInv, PurchasesKnown, BuyerKnows, Buying, Sold, Things
<1>11. ServiceGoesOn' /\ \A n \in Lines : LineKnows(n)'
  BY <1>1 DEF PhoneInv, ServiceGoesOn, LineKnows
<1>12. \A u \in Sold : ~Buying(o, u)'
  BY <1>3 DEF Buying
<1>13. /\ \A p \in Offices : \A u \in {"SERVICE", "NUMBER"} :
             p # o /\ Buying(p, u) => op'[u] = "INTENT" /\ bought'[u] = 0
       /\ \A p \in Offices : p # o /\ Buying(p, "ACCOUNT") => account' = "INTENT" /\ bought'["ACCOUNT"] = 0
  BY <1>1, <1>5, <1>6 DEF BuyerKnows, Sold
<1>14. \A u \in Sold : bought[u] = 1 => bought'[u] = 1
  BY <1>4, <1>5
<1> QED BY <1>1, <1>3, <1>7, <1>8, <1>9, <1>10, <1>11, <1>12, <1>13, <1>14, RequestMoves

LEMMA RefusedKeeps == ASSUME PhoneInv, NEW o \in Offices, Refused(o) PROVE PhoneInv'
<1>1. Turn(o, "done") /\ UNCHANGED <<jobs, account, op, bought, service, numbers, ports, carrier, campaign>>
  BY DEF Refused
<1> QED BY <1>1, QuietEnd DEF PhoneInv, PhoneShapes

\* The request leaves the purchases and their intents alone, and does not go to buy.
LEMMA RowsMove ==
    ASSUME PhoneInv, NEW o \in Offices, office' \in [Offices -> OfficeRows],
           \A p \in Offices : p # o => office'[p] = office[p], office'[o].pc # "buy",
           UNCHANGED <<jobs, account, op, bought, ports, carrier>>,
           service' \in BOOLEAN, numbers' \in [Lines -> NumberRows],
           campaign' \in [real : BOOLEAN, known : BOOLEAN],
           service = TRUE => service' = TRUE, campaign.known = TRUE => campaign'.known = TRUE,
           \A n \in Lines : numbers[n].there = TRUE => numbers'[n].there = TRUE,
           service' = TRUE => account = "COMPLETED" /\ bought["SERVICE"] = 1,
           numbers'["temporary"].there = TRUE => bought["NUMBER"] = 1,
           BuyerKnows(o)', ProvisionKnows(o)', PorterKnows(o)',
           ServiceGoesOn', \A n \in Lines : LineKnows(n)'
    PROVE  PhoneInv'
<1>1. PhoneShapes'
  BY DEF PhoneInv, PhoneShapes
<1>2. PurchasesKnown'
  BY DEF PhoneInv, PurchasesKnown, Lines
<1>3. \A t \in Sold : ~Buying(o, t)'
  BY DEF Buying
<1>4. \A p \in Offices : BuyerKnows(p)
  BY DEF PhoneInv
<1>5. \A p \in Offices : p # o /\ Buying(p, "ACCOUNT") => account' = "INTENT" /\ bought'["ACCOUNT"] = 0
  BY <1>4 DEF BuyerKnows
<1>6. \A p \in Offices : \A t \in {"SERVICE", "NUMBER"} :
         p # o /\ Buying(p, t) => op'[t] = "INTENT" /\ bought'[t] = 0
  BY <1>4 DEF BuyerKnows
<1> QED BY <1>1, <1>2, <1>3, <1>5, <1>6, RequestMoves

LEMMA SaveAccountKeeps == ASSUME PhoneInv, NEW o \in Offices, SaveAccount(o) PROVE PhoneInv'
<1>1. /\ jobs[o] = "account" /\ office[o].pc = "save" /\ account' = "COMPLETED" /\ Turn(o, "done")
      /\ UNCHANGED <<jobs, op, bought, service, numbers, ports, carrier, campaign>>
  BY DEF SaveAccount, Sits
<1>2. /\ office' \in [Offices -> OfficeRows] /\ \A p \in Offices : p # o => office'[p] = office[p]
      /\ office'[o].pc = "done" /\ office'[o].ok = office[o].ok
  BY <1>1, PlaceTurns DEF OfficeSteps
<1>3. bought["ACCOUNT"] = 1
  BY <1>1 DEF PhoneInv, BuyerKnows
<1>4. BuyerKnows(o)' /\ ProvisionKnows(o)' /\ PorterKnows(o)'
  BY <1>1, <1>2 DEF PhoneInv, BuyerKnows, ProvisionKnows, PorterKnows, Buying
<1>5. PhoneShapes'
  BY <1>1, <1>2 DEF PhoneInv, PhoneShapes, Intents
<1>6. PurchasesKnown' /\ ServiceGoesOn' /\ \A n \in Lines : LineKnows(n)'
  BY <1>1 DEF PhoneInv, PurchasesKnown, ServiceGoesOn, LineKnows
<1>7. \A t \in Sold : ~Buying(o, t)'
  BY <1>2 DEF Buying
<1>8. /\ \A p \in Offices : ~Buying(p, "ACCOUNT")
      /\ \A p \in Offices : \A t \in {"SERVICE", "NUMBER"} :
             p # o /\ Buying(p, t) => op'[t] = "INTENT" /\ bought'[t] = 0
  BY <1>1, <1>3 DEF PhoneInv, BuyerKnows
<1> QED BY <1>1, <1>2, <1>4, <1>5, <1>6, <1>7, <1>8, RequestMoves

LEMMA SaveThingKeeps == ASSUME PhoneInv, NEW o \in Offices, SaveThing(o) PROVE PhoneInv'
<1> DEFINE t == office[o].thing
<1>1. /\ jobs[o] = "provision" /\ office[o].pc = "save" /\ Turn(o, "status")
      /\ service' = (service \/ t = "SERVICE")
      /\ UNCHANGED <<jobs, account, op, bought, ports, carrier, campaign>>
  BY DEF SaveThing, Sits
<1>2. /\ office' \in [Offices -> OfficeRows] /\ \A p \in Offices : p # o => office'[p] = office[p]
      /\ office'[o].pc = "status" /\ office'[o].thing = t /\ office'[o].ok = office[o].ok
  BY <1>1, PlaceTurns DEF OfficeSteps
<1>3. /\ t \in Things /\ account = "COMPLETED" /\ (t # "SERVICE" => service = TRUE)
      /\ (t \in {"SERVICE", "NUMBER"} => bought[t] = 1)
  BY <1>1 DEF PhoneInv, BuyerKnows, ProvisionKnows
<1>4. /\ service' \in BOOLEAN /\ (service = TRUE => service' = TRUE) /\ service' = TRUE
      /\ bought["SERVICE"] = 1
  BY <1>1, <1>3 DEF PhoneInv, PhoneShapes, PurchasesKnown
<1>5. /\ numbers \in [Lines -> NumberRows] /\ \A n \in Lines : LineKnows(n)
  BY DEF PhoneInv, PhoneShapes
<1>6. /\ numbers' \in [Lines -> NumberRows] /\ \A n \in Lines : LineKnows(n)'
      /\ numbers["ported"].there = numbers'["ported"].there
      /\ numbers["temporary"].there = TRUE => numbers'["temporary"].there = TRUE
      /\ numbers'["temporary"].there = TRUE => bought["NUMBER"] = 1
      /\ t = "NUMBER" => numbers'["temporary"].there = TRUE
      /\ numbers'["temporary"].role = "TEMPORARY_GRACE" => numbers["temporary"].role = "TEMPORARY_GRACE"
  <2>1. CASE t = "NUMBER"
    <3>1. /\ numbers' \in [Lines -> NumberRows]
          /\ numbers'["temporary"] = [there |-> TRUE, bound |-> FALSE, active |-> FALSE, primary |-> TRUE,
                                      role |-> "TEMPORARY"]
          /\ numbers'["ported"] = numbers["ported"]
      BY <1>5, <2>1 DEF SaveThing, Lines, NumberRows
    <3> QED BY <1>1, <1>3, <1>4, <1>5, <2>1, <3>1 DEF LineKnows, Lines
  <2>2. CASE t = "ASSOCIATE"
    <3>1. /\ numbers'["temporary"] = [numbers["temporary"] EXCEPT !.bound = TRUE]
          /\ numbers'["ported"] = numbers["ported"] /\ numbers' \in [Lines -> NumberRows]
      <4>1. numbers' = [numbers EXCEPT !["temporary"].bound = TRUE]
        BY <2>2 DEF SaveThing
      <4>2. [numbers["temporary"] EXCEPT !.bound = TRUE] \in NumberRows
        BY <1>5 DEF Lines, NumberRows
      <4> QED BY <1>5, <4>1, <4>2 DEF Lines
    <3>2. /\ numbers'["temporary"].bound = TRUE
          /\ numbers'["temporary"].there = numbers["temporary"].there
          /\ numbers'["temporary"].primary = numbers["temporary"].primary
          /\ numbers'["temporary"].active = numbers["temporary"].active
          /\ numbers'["temporary"].role = numbers["temporary"].role
      BY <1>5, <3>1 DEF Lines, NumberRows
    <3>3. numbers["temporary"].there = TRUE => bought["NUMBER"] = 1
      BY DEF PhoneInv, PurchasesKnown
    <3>4. UNCHANGED campaign /\ LineKnows("temporary") /\ LineKnows("ported")
      BY <1>1, <1>5 DEF Lines
    <3>5. LineKnows("temporary")'
      BY <1>4, <3>2, <3>4 DEF LineKnows
    <3>6. LineKnows("ported")'
      BY <1>4, <3>1, <3>4 DEF LineKnows
    <3>7. \A n \in Lines : LineKnows(n)'
      BY <3>5, <3>6 DEF Lines
    <3> QED BY <1>1, <2>2, <3>1, <3>2, <3>3, <3>7
  <2>3. CASE t = "SERVICE"
    <3>1. numbers' = numbers
      BY <2>3 DEF SaveThing
    <3> QED BY <1>1, <1>4, <1>5, <2>3, <3>1 DEF LineKnows, PhoneInv, PurchasesKnown
  <2> QED BY <1>3, <2>1, <2>2, <2>3 DEF Things
<1>7. BuyerKnows(o)' /\ ProvisionKnows(o)' /\ PorterKnows(o)'
  BY <1>1, <1>2, <1>3, <1>4, <1>6 DEF PhoneInv, BuyerKnows, ProvisionKnows, PorterKnows, Buying
<1>8. ServiceGoesOn'
  BY <1>1, <1>4, <1>6 DEF PhoneInv, ServiceGoesOn
<1>9. \A n \in Lines : numbers[n].there = TRUE => numbers'[n].there = TRUE
  BY <1>6 DEF Lines
<1> QED BY <1>1, <1>2, <1>3, <1>4, <1>6, <1>7, <1>8, <1>9, RowsMove DEF PhoneInv, PhoneShapes

LEMMA CompleteStepKeeps == ASSUME PhoneInv, NEW o \in Offices, CompleteStep(o) PROVE PhoneInv'
<1> DEFINE t == office[o].thing
           pc == IF t = "ASSOCIATE" THEN "done" ELSE "next"
           after == StepAfter(o, t)
<1>1. /\ jobs[o] = "provision" /\ office[o].pc = "status" /\ op' = [op EXCEPT ![t] = "COMPLETED"]
      /\ office' = [office EXCEPT ![o].pc = pc, ![o].thing = after]
      /\ UNCHANGED <<jobs, account, bought, service, numbers, ports, carrier, campaign>>
  BY DEF CompleteStep, Sits
<1>2. /\ t \in Things /\ account = "COMPLETED" /\ (t # "SERVICE" => service = TRUE)
      /\ (t = "SERVICE" => service = TRUE) /\ (t = "NUMBER" => numbers["temporary"].there = TRUE)
  BY <1>1 DEF PhoneInv, ProvisionKnows
<1>3. after \in Things \cup {"none"} /\ (pc = "next" => after \in Things) /\ pc \in {"next", "done"}
  BY <1>2 DEF Things, StepAfter
<1> HIDE DEF pc, after
<1>4. /\ office' \in [Offices -> OfficeRows] /\ \A p \in Offices : p # o => office'[p] = office[p]
      /\ office'[o].pc = pc /\ office'[o].thing = after /\ office'[o].ok = office[o].ok
  <2>1. office \in [Offices -> OfficeRows]
    BY DEF PhoneInv, PhoneShapes
  <2>2. office'[o] = [office[o] EXCEPT !.pc = pc, !.thing = after]
    BY <1>1, <2>1
  <2>3. office'[o] \in OfficeRows
    BY <1>3, <2>1, <2>2 DEF OfficeRows, OfficeSteps
  <2> QED BY <1>1, <2>1, <2>2, <2>3 DEF OfficeRows
<1>5. op' \in [Things -> Intents] /\ op'[t] = "COMPLETED" /\ \A u \in Things \ {t} : op'[u] = op[u]
  BY <1>1, <1>2 DEF PhoneInv, PhoneShapes, Intents
<1>6. t \in {"SERVICE", "NUMBER"} => bought[t] = 1
  BY <1>2 DEF PhoneInv, PurchasesKnown
<1>7. \A p \in Offices : BuyerKnows(p) /\ (t \in {"SERVICE", "NUMBER"} => ~Buying(p, t))
  BY <1>6 DEF PhoneInv, BuyerKnows
<1>8. BuyerKnows(o)' /\ ProvisionKnows(o)' /\ PorterKnows(o)'
  BY <1>1, <1>2, <1>3, <1>4 DEF PhoneInv, BuyerKnows, ProvisionKnows, PorterKnows, Buying
<1>9. PhoneShapes'
  BY <1>1, <1>4, <1>5 DEF PhoneInv, PhoneShapes
<1>10. PurchasesKnown'
  BY <1>1, <1>2, <1>5 DEF PhoneInv, PurchasesKnown, Things
<1>11. ServiceGoesOn' /\ \A n \in Lines : LineKnows(n)'
  BY <1>1 DEF PhoneInv, ServiceGoesOn, LineKnows
<1>12. \A u \in Sold : ~Buying(o, u)'
  BY <1>3, <1>4 DEF Buying
<1>13. /\ \A p \in Offices : \A u \in {"SERVICE", "NUMBER"} :
             p # o /\ Buying(p, u) => op'[u] = "INTENT" /\ bought'[u] = 0
       /\ \A p \in Offices : p # o /\ Buying(p, "ACCOUNT") => account' = "INTENT" /\ bought'["ACCOUNT"] = 0
  BY <1>1, <1>5, <1>7 DEF BuyerKnows, Things
<1> QED BY <1>1, <1>4, <1>8, <1>9, <1>10, <1>11, <1>12, <1>13, RequestMoves

LEMMA ReviewIntentKeeps == ASSUME PhoneInv, NEW o \in Offices, ReviewIntent(o) PROVE PhoneInv'
<1>1. /\ Turn(o, "done")
      /\ UNCHANGED <<jobs, account, bought, service, numbers, ports, carrier, campaign>>
  BY DEF ReviewIntent
<1>2. PICK t \in Things :
         op' = IF op[t] = "INTENT" /\ Persisted(t) THEN [op EXCEPT ![t] = "COMPLETED"] ELSE op
  BY DEF ReviewIntent
<1>3. CASE ~(op[t] = "INTENT" /\ Persisted(t))
  BY <1>1, <1>2, <1>3, QuietEnd DEF PhoneInv, PhoneShapes
<1>4. CASE op[t] = "INTENT" /\ Persisted(t)
  <2>1. op' \in [Things -> Intents] /\ op'[t] = "COMPLETED" /\ \A u \in Things \ {t} : op'[u] = op[u]
    BY <1>2, <1>4 DEF PhoneInv, PhoneShapes, Intents
  <2>2. (t = "SERVICE" => service = TRUE) /\ (t = "NUMBER" => numbers["temporary"].there = TRUE)
    BY <1>4 DEF Persisted, PhoneInv, PhoneShapes, NumberRows, Lines
  <2>3. /\ office' \in [Offices -> OfficeRows] /\ \A p \in Offices : p # o => office'[p] = office[p]
        /\ office'[o].pc = "done" /\ office'[o].ok = office[o].ok
    BY <1>1, PlaceTurns DEF OfficeSteps
  <2>4. t \in {"SERVICE", "NUMBER"} => bought[t] = 1
    BY <2>2 DEF PhoneInv, PurchasesKnown
  <2>5. \A p \in Offices : BuyerKnows(p) /\ (t \in {"SERVICE", "NUMBER"} => ~Buying(p, t))
    BY <2>4 DEF PhoneInv, BuyerKnows
  <2>6. BuyerKnows(o)' /\ ProvisionKnows(o)' /\ PorterKnows(o)'
    BY <1>1, <2>3 DEF PhoneInv, BuyerKnows, ProvisionKnows, PorterKnows, Buying
  <2>7. PhoneShapes'
    BY <1>1, <2>1, <2>3 DEF PhoneInv, PhoneShapes
  <2>8. PurchasesKnown'
    BY <1>1, <2>1, <2>2 DEF PhoneInv, PurchasesKnown, Things
  <2>9. ServiceGoesOn' /\ \A n \in Lines : LineKnows(n)'
    BY <1>1 DEF PhoneInv, ServiceGoesOn, LineKnows
  <2>10. \A u \in Sold : ~Buying(o, u)'
    BY <2>3 DEF Buying
  <2>11. /\ \A p \in Offices : \A u \in {"SERVICE", "NUMBER"} :
               p # o /\ Buying(p, u) => op'[u] = "INTENT" /\ bought'[u] = 0
         /\ \A p \in Offices : p # o /\ Buying(p, "ACCOUNT") => account' = "INTENT" /\ bought'["ACCOUNT"] = 0
    BY <1>1, <2>1, <2>5 DEF BuyerKnows, Things
  <2> QED BY <1>1, <2>3, <2>6, <2>7, <2>8, <2>9, <2>10, <2>11, RequestMoves
<1> QED BY <1>3, <1>4

LEMMA CampaignApprovedKeeps == ASSUME PhoneInv, CampaignApproved PROVE PhoneInv'
<1>1. /\ campaign' = [campaign EXCEPT !.real = TRUE]
      /\ UNCHANGED <<jobs, office, account, op, bought, service, numbers, ports, carrier>>
  BY DEF CampaignApproved
<1>2. campaign' \in [real : BOOLEAN, known : BOOLEAN] /\ campaign'.real = TRUE /\ campaign'.known = campaign.known
  BY <1>1 DEF PhoneInv, PhoneShapes
<1>3. PhoneShapes'
  BY <1>1, <1>2 DEF PhoneInv, PhoneShapes
<1>4. \A o \in Offices : BuyerKnows(o)' /\ ProvisionKnows(o)' /\ PorterKnows(o)'
  BY <1>1, <1>2 DEF PhoneInv, BuyerKnows, ProvisionKnows, PorterKnows, Buying
<1>5. PurchasesKnown' /\ BuyersApart'
  BY <1>1 DEF PhoneInv, PurchasesKnown, BuyersApart, Buying
<1>6. ServiceGoesOn' /\ \A n \in Lines : LineKnows(n)'
  BY <1>1, <1>2 DEF PhoneInv, ServiceGoesOn, LineKnows
<1> QED BY <1>3, <1>4, <1>5, <1>6 DEF PhoneInv

LEMMA ActivateNumbersKeeps == ASSUME PhoneInv, NEW o \in Offices, ActivateNumbers(o) PROVE PhoneInv'
<1> DEFINE pc == IF numbers["ported"].role = "PORTED" THEN "demote" ELSE "done"
<1>1. /\ jobs[o] = "register" /\ campaign.real /\ Turn(o, pc)
      /\ campaign' = [campaign EXCEPT !.known = TRUE]
      /\ numbers' = [n \in DOMAIN numbers |-> IF numbers[n].bound THEN [numbers[n] EXCEPT !.active = TRUE]
                                              ELSE numbers[n]]
      /\ UNCHANGED <<jobs, account, op, bought, service, ports, carrier>>
  BY DEF ActivateNumbers, Sits
<1>2. /\ office' \in [Offices -> OfficeRows] /\ \A p \in Offices : p # o => office'[p] = office[p]
      /\ office'[o].pc = pc /\ office'[o].ok = office[o].ok
  BY <1>1, PlaceTurns DEF OfficeSteps
<1>3. /\ campaign' \in [real : BOOLEAN, known : BOOLEAN] /\ campaign'.known = TRUE /\ campaign'.real = TRUE
  BY <1>1 DEF PhoneInv, PhoneShapes
<1>4. numbers \in [Lines -> NumberRows] /\ DOMAIN numbers = Lines
  BY DEF PhoneInv, PhoneShapes
<1>5. ASSUME NEW n \in Lines
      PROVE  /\ numbers'[n] \in NumberRows /\ numbers'[n].there = numbers[n].there
             /\ numbers'[n].role = numbers[n].role /\ LineKnows(n)'
  <2>1. numbers[n] \in NumberRows /\ LineKnows(n)
    BY <1>4 DEF PhoneInv
  <2>2. CASE numbers[n].bound
    <3>1. numbers'[n] = [numbers[n] EXCEPT !.active = TRUE]
      BY <1>1, <1>4, <2>2
    <3>2. /\ numbers'[n] \in NumberRows /\ numbers'[n].there = numbers[n].there
          /\ numbers'[n].role = numbers[n].role /\ numbers'[n].bound = TRUE
          /\ numbers'[n].primary = numbers[n].primary /\ numbers[n].bound = TRUE
      BY <2>1, <2>2, <3>1 DEF NumberRows
    <3> QED BY <1>1, <1>3, <2>1, <3>2 DEF LineKnows
  <2>3. CASE ~numbers[n].bound
    <3>1. numbers'[n] = numbers[n]
      BY <1>1, <1>4, <2>3
    <3> QED BY <1>1, <1>3, <2>1, <2>3, <3>1 DEF NumberRows, LineKnows
  <2> QED BY <2>2, <2>3
<1>6. numbers' \in [Lines -> NumberRows]
  BY <1>1, <1>4, <1>5
<1>7. /\ numbers["ported"].role = "PORTED" => numbers'["ported"].there = TRUE
      /\ numbers'["temporary"].there = TRUE => bought["NUMBER"] = 1
      /\ service = TRUE => account = "COMPLETED" /\ bought["SERVICE"] = 1
  BY <1>5 DEF PhoneInv, LineKnows, Lines, PurchasesKnown
<1>8. BuyerKnows(o)' /\ ProvisionKnows(o)' /\ PorterKnows(o)'
  BY <1>1, <1>2, <1>3, <1>7 DEF BuyerKnows, Buying, ProvisionKnows, PorterKnows
<1>9. ServiceGoesOn'
  BY <1>1, <1>3, <1>5 DEF PhoneInv, ServiceGoesOn, Lines
<1> QED BY <1>1, <1>2, <1>3, <1>5, <1>6, <1>7, <1>8, <1>9, RowsMove DEF PhoneInv, PhoneShapes

LEMMA DemoteAllKeeps == ASSUME PhoneInv, NEW o \in Offices, DemoteAll(o) PROVE PhoneInv'
<1>1. /\ jobs[o] = "register" /\ office[o].pc = "demote" /\ Turn(o, "promote")
      /\ numbers' = [n \in DOMAIN numbers |->
           IF numbers[n].bound /\ numbers[n].primary
           THEN [numbers[n] EXCEPT !.primary = FALSE, !.role = "TEMPORARY_GRACE"] ELSE numbers[n]]
      /\ UNCHANGED <<jobs, account, op, bought, service, ports, carrier, campaign>>
  BY DEF DemoteAll, Sits
<1>2. /\ office' \in [Offices -> OfficeRows] /\ \A p \in Offices : p # o => office'[p] = office[p]
      /\ office'[o].pc = "promote" /\ office'[o].ok = office[o].ok
  BY <1>1, PlaceTurns DEF OfficeSteps
<1>3. campaign.known = TRUE /\ numbers["ported"].there = TRUE
  BY <1>1 DEF PhoneInv, PorterKnows
<1>4. numbers \in [Lines -> NumberRows] /\ DOMAIN numbers = Lines
  BY DEF PhoneInv, PhoneShapes
<1>5. ASSUME NEW n \in Lines
      PROVE  /\ numbers'[n] \in NumberRows /\ numbers'[n].there = numbers[n].there /\ LineKnows(n)'
  <2>1. numbers[n] \in NumberRows /\ LineKnows(n)
    BY <1>4 DEF PhoneInv
  <2>2. CASE numbers[n].bound /\ numbers[n].primary
    <3>1. numbers'[n] = [numbers[n] EXCEPT !.primary = FALSE, !.role = "TEMPORARY_GRACE"]
      BY <1>1, <1>4, <2>2
    <3>2. numbers[n].primary = TRUE
      BY <2>1, <2>2 DEF NumberRows
    <3>3. /\ numbers'[n] \in NumberRows /\ numbers'[n].there = numbers[n].there
          /\ numbers'[n].role = "TEMPORARY_GRACE" /\ numbers'[n].bound = numbers[n].bound
          /\ numbers'[n].primary = FALSE /\ numbers'[n].active = numbers[n].active
      BY <2>1, <3>1 DEF NumberRows
    <3> QED BY <1>1, <2>1, <3>2, <3>3 DEF LineKnows
  <2>3. CASE ~(numbers[n].bound /\ numbers[n].primary)
    <3>1. numbers'[n] = numbers[n]
      BY <1>1, <1>4, <2>3
    <3> QED BY <1>1, <2>1, <3>1 DEF NumberRows, LineKnows
  <2> QED BY <2>2, <2>3
<1>6. numbers' \in [Lines -> NumberRows]
  BY <1>1, <1>4, <1>5
<1>7. /\ numbers'["ported"].there = TRUE
      /\ numbers'["temporary"].there = TRUE => bought["NUMBER"] = 1
      /\ service = TRUE => account = "COMPLETED" /\ bought["SERVICE"] = 1
  BY <1>3, <1>5 DEF PhoneInv, Lines, PurchasesKnown
<1>8. BuyerKnows(o)' /\ ProvisionKnows(o)' /\ PorterKnows(o)'
  BY <1>1, <1>2, <1>3, <1>7 DEF PhoneInv, BuyerKnows, Buying, ProvisionKnows, PorterKnows
<1>9. ServiceGoesOn'
  BY <1>1, <1>3, <1>7 DEF PhoneInv, ServiceGoesOn
<1> QED BY <1>1, <1>2, <1>5, <1>6, <1>7, <1>8, <1>9, RowsMove DEF PhoneInv, PhoneShapes

LEMMA PromotePortedKeeps == ASSUME PhoneInv, NEW o \in Offices, PromotePorted(o) PROVE PhoneInv'
<1>1. /\ jobs[o] = "register" /\ office[o].pc = "promote" /\ Turn(o, "done")
      /\ numbers' = [numbers EXCEPT !["ported"].primary = TRUE, !["ported"].role = "PORTED"]
      /\ UNCHANGED <<jobs, account, op, bought, service, ports, carrier, campaign>>
  BY DEF PromotePorted, Sits
<1>2. /\ office' \in [Offices -> OfficeRows] /\ \A p \in Offices : p # o => office'[p] = office[p]
      /\ office'[o].pc = "done" /\ office'[o].ok = office[o].ok
  BY <1>1, PlaceTurns DEF OfficeSteps
<1>3. campaign.known = TRUE /\ numbers["ported"].there = TRUE /\ LineKnows("ported") /\ LineKnows("temporary")
  BY <1>1 DEF PhoneInv, PorterKnows, Lines
<1>4. numbers \in [Lines -> NumberRows] /\ numbers["ported"] \in NumberRows
  BY DEF PhoneInv, PhoneShapes, Lines
<1>5. numbers'["ported"] = [numbers["ported"] EXCEPT !.primary = TRUE, !.role = "PORTED"]
      /\ numbers'["temporary"] = numbers["temporary"]
  BY <1>1, <1>4 DEF Lines
<1>6. /\ numbers'["ported"] \in NumberRows /\ numbers'["ported"].there = TRUE
      /\ numbers'["ported"].bound = numbers["ported"].bound
      /\ numbers'["ported"].active = numbers["ported"].active /\ numbers'["ported"].role = "PORTED"
  BY <1>3, <1>4, <1>5 DEF NumberRows
<1>7. numbers' \in [Lines -> NumberRows]
  BY <1>1, <1>4, <1>6 DEF Lines
<1>8. \A n \in Lines : LineKnows(n)'
  BY <1>1, <1>3, <1>5, <1>6 DEF LineKnows, Lines
<1>9. BuyerKnows(o)' /\ ProvisionKnows(o)' /\ PorterKnows(o)'
  BY <1>1, <1>2, <1>3 DEF PhoneInv, BuyerKnows, Buying, ProvisionKnows, PorterKnows
<1>10. ServiceGoesOn'
  BY <1>1, <1>3, <1>5, <1>6 DEF PhoneInv, ServiceGoesOn
<1>11. /\ numbers'["temporary"].there = TRUE => bought["NUMBER"] = 1
       /\ service = TRUE => account = "COMPLETED" /\ bought["SERVICE"] = 1
       /\ \A n \in Lines : numbers[n].there = TRUE => numbers'[n].there = TRUE
  BY <1>5, <1>6 DEF PhoneInv, PurchasesKnown, Lines
<1> QED BY <1>1, <1>2, <1>7, <1>8, <1>9, <1>10, <1>11, RowsMove DEF PhoneInv, PhoneShapes

LEMMA UpsertPortedKeeps == ASSUME PhoneInv, NEW o \in Offices, UpsertPorted(o) PROVE PhoneInv'
<1> DEFINE pc == IF MaySend(o) THEN "demote" ELSE "status"
<1>1. /\ jobs[o] = "sync" /\ office[o].pc = "upsert" /\ Turn(o, pc)
      /\ numbers' = [numbers EXCEPT !["ported"] =
            [there |-> TRUE, bound |-> TRUE, active |-> office[o].ok, primary |-> office[o].ok, role |-> "PORTED"]]
      /\ UNCHANGED <<jobs, account, op, bought, service, ports, carrier, campaign>>
  BY DEF UpsertPorted, Sits, MaySend
<1>2. /\ office' \in [Offices -> OfficeRows] /\ \A p \in Offices : p # o => office'[p] = office[p]
      /\ office'[o].pc = pc /\ office'[o].ok = office[o].ok /\ office[o].ok \in BOOLEAN
  BY <1>1, PlaceTurns DEF OfficeSteps, PhoneInv, PhoneShapes, OfficeRows
<1>3. service = TRUE /\ (office[o].ok = TRUE => campaign.known = TRUE) /\ LineKnows("temporary")
  BY <1>1 DEF PhoneInv, PorterKnows, Lines
<1>4. numbers \in [Lines -> NumberRows]
  BY DEF PhoneInv, PhoneShapes
<1>5. /\ numbers'["ported"] = [there |-> TRUE, bound |-> TRUE, active |-> office[o].ok, primary |-> office[o].ok,
                               role |-> "PORTED"]
      /\ numbers'["temporary"] = numbers["temporary"]
  BY <1>1, <1>4 DEF Lines
<1>6. numbers' \in [Lines -> NumberRows]
  BY <1>1, <1>2, <1>4, <1>5 DEF Lines, NumberRows
<1>7. LineKnows("ported")' /\ LineKnows("temporary")'
  BY <1>1, <1>3, <1>5 DEF LineKnows
<1>8. \A n \in Lines : LineKnows(n)'
  BY <1>7 DEF Lines
<1>9. BuyerKnows(o)' /\ ProvisionKnows(o)' /\ PorterKnows(o)'
  BY <1>1, <1>2, <1>3, <1>5 DEF MaySend, BuyerKnows, Buying, ProvisionKnows, PorterKnows
<1>10. ServiceGoesOn'
  BY <1>1, <1>5 DEF PhoneInv, ServiceGoesOn
<1>11. /\ numbers'["temporary"].there = TRUE => bought["NUMBER"] = 1
       /\ service = TRUE => account = "COMPLETED" /\ bought["SERVICE"] = 1
       /\ \A n \in Lines : numbers[n].there = TRUE => numbers'[n].there = TRUE
  BY <1>5 DEF PhoneInv, PurchasesKnown, Lines
<1> QED BY <1>1, <1>2, <1>6, <1>8, <1>9, <1>10, <1>11, RowsMove DEF PhoneInv, PhoneShapes

LEMMA RetireTemporaryKeeps == ASSUME PhoneInv, NEW o \in Offices, RetireTemporary(o) PROVE PhoneInv'
<1>1. /\ jobs[o] = "sync" /\ office[o].pc = "demote" /\ Turn(o, "status")
      /\ numbers' = [numbers EXCEPT !["temporary"] =
            IF @.primary THEN [@ EXCEPT !.primary = FALSE, !.role = "TEMPORARY_GRACE"] ELSE @]
      /\ UNCHANGED <<jobs, account, op, bought, service, ports, carrier, campaign>>
  BY DEF RetireTemporary, Sits
<1>2. /\ office' \in [Offices -> OfficeRows] /\ \A p \in Offices : p # o => office'[p] = office[p]
      /\ office'[o].pc = "status" /\ office'[o].ok = office[o].ok
  BY <1>1, PlaceTurns DEF OfficeSteps
<1>3. campaign.known = TRUE /\ numbers["ported"].there = TRUE /\ LineKnows("ported") /\ LineKnows("temporary")
  BY <1>1 DEF PhoneInv, PorterKnows, Lines
<1>4. numbers \in [Lines -> NumberRows] /\ numbers["temporary"] \in NumberRows
  BY DEF PhoneInv, PhoneShapes, Lines
<1>5. /\ numbers'["temporary"] \in NumberRows /\ numbers'["temporary"].there = numbers["temporary"].there
      /\ numbers'["ported"] = numbers["ported"] /\ LineKnows("temporary")'
  <2>1. CASE numbers["temporary"].primary
    <3>1. /\ numbers'["temporary"] = [numbers["temporary"] EXCEPT !.primary = FALSE, !.role = "TEMPORARY_GRACE"]
          /\ numbers'["ported"] = numbers["ported"]
      BY <1>1, <1>4, <2>1 DEF Lines
    <3>2. numbers["temporary"].primary = TRUE
      BY <1>4, <2>1 DEF NumberRows
    <3>3. /\ numbers'["temporary"] \in NumberRows
          /\ numbers'["temporary"].there = numbers["temporary"].there
          /\ numbers'["temporary"].bound = numbers["temporary"].bound
          /\ numbers'["temporary"].active = numbers["temporary"].active
      BY <1>4, <3>1 DEF NumberRows
    <3>4. numbers'["temporary"].primary = FALSE /\ numbers'["temporary"].role = "TEMPORARY_GRACE"
      BY <1>4, <3>1 DEF NumberRows
    <3>5. numbers["temporary"].there = TRUE
      BY <1>3, <3>2 DEF LineKnows
    <3>6. LineKnows("temporary")'
      BY <1>1, <1>3, <3>3, <3>4, <3>5 DEF LineKnows
    <3> QED BY <3>1, <3>3, <3>6
  <2>2. CASE ~numbers["temporary"].primary
    <3>1. numbers'["temporary"] = numbers["temporary"] /\ numbers'["ported"] = numbers["ported"]
      BY <1>1, <1>4, <2>2 DEF Lines
    <3> QED BY <1>1, <1>3, <1>4, <3>1 DEF LineKnows
  <2> QED BY <2>1, <2>2
<1>6. numbers' \in [Lines -> NumberRows]
  BY <1>1, <1>4, <1>5 DEF Lines
<1>7. LineKnows("ported")'
  BY <1>1, <1>3, <1>5 DEF LineKnows
<1>8. \A n \in Lines : LineKnows(n)'
  BY <1>5, <1>7 DEF Lines
<1>9. BuyerKnows(o)' /\ ProvisionKnows(o)' /\ PorterKnows(o)'
  BY <1>1, <1>2, <1>3, <1>5 DEF PhoneInv, BuyerKnows, Buying, ProvisionKnows, PorterKnows
<1>10. ServiceGoesOn'
  BY <1>1, <1>3, <1>5 DEF PhoneInv, ServiceGoesOn
<1>11. /\ numbers'["temporary"].there = TRUE => bought["NUMBER"] = 1
       /\ service = TRUE => account = "COMPLETED" /\ bought["SERVICE"] = 1
       /\ \A n \in Lines : numbers[n].there = TRUE => numbers'[n].there = TRUE
  BY <1>5 DEF PhoneInv, PurchasesKnown, Lines
<1> QED BY <1>1, <1>2, <1>6, <1>8, <1>9, <1>10, <1>11, RowsMove DEF PhoneInv, PhoneShapes

\* A request moves to a place where it neither buys nor provisions, and no order
\* is placed without approval.
LEMMA PortMove ==
    ASSUME PhoneInv, NEW o \in Offices, NEW pc \in OfficeSteps \ {"buy", "save"}, Turn(o, pc),
           UNCHANGED <<jobs, account, op, bought, service, numbers, campaign>>,
           jobs[o] = "port", pc \in {"upload", "create", "submitted"} => service = TRUE /\ campaign.known = TRUE,
           ports' \in [Offices -> PortStates],
           carrier' \in [Offices -> {"none", "open", "rejected", "moved"}],
           \A p \in Offices : carrier'[p] # "none" => service = TRUE /\ campaign.known = TRUE
    PROVE  PhoneInv'
<1>1. /\ office' \in [Offices -> OfficeRows] /\ \A p \in Offices : p # o => office'[p] = office[p]
      /\ office'[o].pc = pc /\ office'[o].ok = office[o].ok
  BY PlaceTurns
<1>2. BuyerKnows(o)' /\ ProvisionKnows(o)' /\ PorterKnows(o)'
  BY <1>1 DEF PhoneInv, BuyerKnows, Buying, ProvisionKnows, PorterKnows
<1> QED BY <1>1, <1>2, QuietMove

LEMMA BeginPortKeeps == ASSUME PhoneInv, NEW o \in Offices, BeginPort(o) PROVE PhoneInv'
<1>1. /\ jobs[o] = "port" /\ UNCHANGED <<jobs, account, op, bought, service, numbers, carrier, campaign>>
  BY DEF BeginPort, Sits
<1>2. CASE service /\ Approved /\ ports' = [ports EXCEPT ![o] = "UPLOADING_DOCUMENT"] /\ Turn(o, "upload")
  <2>1. campaign.known = TRUE /\ service = TRUE
    BY <1>2 DEF Approved, PhoneInv, LineKnows, Lines, PhoneShapes, NumberRows
  <2>2. /\ ports' \in [Offices -> PortStates] /\ carrier' \in [Offices -> {"none", "open", "rejected", "moved"}]
        /\ \A p \in Offices : carrier'[p] # "none" => service = TRUE /\ campaign.known = TRUE
    BY <1>1, <1>2 DEF PhoneInv, PhoneShapes, PortStates, ServiceGoesOn
  <2>3. "upload" \in OfficeSteps \ {"buy", "save"}
    BY DEF OfficeSteps
  <2> QED BY <1>1, <1>2, <2>1, <2>2, <2>3, PortMove
<1>3. CASE Turn(o, "done") /\ UNCHANGED ports
  BY <1>1, <1>3, QuietEnd DEF PhoneInv, PhoneShapes
<1> QED BY <1>2, <1>3 DEF BeginPort

LEMMA UploadBillKeeps == ASSUME PhoneInv, NEW o \in Offices, UploadBill(o) PROVE PhoneInv'
<1>1. /\ jobs[o] = "port" /\ office[o].pc = "upload" /\ Turn(o, "create")
      /\ ports' = [ports EXCEPT ![o] = "CREATING_REQUEST"]
      /\ UNCHANGED <<jobs, account, op, bought, service, numbers, carrier, campaign>>
  BY DEF UploadBill, Sits
<1>2. service = TRUE /\ campaign.known = TRUE
  BY <1>1 DEF PhoneInv, PorterKnows
<1>3. /\ ports' \in [Offices -> PortStates] /\ carrier' \in [Offices -> {"none", "open", "rejected", "moved"}]
      /\ "create" \in OfficeSteps \ {"buy", "save"}
  BY <1>1 DEF PhoneInv, PhoneShapes, PortStates, OfficeSteps
<1> QED BY <1>1, <1>2, <1>3, PortMove

LEMMA PlaceOrderKeeps == ASSUME PhoneInv, NEW o \in Offices, PlaceOrder(o) PROVE PhoneInv'
<1>1. /\ jobs[o] = "port" /\ office[o].pc = "create" /\ carrier' = [carrier EXCEPT ![o] = "open"]
      /\ UNCHANGED <<jobs, account, op, bought, service, numbers, ports, campaign>>
  BY DEF PlaceOrder, Sits
<1>2. PICK pc \in {"submitted", "done"} : Turn(o, pc)
  BY DEF PlaceOrder
<1>3. service = TRUE /\ campaign.known = TRUE
  BY <1>1 DEF PhoneInv, PorterKnows
<1>4. /\ ports' \in [Offices -> PortStates] /\ carrier' \in [Offices -> {"none", "open", "rejected", "moved"}]
      /\ pc \in OfficeSteps \ {"buy", "save"}
  BY <1>1 DEF PhoneInv, PhoneShapes, OfficeSteps
<1> QED BY <1>1, <1>2, <1>3, <1>4, PortMove

LEMMA RecordOrderKeeps == ASSUME PhoneInv, NEW o \in Offices, RecordOrder(o) PROVE PhoneInv'
<1>1. /\ Turn(o, "done") /\ ports' = [ports EXCEPT ![o] = "IN_REVIEW"]
      /\ UNCHANGED <<jobs, account, op, bought, service, numbers, carrier, campaign>>
  BY DEF RecordOrder
<1>2. ports' \in [Offices -> PortStates]
  BY <1>1 DEF PhoneInv, PhoneShapes, PortStates
<1> QED BY <1>1, <1>2, QuietEnd

LEMMA FailPortKeeps == ASSUME PhoneInv, NEW o \in Offices, FailPort(o) PROVE PhoneInv'
<1>1. /\ Turn(o, "done") /\ ports' = [ports EXCEPT ![o] = "SUBMISSION_ERROR"]
      /\ UNCHANGED <<jobs, account, op, bought, service, numbers, carrier, campaign>>
  BY DEF FailPort
<1>2. ports' \in [Offices -> PortStates]
  BY <1>1 DEF PhoneInv, PhoneShapes, PortStates
<1> QED BY <1>1, <1>2, QuietEnd

LEMMA RecordPortKeeps == ASSUME PhoneInv, NEW o \in Offices, RecordPort(o) PROVE PhoneInv'
<1>1. /\ Turn(o, "done")
      /\ ports' = [ports EXCEPT ![office[o].order] =
                      IF office[o].pc = "inventory" THEN "COMPLETED_PENDING_INVENTORY" ELSE "COMPLETED"]
      /\ UNCHANGED <<jobs, account, op, bought, service, numbers, carrier, campaign>>
  BY DEF RecordPort
<1>2. ports' \in [Offices -> PortStates]
  BY <1>1 DEF PhoneInv, PhoneShapes, PortStates
<1> QED BY <1>1, <1>2, QuietEnd

LEMMA OfficeStopsKeeps == ASSUME PhoneInv, NEW o \in Offices, OfficeStops(o) PROVE PhoneInv'
<1>1. /\ Turn(o, "done")
      /\ UNCHANGED <<jobs, account, op, bought, service, numbers, ports, carrier, campaign>>
  BY DEF OfficeStops
<1> QED BY <1>1, QuietEnd DEF PhoneInv, PhoneShapes

LEMMA ReadOrderKeeps == ASSUME PhoneInv, NEW o \in Offices, ReadOrder(o) PROVE PhoneInv'
<1>1. jobs[o] = "sync" /\ UNCHANGED <<jobs, account, op, bought, service, numbers, carrier, campaign>>
  BY DEF ReadOrder, Sits
<1>2. PICK p \in Offices :
        IF carrier[p] = "moved"
        THEN /\ \E pc \in {"upsert", "inventory"} :
                 office' = [office EXCEPT ![o].pc = pc, ![o].order = p, ![o].ok = campaign.known]
             /\ UNCHANGED ports
        ELSE /\ ports' = [ports EXCEPT ![p] = IF carrier[p] = "rejected" THEN "ACTION_REQUIRED" ELSE "IN_REVIEW"]
             /\ Turn(o, "done")
  BY DEF ReadOrder
<1>3. CASE carrier[p] # "moved"
  <2>1. ports' \in [Offices -> PortStates] /\ Turn(o, "done")
    BY <1>2, <1>3 DEF PhoneInv, PhoneShapes, PortStates
  <2> QED BY <1>1, <2>1, QuietEnd
<1>4. CASE carrier[p] = "moved"
  <2>1. PICK pc \in {"upsert", "inventory"} :
           office' = [office EXCEPT ![o].pc = pc, ![o].order = p, ![o].ok = campaign.known]
    BY <1>2, <1>4
  <2>2. service = TRUE /\ campaign.known = TRUE
    BY <1>4 DEF PhoneInv, ServiceGoesOn
  <2>3. office \in [Offices -> OfficeRows]
    BY DEF PhoneInv, PhoneShapes
  <2>4. office'[o] = [office[o] EXCEPT !.pc = pc, !.order = p, !.ok = campaign.known]
    BY <2>1, <2>3
  <2>5. office'[o] \in OfficeRows /\ office'[o].pc = pc
    <3>1. office[o] \in OfficeRows /\ pc \in OfficeSteps
      BY <2>3 DEF OfficeSteps
    <3> QED BY <2>2, <2>4, <3>1 DEF OfficeRows
  <2>6. office' \in [Offices -> OfficeRows] /\ \A q \in Offices : q # o => office'[q] = office[q]
    BY <2>1, <2>3, <2>5
  <2>7. BuyerKnows(o)' /\ ProvisionKnows(o)' /\ PorterKnows(o)'
    BY <1>1, <2>2, <2>5 DEF BuyerKnows, Buying, ProvisionKnows, PorterKnows
  <2>8. /\ ports' \in [Offices -> PortStates] /\ carrier' \in [Offices -> {"none", "open", "rejected", "moved"}]
        /\ \A q \in Offices : carrier'[q] # "none" => service = TRUE /\ campaign.known = TRUE
    BY <1>1, <1>2, <1>4 DEF PhoneInv, PhoneShapes, ServiceGoesOn
  <2> QED BY <1>1, <2>5, <2>6, <2>7, <2>8, QuietMove
<1> QED BY <1>3, <1>4

LEMMA CarrierDecidesKeeps == ASSUME PhoneInv, NEW p \in Offices, CarrierDecides(p) PROVE PhoneInv'
<1>1. /\ carrier[p] = "open" /\ UNCHANGED <<jobs, office, account, op, bought, service, numbers, ports, campaign>>
  BY DEF CarrierDecides
<1>2. PICK s \in {"moved", "rejected"} : carrier' = [carrier EXCEPT ![p] = s]
  BY DEF CarrierDecides
<1>3. PhoneShapes'
  BY <1>1, <1>2 DEF PhoneInv, PhoneShapes
<1>4. \A o \in Offices : BuyerKnows(o)' /\ ProvisionKnows(o)' /\ PorterKnows(o)'
  BY <1>1 DEF PhoneInv, BuyerKnows, ProvisionKnows, PorterKnows, Buying
<1>5. PurchasesKnown' /\ BuyersApart' /\ \A n \in Lines : LineKnows(n)'
  BY <1>1 DEF PhoneInv, PurchasesKnown, BuyersApart, Buying, LineKnows
<1>6. ServiceGoesOn'
  BY <1>1, <1>2 DEF PhoneInv, ServiceGoesOn, PhoneShapes
<1> QED BY <1>3, <1>4, <1>5, <1>6 DEF PhoneInv

LEMMA PhoneStays == ASSUME PhoneInv, UNCHANGED phoneVars PROVE PhoneInv'
<1>1. PhoneShapes' /\ PurchasesKnown' /\ ServiceGoesOn'
  BY DEF phoneVars, PhoneInv, PhoneShapes, PurchasesKnown, ServiceGoesOn
<1>2. BuyersApart' /\ \A n \in Lines : LineKnows(n)'
  BY DEF phoneVars, PhoneInv, BuyersApart, Buying, LineKnows
<1>3. \A o \in Offices : BuyerKnows(o)' /\ ProvisionKnows(o)' /\ PorterKnows(o)'
  BY DEF phoneVars, PhoneInv, BuyerKnows, ProvisionKnows, PorterKnows, Buying
<1> QED BY <1>1, <1>2, <1>3 DEF PhoneInv

LEMMA PhoneStep == ASSUME PhoneInv, [PhoneNext]_phoneVars PROVE PhoneInv'
<1>1. ASSUME NEW o \in Offices, OfficeStep(o) PROVE PhoneInv'
  BY <1>1, IntendAccountKeeps, ReadResourcesKeeps, ClaimStepKeeps, BuyKeeps, RefusedKeeps, SaveAccountKeeps,
     SaveThingKeeps, CompleteStepKeeps, ReviewIntentKeeps, ActivateNumbersKeeps, DemoteAllKeeps,
     PromotePortedKeeps, BeginPortKeeps, UploadBillKeeps, PlaceOrderKeeps, RecordOrderKeeps, FailPortKeeps,
     ReadOrderKeeps, UpsertPortedKeeps, RetireTemporaryKeeps, RecordPortKeeps, OfficeStopsKeeps,
     CarrierDecidesKeeps DEF OfficeStep
<1> QED BY <1>1, PhoneStays, CampaignApprovedKeeps DEF PhoneNext

\* However requests overlap, stop and are repeated: each thing is bought once at
\* most and stays on record or under review; every number a text may be sent from
\* is approved and goes through the messaging service; and the number clients know
\* is not retired, nor an order placed, before another can take over.
THEOREM NumbersInService == PhoneSpec => []PhonesSafe
<1>1. ASSUME PhoneInv PROVE PhonesSafe
  <2>1. PhoneTypeOK
    <3>1. \A n \in Lines : /\ numbers[n].role \in {"none", "TEMPORARY", "TEMPORARY_GRACE", "PORTED"}
                           /\ numbers[n].there <=> numbers[n].role # "none"
                           /\ numbers[n].bound => service
      BY <1>1 DEF PhoneInv, PhoneShapes, LineKnows, NumberRows
    <3>2. service => account = "COMPLETED"
      BY <1>1 DEF PhoneInv, PhoneShapes, PurchasesKnown
    <3>3. bought \in [Sold -> Nat]
      BY <1>1 DEF PhoneInv, PhoneShapes
    <3> QED BY <1>1, <3>1, <3>2, <3>3 DEF PhoneInv, PhoneShapes, PhoneTypeOK, OfficeRows, Lines, PortStates,
               Intents, Sold
  <2>2. PurchasesAccounted
    BY <1>1 DEF PhoneInv, PhoneShapes, PurchasesKnown, PurchasesAccounted
  <2>3. SendersApproved
    <3>1. ASSUME NEW n \in Senders
          PROVE  campaign.real /\ numbers[n].bound /\ account = "COMPLETED" /\ service
      <4>1. n \in Lines /\ numbers[n].active = TRUE
        BY <1>1 DEF Senders, PhoneInv, PhoneShapes, NumberRows
      <4> QED BY <1>1, <4>1 DEF PhoneInv, LineKnows, ServiceGoesOn, PurchasesKnown
    <3> QED BY <3>1 DEF SendersApproved, ReadyToSend
  <2>4. NoGapInService
    BY <1>1 DEF PhoneInv, ServiceGoesOn, NoGapInService
  <2> QED BY <2>1, <2>2, <2>3, <2>4 DEF PhonesSafe
<1> QED BY PhoneStart, PhoneStep, <1>1, PTL DEF PhoneSpec

-----------------------------------------------------------------------------
(* Social messaging (module SocialInbox).                                  *)

SocialRows == [owner : Studios \cup {Nobody}, status : {"none", "ACTIVE", "ACTION_REQUIRED", "DISCONNECTED"},
               token : Hands \cup {Nobody}]
HandRows == [pc : HandSteps, todo : SUBSET Accounts, tries : 0 .. SetupTries, valid : BOOLEAN, late : BOOLEAN,
             artist : Studios \cup {Nobody}, client : Hands \cup {Nobody}, thread : Hands \cup {Nobody}]
Threads == [id : Hands, artist : Studios, account : Accounts, client : Hands]
Identified == [client : Hands, account : Accounts, person : Persons]

SocialShapes ==
    /\ rows \in [Accounts -> SocialRows] /\ hand \in [Hands -> HandRows]
    /\ roles \in HandRoles /\ feed \subseteq Hands
    /\ known \subseteq Identified /\ threads \subseteq Threads
    /\ inbox \subseteq [by : Hands, mid : Messages, thread : threads]
    /\ replies \subseteq [by : Hands, thread : threads]

\* A row has credentials once it has an owner, and they are his.
RowKnows(a) ==
    /\ rows[a].token # Nobody <=> rows[a].owner # Nobody
    /\ rows[a].token # Nobody => roles[rows[a].token].for = rows[a].owner
    /\ rows[a].status # "none" => rows[a].owner # Nobody

Delivering == {"look", "seek", "meet", "place", "store", "reply"}
Sender(h) == [client |-> hand[h].client, account |-> AccountOf(h), person |-> roles[h].from]
Files(t, h) == /\ t.id = hand[h].thread /\ t.artist = hand[h].artist
               /\ t.account = AccountOf(h) /\ t.client = hand[h].client

\* What each request has established on its way, and nobody takes back.
HandKnows(h) ==
    /\ h \in feed \/ hand[h].pc = "subscribe" =>
          Does(h, "connect") /\ \A a \in roles[h].at : rows[a].owner = roles[h].for
    /\ hand[h].pc \in {"inspect", "record"} => \A a \in hand[h].todo : rows[a].owner # Nobody
    /\ hand[h].pc \in Delivering =>
          /\ Does(h, "event") /\ hand[h].artist = rows[AccountOf(h)].owner /\ hand[h].artist # Nobody
          /\ hand[h].late = TRUE => Stored(roles[h].mid)
    /\ hand[h].pc \in Delivering \ {"look"} => hand[h].late = FALSE
    /\ hand[h].pc \in {"place", "store", "reply"} => Sender(h) \in known
    /\ hand[h].pc \in {"store", "reply"} => \E t \in threads : Files(t, h)

\* A thread was made by the one delivery it is named by.
ThreadsKnow ==
    /\ \A t \in threads : hand[t.id].pc \in {"store", "reply", "done"}
    /\ \A t, u \in threads : t.id = u.id => t = u

EntryKnows(e) ==
    /\ hand[e.by].pc \in {"reply", "done"} /\ hand[e.by].late = FALSE
    /\ e.thread.account \in roles[e.by].at /\ e.thread.artist = rows[e.thread.account].owner
    /\ [client |-> e.thread.client, account |-> e.thread.account, person |-> roles[e.by].from] \in known

ReplyKnows(e) == hand[e.by].pc = "done" /\ hand[e.by].late = FALSE

SocialInv ==
    /\ SocialShapes /\ ThreadsKnow
    /\ \A a \in Accounts : RowKnows(a)
    /\ \A h \in Hands : HandKnows(h)
    /\ \A e \in inbox : EntryKnows(e)
    /\ \A e \in replies : ReplyKnows(e)

LEMMA SocialStart == SocialInit => SocialInv
<1> SUFFICES ASSUME SocialInit PROVE SocialInv
  OBVIOUS
<1>1. SocialShapes
  <2>1. rows \in [Accounts -> SocialRows]
    BY DEF SocialInit, NoRow, SocialRows
  <2>2. hand \in [Hands -> HandRows]
    BY SocialBounds DEF SocialInit, HandRows, HandSteps
  <2> QED BY <2>1, <2>2 DEF SocialInit, SocialShapes
<1>2. \A a \in Accounts : RowKnows(a)
  BY DEF SocialInit, NoRow, RowKnows
<1>3. \A h \in Hands : HandKnows(h)
  BY DEF SocialInit, HandKnows, Delivering
<1> QED BY <1>1, <1>2, <1>3 DEF SocialInv, SocialInit, ThreadsKnow

\* The account of a request that is about one.
LEMMA OneAccount ==
    ASSUME SocialInv, NEW h \in Hands, roles[h].does # "connect"
    PROVE  AccountOf(h) \in Accounts /\ roles[h].at = {AccountOf(h)}
<1>1. PICK a \in Accounts : roles[h].at = {a}
  BY SocialBounds DEF SocialInv, SocialShapes
<1> QED BY <1>1 DEF AccountOf

\* No step takes an owner away, forgets a person or drops what was stored, and a
\* request takes its own steps only.
Onwards(h) ==
    /\ \A p \in Hands : p # h => hand'[p] = hand[p]
    /\ UNCHANGED roles /\ feed \subseteq feed' /\ known \subseteq known' /\ threads \subseteq threads'
    /\ inbox \subseteq inbox'
    /\ \A a \in Accounts : rows[a].owner # Nobody => rows'[a].owner = rows[a].owner
    /\ hand[h].pc \in {"store", "reply", "done"} => hand'[h].pc \in {"store", "reply", "done"}
    /\ hand[h].pc \in {"reply", "done"} => hand'[h].pc \in {"reply", "done"} /\ hand'[h].late = hand[h].late
    /\ hand[h].pc # "done"

LEMMA HandsRely ==
    ASSUME SocialInv, SocialShapes', NEW h \in Hands, Onwards(h), NEW p \in Hands, p # h, p \in feed' => p \in feed
    PROVE  HandKnows(p)'
<1>1. HandKnows(p) /\ hand'[p] = hand[p] /\ roles' = roles /\ roles \in HandRoles
  BY DEF SocialInv, SocialShapes, Onwards
<1>2. hand[p].todo \subseteq Accounts /\ roles[p].at \subseteq Accounts
  BY SocialBounds DEF SocialInv, SocialShapes, HandRows
<1>3. Does(p, "connect") => roles[p].for # Nobody
  BY <1>1, SocialBounds DEF Does, Nobody
<1>4. Does(p, "event") => AccountOf(p) \in Accounts
  BY OneAccount DEF Does
<1>5. AccountOf(p)' = AccountOf(p) /\ (Does(p, "connect")' <=> Does(p, "connect"))
      /\ (Does(p, "event")' <=> Does(p, "event"))
  BY <1>1 DEF AccountOf, Does
<1>6. p \in feed' \/ hand'[p].pc = "subscribe" =>
          Does(p, "connect")' /\ \A a \in roles'[p].at : rows'[a].owner = roles'[p].for
  BY <1>1, <1>2, <1>3, <1>5 DEF HandKnows, Onwards
<1>7. hand'[p].pc \in {"inspect", "record"} => \A a \in hand'[p].todo : rows'[a].owner # Nobody
  BY <1>1, <1>2 DEF HandKnows, Onwards
<1>8. Stored(roles[p].mid) => Stored(roles[p].mid)'
  BY <1>1 DEF Stored, Onwards
<1>9. hand'[p].pc \in Delivering =>
          /\ Does(p, "event")' /\ hand'[p].artist = rows'[AccountOf(p)'].owner /\ hand'[p].artist # Nobody
          /\ hand'[p].late = TRUE => Stored(roles[p].mid)'
  <2> SUFFICES ASSUME hand[p].pc \in Delivering
               PROVE  /\ Does(p, "event")' /\ hand'[p].artist = rows'[AccountOf(p)'].owner /\ hand'[p].artist # Nobody
                      /\ hand'[p].late = TRUE => Stored(roles[p].mid)'
    BY <1>1
  <2>1. /\ Does(p, "event") /\ hand[p].artist = rows[AccountOf(p)].owner /\ hand[p].artist # Nobody
        /\ hand[p].late = TRUE => Stored(roles[p].mid)
    BY <1>1 DEF HandKnows
  <2>2. rows'[AccountOf(p)].owner = rows[AccountOf(p)].owner
    BY <1>4, <2>1 DEF Onwards
  <2> QED BY <1>1, <1>5, <1>8, <2>1, <2>2
<1>10. Sender(p)' = Sender(p) /\ \A t \in threads : Files(t, p) => Files(t, p)'
  BY <1>1, <1>5 DEF Sender, Files
<1>11. hand'[p].pc \in {"place", "store", "reply"} => Sender(p)' \in known'
  BY <1>1, <1>10 DEF HandKnows, Onwards
<1>12. hand'[p].pc \in {"store", "reply"} => \E t \in threads' : Files(t, p)'
  BY <1>1, <1>10 DEF HandKnows, Onwards
<1>13. hand'[p].pc \in Delivering \ {"look"} => hand'[p].late = FALSE
  BY <1>1 DEF HandKnows
<1> QED BY <1>6, <1>7, <1>9, <1>11, <1>12, <1>13 DEF HandKnows

\* What stands in the inbox stays right.
LEMMA EntriesRely ==
    ASSUME SocialInv, NEW h \in Hands, Onwards(h)
    PROVE  /\ \A e \in inbox : EntryKnows(e)'
           /\ \A e \in replies : ReplyKnows(e)'
           /\ \A t \in threads : hand'[t.id].pc \in {"store", "reply", "done"}
<1>1. ASSUME NEW e \in inbox PROVE EntryKnows(e)'
  <2>1. EntryKnows(e) /\ e.by \in Hands /\ e.thread \in threads /\ e.thread.account \in Accounts
        /\ e.thread.artist \in Studios
    <3>1. EntryKnows(e) /\ e.by \in Hands /\ e.thread \in threads /\ threads \subseteq Threads
      BY DEF SocialInv, SocialShapes
    <3> QED BY <3>1 DEF Threads
  <2>2. hand'[e.by].pc \in {"reply", "done"} /\ hand'[e.by].late = FALSE
    BY <2>1 DEF Onwards, EntryKnows
  <2>3. e.thread.artist = rows'[e.thread.account].owner
    BY <2>1, SocialBounds DEF Onwards, EntryKnows, Nobody
  <2> QED BY <2>1, <2>2, <2>3 DEF Onwards, EntryKnows
<1>2. ASSUME NEW e \in replies PROVE ReplyKnows(e)'
  <2>1. ReplyKnows(e) /\ e.by \in Hands
    BY DEF SocialInv, SocialShapes
  <2> QED BY <2>1 DEF Onwards, ReplyKnows
<1>3. ASSUME NEW t \in threads PROVE hand'[t.id].pc \in {"store", "reply", "done"}
  <2>1. hand[t.id].pc \in {"store", "reply", "done"} /\ t.id \in Hands
    BY DEF SocialInv, SocialShapes, Threads, ThreadsKnow
  <2> QED BY <2>1 DEF Onwards
<1> QED BY <1>1, <1>2, <1>3

LEMMA SocialMoves ==
    ASSUME SocialInv, NEW h \in Hands, Onwards(h), SocialShapes', HandKnows(h)',
           \A p \in feed' : p # h => p \in feed,
           \A a \in Accounts : RowKnows(a)',
           \A t \in threads' : t \notin threads =>
               /\ t.id = h /\ hand'[h].pc = "store" /\ hand[h].pc = "place"
               /\ \A u \in threads' : u \notin threads => t = u,
           \A e \in inbox' : e \notin inbox => EntryKnows(e)',
           \A e \in replies' : e \notin replies => ReplyKnows(e)'
    PROVE  SocialInv'
<1>1. \A p \in Hands : HandKnows(p)'
  BY HandsRely
<1>2. \A e \in inbox' : EntryKnows(e)'
  BY EntriesRely
<1>3. \A e \in replies' : ReplyKnows(e)'
  BY EntriesRely
<1>4. \A t \in threads' : hand'[t.id].pc \in {"store", "reply", "done"}
  BY EntriesRely
<1>5. \A t \in threads : hand[t.id].pc \in {"store", "reply", "done"}
  BY DEF SocialInv, ThreadsKnow
<1>6. \A t, u \in threads : t.id = u.id => t = u
  BY DEF SocialInv, ThreadsKnow
<1>7. \A t, u \in threads' : t.id = u.id => t = u
  <2> SUFFICES ASSUME NEW t \in threads', NEW u \in threads', t.id = u.id PROVE t = u
    OBVIOUS
  <2>1. CASE t \in threads /\ u \in threads
    BY <1>6, <2>1
  <2>2. CASE t \in threads /\ u \notin threads
    BY <1>5, <2>2
  <2>3. CASE t \notin threads /\ u \in threads
    BY <1>5, <2>3
  <2>4. CASE t \notin threads /\ u \notin threads
    BY <2>4
  <2> QED BY <2>1, <2>2, <2>3, <2>4
<1> QED BY <1>1, <1>2, <1>3, <1>4, <1>7 DEF SocialInv, ThreadsKnow

\* A step that only moves the request.
LEMMA HandMoves ==
    ASSUME SocialInv, NEW h \in Hands, hand[h].pc \notin {"store", "reply", "done"},
           hand' \in [Hands -> HandRows], \A p \in Hands : p # h => hand'[p] = hand[p],
           UNCHANGED <<rows, feed, roles, known, threads, inbox, replies>>, HandKnows(h)'
    PROVE  SocialInv'
<1>1. SocialShapes'
  BY DEF SocialInv, SocialShapes
<1>2. Onwards(h)
  BY DEF Onwards
<1>3. \A a \in Accounts : RowKnows(a)'
  BY DEF SocialInv, RowKnows
<1> QED BY <1>1, <1>2, <1>3, SocialMoves

\* Only the place of a request changes.
LEMMA HandTurns ==
    ASSUME SocialInv, NEW h \in Hands, NEW pc \in HandSteps, To(h, pc)
    PROVE  /\ hand' \in [Hands -> HandRows] /\ \A p \in Hands : p # h => hand'[p] = hand[p]
           /\ hand'[h].pc = pc /\ hand'[h].todo = hand[h].todo /\ hand'[h].late = hand[h].late
           /\ hand'[h].artist = hand[h].artist /\ hand'[h].client = hand[h].client
           /\ hand'[h].thread = hand[h].thread
<1>1. hand \in [Hands -> HandRows]
  BY DEF SocialInv, SocialShapes
<1>2. hand[h] \in HandRows /\ hand'[h] = [hand[h] EXCEPT !.pc = pc]
  BY <1>1 DEF To
<1>3. /\ hand'[h] \in HandRows
      /\ hand'[h].pc = pc /\ hand'[h].todo = hand[h].todo /\ hand'[h].late = hand[h].late
      /\ hand'[h].artist = hand[h].artist /\ hand'[h].client = hand[h].client
      /\ hand'[h].thread = hand[h].thread
  BY <1>2 DEF HandRows
<1> QED BY <1>1, <1>3 DEF To

\* A request ends and leaves everything as it was.
LEMMA HandEnds ==
    ASSUME SocialInv, NEW h \in Hands, hand[h].pc \notin {"store", "reply", "done"}, To(h, "done"),
           UNCHANGED <<rows, feed, roles, known, threads, inbox, replies>>
    PROVE  SocialInv'
<1>1. /\ hand' \in [Hands -> HandRows] /\ \A p \in Hands : p # h => hand'[p] = hand[p]
      /\ hand'[h].pc = "done"
  BY HandTurns DEF HandSteps
<1>2. HandKnows(h)
  BY DEF SocialInv
<1>3. HandKnows(h)'
  BY <1>1, <1>2 DEF HandKnows, Delivering, Does
<1> QED BY <1>1, <1>3, HandMoves

LEMMA AuthorizeKeeps == ASSUME SocialInv, NEW h \in Hands, Authorize(h) PROVE SocialInv'
<1>1. /\ Does(h, "connect") /\ hand[h].pc = "idle" /\ HandKnows(h)
      /\ UNCHANGED <<rows, feed, roles, known, threads, inbox, replies>>
  BY DEF Authorize, In, SocialInv
<1>2. PICK pc \in {"choose", "done"} : To(h, pc)
  BY DEF Authorize
<1>3. /\ hand' \in [Hands -> HandRows] /\ \A p \in Hands : p # h => hand'[p] = hand[p]
      /\ hand'[h].pc = pc
  BY <1>2, HandTurns DEF HandSteps
<1>4. HandKnows(h)'
  BY <1>1, <1>3 DEF HandKnows, Delivering, Does
<1> QED BY <1>1, <1>3, <1>4, HandMoves

LEMMA ReserveKeeps == ASSUME SocialInv, NEW h \in Hands, Reserve(h) PROVE SocialInv'
<1> DEFINE s == roles[h].for
           picks == roles[h].at
<1>1. /\ hand[h].pc = "choose" /\ Does(h, "connect") /\ HandKnows(h)
      /\ UNCHANGED <<feed, roles, known, threads, inbox, replies>>
  BY DEF Reserve, In, SocialInv
<1>2. CASE To(h, "done") /\ UNCHANGED rows
  BY <1>1, <1>2, HandEnds
<1>3. CASE /\ \A a \in picks : OwnRow(a, s)
           /\ rows' = [a \in Accounts |->
                          IF a \notin picks THEN rows[a]
                          ELSE [owner |-> IF rows[a].owner = Nobody THEN s ELSE rows[a].owner,
                                status |-> "ACTION_REQUIRED", token |-> h]]
           /\ To(h, "subscribe")
  <2>1. s \in Studios /\ s # Nobody /\ h # Nobody /\ picks \subseteq Accounts
    BY <1>1, SocialBounds DEF SocialInv, SocialShapes, Does, Nobody
  <2>2. /\ hand' \in [Hands -> HandRows] /\ \A p \in Hands : p # h => hand'[p] = hand[p]
        /\ hand'[h].pc = "subscribe"
    BY <1>3, HandTurns DEF HandSteps
  <2>3. rows \in [Accounts -> SocialRows]
    BY DEF SocialInv, SocialShapes
  <2>4. ASSUME NEW a \in picks
        PROVE  rows'[a] = [owner |-> s, status |-> "ACTION_REQUIRED", token |-> h]
    BY <1>3, <2>1, <2>4 DEF OwnRow
  <2>5. \A a \in Accounts \ picks : rows'[a] = rows[a]
    BY <1>3
  <2>6. rows' \in [Accounts -> SocialRows]
    <3>1. \A a \in Accounts : rows'[a] \in SocialRows
      BY <2>1, <2>3, <2>4, <2>5 DEF SocialRows
    <3> QED BY <1>3, <3>1
  <2>7. \A a \in Accounts : RowKnows(a)'
    <3> SUFFICES ASSUME NEW a \in Accounts PROVE RowKnows(a)'
      OBVIOUS
    <3>1. CASE a \in picks
      BY <1>1, <2>1, <2>4, <3>1 DEF RowKnows
    <3>2. CASE a \notin picks
      BY <1>1, <2>5, <3>2 DEF RowKnows, SocialInv
    <3> QED BY <3>1, <3>2
  <2>8. \A a \in Accounts : rows[a].owner # Nobody => rows'[a].owner = rows[a].owner
    BY <1>3, <2>1, <2>4, <2>5 DEF OwnRow
  <2>9. HandKnows(h)'
    BY <1>1, <2>2, <2>4 DEF HandKnows, Delivering, Does
  <2>10. SocialShapes'
    BY <1>1, <2>2, <2>6 DEF SocialInv, SocialShapes
  <2>11. Onwards(h)
    BY <1>1, <2>2, <2>8 DEF Onwards
  <2> QED BY <1>1, <2>7, <2>9, <2>10, <2>11, SocialMoves
<1> QED BY <1>2, <1>3 DEF Reserve

LEMMA SubscribeKeeps == ASSUME SocialInv, NEW h \in Hands, Subscribe(h) PROVE SocialInv'
<1>1. /\ hand[h].pc = "subscribe" /\ HandKnows(h) /\ hand \in [Hands -> HandRows] /\ hand[h] \in HandRows
      /\ UNCHANGED <<rows, roles, known, threads, inbox, replies>>
  BY DEF Subscribe, In, SocialInv, SocialShapes
<1>2. Does(h, "connect") /\ roles[h].for \in Studios /\ roles[h].for # Nobody /\ roles[h].at \subseteq Accounts
      /\ \A a \in roles[h].at : rows[a].owner = roles[h].for
  BY <1>1, SocialBounds DEF HandKnows, Does, SocialInv, SocialShapes, Nobody
<1>3. CASE /\ feed' = feed \cup {h}
           /\ hand' = [hand EXCEPT ![h].pc = "inspect", ![h].todo = roles[h].at]
  <2>1. hand'[h] = [hand[h] EXCEPT !.pc = "inspect", !.todo = roles[h].at]
    BY <1>1, <1>3
  <2>2. hand'[h] \in HandRows /\ hand'[h].pc = "inspect" /\ hand'[h].todo = roles[h].at
    BY <1>1, <1>2, <2>1 DEF HandRows, HandSteps
  <2>3. hand' \in [Hands -> HandRows] /\ \A p \in Hands : p # h => hand'[p] = hand[p]
    BY <1>1, <1>3, <2>2
  <2>4. HandKnows(h)'
    BY <1>1, <1>2, <2>2 DEF HandKnows, Delivering, Does
  <2>5. SocialShapes'
    BY <1>1, <1>3, <2>3 DEF SocialInv, SocialShapes
  <2>6. Onwards(h) /\ \A a \in Accounts : RowKnows(a)'
    BY <1>1, <1>3, <2>3 DEF Onwards, SocialInv, RowKnows
  <2> QED BY <1>1, <1>3, <2>4, <2>5, <2>6, SocialMoves
<1>4. CASE /\ hand' = [hand EXCEPT ![h].pc = IF hand[h].tries < SetupTries THEN "choose" ELSE "done",
                                   ![h].tries = IF @ < SetupTries THEN @ + 1 ELSE @]
           /\ UNCHANGED feed
  <2> DEFINE pc == IF hand[h].tries < SetupTries THEN "choose" ELSE "done"
             again == IF hand[h].tries < SetupTries THEN hand[h].tries + 1 ELSE hand[h].tries
  <2>1. hand'[h] = [hand[h] EXCEPT !.pc = pc, !.tries = again]
    BY <1>1, <1>4
  <2>2. again \in 0 .. SetupTries /\ pc \in {"choose", "done"}
    BY <1>1, SocialBounds DEF HandRows
  <2> HIDE DEF pc, again
  <2>3. hand'[h] \in HandRows /\ hand'[h].pc = pc
    BY <1>1, <2>1, <2>2 DEF HandRows, HandSteps
  <2>4. hand' \in [Hands -> HandRows] /\ \A p \in Hands : p # h => hand'[p] = hand[p]
    BY <1>1, <1>4, <2>3
  <2>5. HandKnows(h)'
    BY <1>1, <1>4, <2>2, <2>3 DEF HandKnows, Delivering, Does
  <2> QED BY <1>1, <1>4, <2>4, <2>5, HandMoves
<1> QED BY <1>3, <1>4 DEF Subscribe

LEMMA InspectKeeps == ASSUME SocialInv, NEW h \in Hands, Inspect(h) PROVE SocialInv'
<1>1. /\ hand[h].pc = "inspect" /\ HandKnows(h) /\ hand \in [Hands -> HandRows] /\ hand[h] \in HandRows
      /\ UNCHANGED <<rows, feed, roles, known, threads, inbox, replies>>
  BY DEF Inspect, In, SocialInv, SocialShapes
<1>2. PICK ok \in BOOLEAN : hand' = [hand EXCEPT ![h].pc = "record", ![h].valid = Healthy(ok)]
  BY DEF Inspect
<1>3. hand'[h] = [hand[h] EXCEPT !.pc = "record", !.valid = Healthy(ok)] /\ Healthy(ok) \in BOOLEAN
  BY <1>1, <1>2 DEF Healthy
<1>4. hand'[h] \in HandRows /\ hand'[h].pc = "record" /\ hand'[h].todo = hand[h].todo
  BY <1>1, <1>3 DEF HandRows, HandSteps
<1>5. hand' \in [Hands -> HandRows] /\ \A p \in Hands : p # h => hand'[p] = hand[p]
  BY <1>1, <1>2, <1>4
<1>6. HandKnows(h)'
  BY <1>1, <1>4 DEF HandKnows, Delivering, Does
<1> QED BY <1>1, <1>5, <1>6, HandMoves

\* A row that has an owner gets another status.
LEMMA StatusMoves ==
    ASSUME SocialInv, NEW a \in Accounts, rows[a].owner # Nobody,
           NEW s \in {"none", "ACTIVE", "ACTION_REQUIRED", "DISCONNECTED"},
           rows' = [rows EXCEPT ![a].status = s], UNCHANGED roles
    PROVE  /\ rows' \in [Accounts -> SocialRows] /\ \A b \in Accounts : RowKnows(b)'
           /\ \A b \in Accounts : rows'[b].owner = rows[b].owner
<1>1. rows \in [Accounts -> SocialRows] /\ rows'[a] = [rows[a] EXCEPT !.status = s]
  BY DEF SocialInv, SocialShapes
<1>2. /\ rows'[a] \in SocialRows /\ rows'[a].owner = rows[a].owner /\ rows'[a].token = rows[a].token
      /\ rows'[a].status = s
  BY <1>1 DEF SocialRows
<1>3. \A b \in Accounts : b # a => rows'[b] = rows[b]
  BY <1>1
<1>4. RowKnows(a)'
  BY <1>2 DEF SocialInv, RowKnows
<1>5. \A b \in Accounts : b # a => RowKnows(b)'
  BY <1>3 DEF SocialInv, RowKnows
<1> QED BY <1>1, <1>2, <1>3, <1>4, <1>5

LEMMA RecordHealthKeeps == ASSUME SocialInv, NEW h \in Hands, RecordHealth(h) PROVE SocialInv'
<1>1. /\ hand[h].pc = "record" /\ HandKnows(h) /\ hand \in [Hands -> HandRows] /\ hand[h] \in HandRows
      /\ UNCHANGED <<feed, roles, known, threads, inbox, replies>>
  BY DEF RecordHealth, In, SocialInv, SocialShapes
<1>2. PICK a \in hand[h].todo :
        /\ rows' = [rows EXCEPT ![a].status = IF hand[h].valid THEN "ACTIVE" ELSE "ACTION_REQUIRED"]
        /\ hand' = [hand EXCEPT ![h].todo = @ \ {a},
                                ![h].pc = IF hand[h].todo = {a} THEN "done" ELSE "inspect"]
  BY DEF RecordHealth
<1> DEFINE pc == IF hand[h].todo = {a} THEN "done" ELSE "inspect"
           s == IF hand[h].valid THEN "ACTIVE" ELSE "ACTION_REQUIRED"
           left == hand[h].todo \ {a}
<1>3. hand'[h] = [hand[h] EXCEPT !.todo = left, !.pc = pc] /\ pc \in {"done", "inspect"}
  BY <1>1, <1>2
<1>4. a \in Accounts /\ rows[a].owner # Nobody /\ s \in {"ACTIVE", "ACTION_REQUIRED"}
  BY <1>1 DEF HandKnows, HandRows
<1>5. left \subseteq Accounts /\ left \subseteq hand[h].todo
  BY <1>1 DEF HandRows
<1>6. rows' = [rows EXCEPT ![a].status = s]
  BY <1>2
<1> HIDE DEF pc, s, left
<1>7. /\ rows' \in [Accounts -> SocialRows] /\ \A b \in Accounts : RowKnows(b)'
      /\ \A b \in Accounts : rows'[b].owner = rows[b].owner
  BY <1>1, <1>4, <1>6, StatusMoves
<1>8. hand'[h] \in HandRows /\ hand'[h].pc = pc /\ hand'[h].todo = left
  BY <1>1, <1>3, <1>5 DEF HandRows, HandSteps
<1>9. hand' \in [Hands -> HandRows] /\ \A p \in Hands : p # h => hand'[p] = hand[p]
  BY <1>1, <1>2, <1>8
<1>10. roles[h].at \subseteq Accounts /\ hand[h].todo \subseteq Accounts
  BY <1>1, SocialBounds DEF SocialInv, SocialShapes, HandRows
<1>11. HandKnows(h)'
  BY <1>1, <1>3, <1>7, <1>8, <1>10, <1>5 DEF HandKnows, Delivering, Does
<1>12. SocialShapes' /\ Onwards(h)
  BY <1>1, <1>7, <1>9 DEF SocialInv, SocialShapes, Onwards
<1> QED BY <1>1, <1>7, <1>11, <1>12, SocialMoves

LEMMA CheckHealthKeeps == ASSUME SocialInv, NEW h \in Hands, CheckHealth(h) PROVE SocialInv'
<1> DEFINE there == rows[AccountOf(h)].token # Nobody
           pc == IF there THEN "inspect" ELSE "done"
           todo == IF there THEN roles[h].at ELSE {}
<1>1. /\ Does(h, "health") /\ hand[h].pc = "idle" /\ HandKnows(h)
      /\ hand \in [Hands -> HandRows] /\ hand[h] \in HandRows
      /\ UNCHANGED <<rows, feed, roles, known, threads, inbox, replies>>
  BY DEF CheckHealth, In, SocialInv, SocialShapes
<1>2. hand' = [hand EXCEPT ![h].pc = pc, ![h].todo = todo]
  BY DEF CheckHealth
<1>3. AccountOf(h) \in Accounts /\ roles[h].at = {AccountOf(h)}
  BY <1>1, OneAccount DEF Does
<1>4. hand'[h] = [hand[h] EXCEPT !.pc = pc, !.todo = todo] /\ pc \in {"inspect", "done"} /\ todo \subseteq Accounts
  BY <1>1, <1>2, <1>3
<1>5. \A a \in todo : rows[a].owner # Nobody
  BY <1>3 DEF SocialInv, RowKnows
<1> HIDE DEF pc, todo
<1>6. hand'[h] \in HandRows /\ hand'[h].pc = pc /\ hand'[h].todo = todo
  BY <1>1, <1>4 DEF HandRows, HandSteps
<1>7. hand' \in [Hands -> HandRows] /\ \A p \in Hands : p # h => hand'[p] = hand[p]
  BY <1>1, <1>2, <1>6
<1>8. HandKnows(h)'
  BY <1>1, <1>4, <1>5, <1>6 DEF HandKnows, Delivering, Does
<1> QED BY <1>1, <1>7, <1>8, HandMoves

LEMMA DisconnectKeeps == ASSUME SocialInv, NEW h \in Hands, Disconnect(h) PROVE SocialInv'
<1>1. /\ hand[h].pc = "idle" /\ HandKnows(h) /\ To(h, "done")
      /\ UNCHANGED <<feed, roles, known, threads, inbox, replies>>
      /\ rows' = [a \in Accounts |-> IF a \in roles[h].at /\ rows[a].owner # Nobody
                                     THEN [rows[a] EXCEPT !.status = "DISCONNECTED"] ELSE rows[a]]
  BY DEF Disconnect, In, SocialInv
<1>2. /\ hand' \in [Hands -> HandRows] /\ \A p \in Hands : p # h => hand'[p] = hand[p]
      /\ hand'[h].pc = "done"
  BY <1>1, HandTurns DEF HandSteps
<1>3. rows \in [Accounts -> SocialRows]
  BY DEF SocialInv, SocialShapes
<1>4. ASSUME NEW a \in Accounts
      PROVE  rows'[a] \in SocialRows /\ rows'[a].owner = rows[a].owner /\ RowKnows(a)'
  <2>1. RowKnows(a) /\ rows[a] \in SocialRows
    BY <1>3 DEF SocialInv
  <2>2. CASE a \in roles[h].at /\ rows[a].owner # Nobody
    <3>1. rows'[a] = [rows[a] EXCEPT !.status = "DISCONNECTED"]
      BY <1>1, <2>2
    <3>2. /\ rows'[a] \in SocialRows /\ rows'[a].owner = rows[a].owner /\ rows'[a].token = rows[a].token
      BY <2>1, <3>1 DEF SocialRows
    <3> QED BY <1>1, <2>1, <2>2, <3>2 DEF RowKnows
  <2>3. CASE ~(a \in roles[h].at /\ rows[a].owner # Nobody)
    BY <1>1, <2>1, <2>3 DEF RowKnows
  <2> QED BY <2>2, <2>3
<1>5. rows' \in [Accounts -> SocialRows]
  BY <1>1, <1>4
<1>6. roles[h].at \subseteq Accounts
  BY SocialBounds DEF SocialInv, SocialShapes
<1>7. HandKnows(h)'
  BY <1>1, <1>2, <1>4, <1>6 DEF HandKnows, Delivering, Does
<1>8. SocialShapes' /\ Onwards(h)
  BY <1>1, <1>2, <1>4, <1>5 DEF SocialInv, SocialShapes, Onwards
<1> QED BY <1>1, <1>4, <1>7, <1>8, SocialMoves

LEMMA RouteKeeps == ASSUME SocialInv, NEW h \in Hands, Route(h) PROVE SocialInv'
<1> DEFINE a == AccountOf(h)
           pc == IF rows[a].status = "ACTIVE" THEN "look" ELSE "done"
<1>1. /\ Does(h, "event") /\ hand[h].pc = "idle" /\ HandKnows(h)
      /\ hand \in [Hands -> HandRows] /\ hand[h] \in HandRows
      /\ UNCHANGED <<rows, feed, roles, known, threads, inbox, replies>>
      /\ hand' = [hand EXCEPT ![h].pc = pc, ![h].artist = rows[a].owner, ![h].late = Stored(roles[h].mid)]
  BY DEF Route, In, SocialInv, SocialShapes
<1>2. a \in Accounts /\ rows[a] \in SocialRows /\ RowKnows(a)
  BY <1>1, OneAccount DEF Does, SocialInv, SocialShapes
<1>3. hand'[h] = [hand[h] EXCEPT !.pc = pc, !.artist = rows[a].owner, !.late = Stored(roles[h].mid)]
  BY <1>1
<1>4. /\ pc \in {"look", "done"} /\ (pc = "look" => rows[a].owner # Nobody)
      /\ rows[a].owner \in Studios \cup {Nobody} /\ Stored(roles[h].mid) \in BOOLEAN
  BY <1>2 DEF RowKnows, SocialRows, Stored
<1> HIDE DEF a, pc
<1>5. /\ hand'[h] \in HandRows /\ hand'[h].pc = pc /\ hand'[h].artist = rows[a].owner
      /\ hand'[h].late = Stored(roles[h].mid)
  BY <1>1, <1>3, <1>4 DEF HandRows, HandSteps
<1>6. hand' \in [Hands -> HandRows] /\ \A p \in Hands : p # h => hand'[p] = hand[p]
  BY <1>1, <1>5
<1>7. AccountOf(h)' = a /\ (Does(h, "event")' <=> Does(h, "event")) /\ (Does(h, "connect")' <=> Does(h, "connect"))
      /\ (Stored(roles[h].mid)' <=> Stored(roles[h].mid))
  BY <1>1 DEF a, AccountOf, Does, Stored
<1>8. HandKnows(h)'
  BY <1>1, <1>4, <1>5, <1>7 DEF HandKnows, Delivering
<1> QED BY <1>1, <1>6, <1>8, HandMoves

\* What a delivery knows of its account, its artist and its message.
LEMMA DeliveryIs ==
    ASSUME SocialInv, NEW h \in Hands, hand[h].pc \in Delivering
    PROVE  /\ AccountOf(h) \in Accounts /\ roles[h].at = {AccountOf(h)} /\ Does(h, "event")
           /\ roles[h].from \in Persons /\ roles[h].mid \in Messages
           /\ hand[h].artist \in Studios /\ hand[h].artist = rows[AccountOf(h)].owner
           /\ hand[h] \in HandRows /\ hand \in [Hands -> HandRows] /\ HandKnows(h)
           /\ h \notin feed
<1>1. HandKnows(h) /\ hand \in [Hands -> HandRows] /\ hand[h] \in HandRows
  BY DEF SocialInv, SocialShapes
<1>2. Does(h, "event") /\ hand[h].artist = rows[AccountOf(h)].owner /\ hand[h].artist # Nobody
  BY <1>1 DEF HandKnows
<1>3. hand[h].artist \in Studios
  BY <1>1, <1>2 DEF HandRows
<1>4. roles[h].from \in Persons /\ roles[h].mid \in Messages
  BY <1>2, SocialBounds DEF Does, SocialInv, SocialShapes
<1>5. AccountOf(h) \in Accounts /\ roles[h].at = {AccountOf(h)}
  BY <1>2, OneAccount DEF Does
<1>6. h \notin feed
  BY <1>1, <1>2 DEF HandKnows, Does
<1> QED BY <1>1, <1>2, <1>3, <1>4, <1>5, <1>6

\* A delivery goes on: what it knows of account, artist and message is as before.
LEMMA DeliveryGoesOn ==
    ASSUME SocialInv, NEW h \in Hands, hand[h].pc \in Delivering, UNCHANGED roles,
           feed' = feed, inbox \subseteq inbox',
           rows'[AccountOf(h)].owner = rows[AccountOf(h)].owner,
           hand'[h].artist = hand[h].artist, hand'[h].late = hand[h].late,
           hand'[h].pc \in (Delivering \ {"look"}) \cup {"done"},
           hand'[h].pc # "done" => hand[h].late = FALSE,
           hand'[h].pc \in {"place", "store", "reply"} => Sender(h)' \in known',
           hand'[h].pc \in {"store", "reply"} => \E t \in threads' : Files(t, h)'
    PROVE  HandKnows(h)'
<1>1. Does(h, "event") /\ hand[h].artist = rows[AccountOf(h)].owner /\ hand[h].artist \in Studios /\ h \notin feed
  BY DeliveryIs
<1>2. hand[h].artist # Nobody
  BY <1>1, SocialBounds DEF Nobody
<1>3. AccountOf(h)' = AccountOf(h) /\ Does(h, "event")'
  BY <1>1 DEF AccountOf, Does
<1> QED BY <1>1, <1>2, <1>3 DEF HandKnows, Delivering

LEMMA SkipDuplicateKeeps == ASSUME SocialInv, NEW h \in Hands, SkipDuplicate(h) PROVE SocialInv'
<1> DEFINE pc == IF Duplicate(roles[h].mid) THEN "done" ELSE "seek"
<1>1. /\ hand[h].pc = "look" /\ To(h, pc) /\ hand[h].pc \in Delivering
      /\ UNCHANGED <<rows, feed, roles, known, threads, inbox, replies>>
  BY DEF SkipDuplicate, In, Delivering
<1>2. HandKnows(h) /\ hand[h] \in HandRows
  BY <1>1, DeliveryIs
<1>3. pc # "done" => hand[h].late = FALSE
  BY <1>1, <1>2 DEF HandKnows, Duplicate, HandRows
<1>4. pc \in {"done", "seek"}
  OBVIOUS
<1> HIDE DEF pc
<1>5. /\ hand' \in [Hands -> HandRows] /\ \A p \in Hands : p # h => hand'[p] = hand[p]
      /\ hand'[h].pc = pc /\ hand'[h].late = hand[h].late /\ hand'[h].artist = hand[h].artist
  BY <1>1, <1>4, HandTurns DEF HandSteps
<1>6. HandKnows(h)'
  BY <1>1, <1>3, <1>4, <1>5, DeliveryGoesOn DEF Delivering
<1> QED BY <1>1, <1>5, <1>6, HandMoves

LEMMA FindClientKeeps == ASSUME SocialInv, NEW h \in Hands, FindClient(h) PROVE SocialInv'
<1> DEFINE found == Identities(AccountOf(h), roles[h].from)
<1>1. /\ hand[h].pc = "seek" /\ hand[h].pc \in Delivering
      /\ UNCHANGED <<rows, feed, roles, known, threads, inbox, replies>>
  BY DEF FindClient, In, Delivering
<1>2. HandKnows(h) /\ hand[h] \in HandRows /\ hand \in [Hands -> HandRows]
  BY <1>1, DeliveryIs
<1>3. hand[h].late = FALSE
  BY <1>1, <1>2 DEF HandKnows, Delivering
<1>4. CASE To(h, "meet")
  <2>1. /\ hand' \in [Hands -> HandRows] /\ \A p \in Hands : p # h => hand'[p] = hand[p]
        /\ hand'[h].pc = "meet" /\ hand'[h].late = hand[h].late /\ hand'[h].artist = hand[h].artist
    BY <1>4, HandTurns DEF HandSteps
  <2>2. HandKnows(h)'
    BY <1>1, <1>3, <2>1, DeliveryGoesOn DEF Delivering
  <2> QED BY <1>1, <2>1, <2>2, HandMoves
<1>5. ASSUME NEW i \in found, hand' = [hand EXCEPT ![h].pc = "place", ![h].client = i.client]
      PROVE  SocialInv'
  <2>1. i \in known /\ i.account = AccountOf(h) /\ i.person = roles[h].from /\ i \in Identified
    BY <1>5 DEF Identities, SocialInv, SocialShapes
  <2>2. hand'[h] = [hand[h] EXCEPT !.pc = "place", !.client = i.client]
    BY <1>2, <1>5
  <2>3. i.client \in Hands /\ i = [client |-> i.client, account |-> i.account, person |-> i.person]
    BY <2>1 DEF Identified
  <2>4. /\ hand'[h] \in HandRows /\ hand'[h].pc = "place" /\ hand'[h].client = i.client
        /\ hand'[h].late = hand[h].late /\ hand'[h].artist = hand[h].artist
    BY <1>2, <2>2, <2>3 DEF HandRows, HandSteps
  <2>5. hand' \in [Hands -> HandRows] /\ \A p \in Hands : p # h => hand'[p] = hand[p]
    BY <1>2, <1>5, <2>4
  <2>6. Sender(h)' = i
    BY <1>1, <2>1, <2>3, <2>4 DEF Sender, AccountOf
  <2>7. HandKnows(h)'
    BY <1>1, <1>3, <2>1, <2>4, <2>6, DeliveryGoesOn DEF Delivering
  <2> QED BY <1>1, <2>5, <2>7, HandMoves
<1> QED BY <1>4, <1>5 DEF FindClient

LEMMA MeetClientKeeps == ASSUME SocialInv, NEW h \in Hands, MeetClient(h) PROVE SocialInv'
<1>1. /\ hand[h].pc = "meet" /\ hand[h].pc \in Delivering
      /\ UNCHANGED <<rows, feed, roles, threads, inbox, replies>>
  BY DEF MeetClient, In, Delivering
<1>2. HandKnows(h) /\ hand[h] \in HandRows /\ hand \in [Hands -> HandRows] /\ AccountOf(h) \in Accounts
      /\ roles[h].from \in Persons
  BY <1>1, DeliveryIs
<1>3. hand[h].late = FALSE
  BY <1>1, <1>2 DEF HandKnows, Delivering
<1>4. CASE To(h, "done") /\ UNCHANGED known
  BY <1>1, <1>4, HandEnds
<1>5. CASE /\ known' = known \cup {[client |-> h, account |-> AccountOf(h), person |-> roles[h].from]}
           /\ hand' = [hand EXCEPT ![h].pc = "place", ![h].client = h]
  <2>1. hand'[h] = [hand[h] EXCEPT !.pc = "place", !.client = h]
    BY <1>2, <1>5
  <2>2. /\ hand'[h] \in HandRows /\ hand'[h].pc = "place" /\ hand'[h].client = h
        /\ hand'[h].late = hand[h].late /\ hand'[h].artist = hand[h].artist
    BY <1>2, <2>1 DEF HandRows, HandSteps
  <2>3. hand' \in [Hands -> HandRows] /\ \A p \in Hands : p # h => hand'[p] = hand[p]
    BY <1>2, <1>5, <2>2
  <2>4. Sender(h)' = [client |-> h, account |-> AccountOf(h), person |-> roles[h].from]
    BY <1>1, <2>2 DEF Sender, AccountOf
  <2>5. HandKnows(h)'
    BY <1>1, <1>3, <1>5, <2>2, <2>4, DeliveryGoesOn DEF Delivering
  <2>6. known' \subseteq Identified
    BY <1>2, <1>5 DEF SocialInv, SocialShapes, Identified
  <2>7. SocialShapes' /\ Onwards(h) /\ \A a \in Accounts : RowKnows(a)'
    BY <1>1, <1>5, <2>3, <2>6 DEF SocialInv, SocialShapes, Onwards, RowKnows
  <2> QED BY <1>1, <2>5, <2>7, SocialMoves
<1> QED BY <1>4, <1>5 DEF MeetClient

LEMMA PlaceThreadKeeps == ASSUME SocialInv, NEW h \in Hands, PlaceThread(h) PROVE SocialInv'
<1>1. /\ hand[h].pc = "place" /\ hand[h].pc \in Delivering
      /\ UNCHANGED <<rows, feed, roles, known, inbox, replies>>
  BY DEF PlaceThread, In, Delivering
<1>2. /\ HandKnows(h) /\ hand[h] \in HandRows /\ hand \in [Hands -> HandRows] /\ AccountOf(h) \in Accounts
      /\ hand[h].artist \in Studios
  BY <1>1, DeliveryIs
<1>3. hand[h].late = FALSE /\ Sender(h) \in known
  BY <1>1, <1>2 DEF HandKnows, Delivering
<1>4. hand[h].client \in Hands
  BY <1>3 DEF SocialInv, SocialShapes, Identified, Sender
<1>5. ASSUME NEW t \in Matching(h), UNCHANGED threads,
             hand' = [hand EXCEPT ![h].pc = "store", ![h].thread = t.id]
      PROVE  SocialInv'
  <2>1. /\ t \in threads /\ t.artist = hand[h].artist /\ t.client = hand[h].client /\ t.account = AccountOf(h)
        /\ t.id \in Hands
    BY <1>5 DEF Matching, SocialInv, SocialShapes, Threads
  <2>2. hand'[h] = [hand[h] EXCEPT !.pc = "store", !.thread = t.id]
    BY <1>2, <1>5
  <2>3. /\ hand'[h] \in HandRows /\ hand'[h].pc = "store" /\ hand'[h].client = hand[h].client
        /\ hand'[h].late = hand[h].late /\ hand'[h].artist = hand[h].artist /\ hand'[h].thread = t.id
    BY <1>2, <2>1, <2>2 DEF HandRows, HandSteps
  <2>4. hand' \in [Hands -> HandRows] /\ \A p \in Hands : p # h => hand'[p] = hand[p]
    BY <1>2, <1>5, <2>3
  <2>5. Sender(h)' = Sender(h) /\ Files(t, h)'
    BY <1>1, <2>1, <2>3 DEF Sender, Files, AccountOf
  <2>6. HandKnows(h)'
    BY <1>1, <1>3, <1>5, <2>1, <2>3, <2>5, DeliveryGoesOn DEF Delivering
  <2> QED BY <1>1, <1>5, <2>4, <2>6, HandMoves
<1>6. ASSUME threads' = threads \cup {[id |-> h, artist |-> hand[h].artist, account |-> AccountOf(h),
                                       client |-> hand[h].client]},
             hand' = [hand EXCEPT ![h].pc = "store", ![h].thread = h]
      PROVE  SocialInv'
  <2>1. PICK made \in Threads : made = [id |-> h, artist |-> hand[h].artist, account |-> AccountOf(h),
                                        client |-> hand[h].client]
    BY <1>2, <1>4 DEF Threads
  <2>2. hand'[h] = [hand[h] EXCEPT !.pc = "store", !.thread = h]
    BY <1>2, <1>6
  <2>3. /\ hand'[h] \in HandRows /\ hand'[h].pc = "store" /\ hand'[h].client = hand[h].client
        /\ hand'[h].late = hand[h].late /\ hand'[h].artist = hand[h].artist /\ hand'[h].thread = h
    BY <1>2, <2>2 DEF HandRows, HandSteps
  <2>4. hand' \in [Hands -> HandRows] /\ \A p \in Hands : p # h => hand'[p] = hand[p]
    BY <1>2, <1>6, <2>3
  <2>5. Sender(h)' = Sender(h) /\ Files(made, h)'
    BY <1>1, <2>3, <2>1 DEF Sender, Files, AccountOf
  <2>6. HandKnows(h)'
    BY <1>1, <1>3, <1>6, <2>3, <2>5, <2>1, DeliveryGoesOn DEF Delivering
  <2>7. SocialShapes'
    <3>1. threads' \subseteq Threads /\ threads \subseteq threads'
      BY <1>6, <2>1 DEF SocialInv, SocialShapes
    <3>2. /\ inbox \subseteq [by : Hands, mid : Messages, thread : threads']
          /\ replies \subseteq [by : Hands, thread : threads']
      BY <3>1 DEF SocialInv, SocialShapes
    <3> QED BY <1>1, <2>4, <3>1, <3>2 DEF SocialInv, SocialShapes
  <2>8. Onwards(h) /\ \A a \in Accounts : RowKnows(a)'
    BY <1>1, <1>6, <2>4 DEF SocialInv, Onwards, RowKnows
  <2>9. \A t \in threads' : t \notin threads => t = made
    BY <1>6, <2>1
  <2>10. \A t \in threads' : t \notin threads =>
           /\ t.id = h /\ hand'[h].pc = "store" /\ hand[h].pc = "place"
           /\ \A u \in threads' : u \notin threads => t = u
    BY <1>1, <2>3, <2>1, <2>9
  <2> QED BY <1>1, <2>6, <2>7, <2>8, <2>10, SocialMoves
<1> QED BY <1>5, <1>6 DEF PlaceThread

\* The thread a delivery stores and answers in.
LEMMA ThreadIs ==
    ASSUME SocialInv, NEW h \in Hands, hand[h].pc \in {"store", "reply"}
    PROVE  ThreadOf(h) \in threads /\ Files(ThreadOf(h), h)
<1>1. PICK t \in threads : Files(t, h)
  BY DEF SocialInv, HandKnows
<1>2. ThreadOf(h) \in threads /\ ThreadOf(h).id = hand[h].thread
  BY <1>1 DEF ThreadOf, Files
<1>3. ThreadOf(h) = t
  BY <1>1, <1>2 DEF SocialInv, ThreadsKnow, Files
<1> QED BY <1>1, <1>3

LEMMA StoreMessageKeeps == ASSUME SocialInv, NEW h \in Hands, StoreMessage(h) PROVE SocialInv'
<1>1. /\ hand[h].pc = "store" /\ hand[h].pc \in Delivering
      /\ inbox' = inbox \cup {[by |-> h, mid |-> roles[h].mid, thread |-> ThreadOf(h)]}
      /\ UNCHANGED <<rows, feed, roles, known, threads, replies>>
  BY DEF StoreMessage, In, Delivering
<1>2. PICK pc \in {"reply", "done"} : To(h, pc)
  BY DEF StoreMessage
<1>3. /\ HandKnows(h) /\ hand[h].artist = rows[AccountOf(h)].owner /\ AccountOf(h) \in Accounts
      /\ roles[h].mid \in Messages /\ roles[h].at = {AccountOf(h)}
  BY <1>1, DeliveryIs
<1>4. hand[h].late = FALSE /\ Sender(h) \in known
  BY <1>1, <1>3 DEF HandKnows, Delivering
<1>5. PICK t \in threads : t = ThreadOf(h) /\ Files(t, h)
  BY <1>1, ThreadIs
<1>6. /\ hand' \in [Hands -> HandRows] /\ \A p \in Hands : p # h => hand'[p] = hand[p]
      /\ hand'[h].pc = pc /\ hand'[h].late = hand[h].late /\ hand'[h].artist = hand[h].artist
      /\ hand'[h].client = hand[h].client /\ hand'[h].thread = hand[h].thread
  BY <1>2, HandTurns DEF HandSteps
<1>7. Sender(h)' = Sender(h) /\ Files(t, h)'
  BY <1>1, <1>5, <1>6 DEF Sender, Files, AccountOf
<1>8. HandKnows(h)'
  BY <1>1, <1>4, <1>5, <1>6, <1>7, DeliveryGoesOn DEF Delivering
<1>9. PICK e \in [by : Hands, mid : Messages, thread : threads] :
         e = [by |-> h, mid |-> roles[h].mid, thread |-> t]
  BY <1>3, <1>5
<1>10. EntryKnows(e)'
  <2>1. e.by = h /\ e.thread = t
    BY <1>9
  <2>2. /\ t.account = AccountOf(h) /\ t.artist = hand[h].artist /\ t.client = hand[h].client
    BY <1>5 DEF Files
  <2>3. [client |-> e.thread.client, account |-> e.thread.account, person |-> roles'[e.by].from] = Sender(h)
    BY <1>1, <2>1, <2>2 DEF Sender
  <2> QED BY <1>1, <1>3, <1>4, <1>6, <2>1, <2>2, <2>3 DEF EntryKnows
<1>11. inbox' = inbox \cup {e}
  BY <1>1, <1>5, <1>9
<1>12. SocialShapes'
  BY <1>1, <1>6, <1>9, <1>11 DEF SocialInv, SocialShapes
<1>13. Onwards(h)
  BY <1>1, <1>6, <1>11 DEF Onwards
<1>14. \A a \in Accounts : RowKnows(a)'
  BY <1>1 DEF SocialInv, RowKnows
<1> QED BY <1>1, <1>8, <1>10, <1>12, <1>13, <1>14, <1>11, SocialMoves

LEMMA AnswerHereKeeps == ASSUME SocialInv, NEW h \in Hands, AnswerHere(h) PROVE SocialInv'
<1>1. /\ hand[h].pc = "reply" /\ hand[h].pc \in Delivering /\ To(h, "done")
      /\ UNCHANGED <<feed, roles, known, threads, inbox>>
  BY DEF AnswerHere, In, Delivering
<1>2. /\ HandKnows(h) /\ hand[h].artist = rows[AccountOf(h)].owner /\ AccountOf(h) \in Accounts
      /\ hand[h].artist \in Studios
  BY <1>1, DeliveryIs
<1>3. hand[h].late = FALSE
  BY <1>1, <1>2 DEF HandKnows, Delivering
<1>4. PICK e \in [by : Hands, thread : threads] : e = [by |-> h, thread |-> ThreadOf(h)]
  BY <1>1, ThreadIs
<1>5. /\ hand' \in [Hands -> HandRows] /\ \A p \in Hands : p # h => hand'[p] = hand[p]
      /\ hand'[h].pc = "done" /\ hand'[h].late = hand[h].late /\ hand'[h].artist = hand[h].artist
  BY <1>1, HandTurns DEF HandSteps
<1>6. ASSUME rows' \in [Accounts -> SocialRows], \A a \in Accounts : RowKnows(a)',
             \A a \in Accounts : rows'[a].owner = rows[a].owner,
             \A r \in replies' : r \notin replies => r = e, replies \subseteq replies'
      PROVE  SocialInv'
  <2>1. HandKnows(h)'
    BY <1>1, <1>2, <1>3, <1>5, <1>6, DeliveryGoesOn DEF Delivering
  <2>2. ReplyKnows(e)'
    BY <1>3, <1>4, <1>5 DEF ReplyKnows
  <2>3. SocialShapes'
    BY <1>1, <1>4, <1>5, <1>6 DEF SocialInv, SocialShapes
  <2>4. Onwards(h)
    BY <1>1, <1>5, <1>6 DEF Onwards
  <2>5. \A r \in replies' : r \notin replies => ReplyKnows(r)'
    BY <1>6, <2>2
  <2> QED BY <1>1, <1>6, <2>1, <2>3, <2>4, <2>5, SocialMoves
<1>7. ASSUME UNCHANGED rows, replies' = replies \cup {e} \/ UNCHANGED replies
      PROVE  SocialInv'
  <2>1. rows' \in [Accounts -> SocialRows] /\ \A a \in Accounts : RowKnows(a)'
    BY <1>1, <1>7 DEF SocialInv, SocialShapes, RowKnows
  <2> QED BY <1>6, <1>7, <2>1
<1>8. CASE rows' = [rows EXCEPT ![AccountOf(h)].status = "ACTION_REQUIRED"] /\ UNCHANGED replies
  <2>1. rows[AccountOf(h)].owner # Nobody
    BY <1>2, SocialBounds DEF Nobody
  <2>2. /\ rows' \in [Accounts -> SocialRows] /\ \A b \in Accounts : RowKnows(b)'
        /\ \A b \in Accounts : rows'[b].owner = rows[b].owner
    <3>1. PICK a \in Accounts : a = AccountOf(h)
      BY <1>2
    <3>2. rows[a].owner # Nobody /\ rows' = [rows EXCEPT ![a].status = "ACTION_REQUIRED"]
      BY <1>8, <2>1, <3>1
    <3> QED BY <1>1, <3>2, StatusMoves
  <2> QED BY <1>6, <1>8, <2>2
<1> QED BY <1>4, <1>7, <1>8 DEF AnswerHere

LEMMA SocialStep == ASSUME SocialInv, [SocialNext]_socialVars PROVE SocialInv'
<1>1. ASSUME NEW h \in Hands, HandStep(h) PROVE SocialInv'
  BY <1>1, AuthorizeKeeps, ReserveKeeps, SubscribeKeeps, InspectKeeps, RecordHealthKeeps, CheckHealthKeeps,
     DisconnectKeeps, RouteKeeps, SkipDuplicateKeeps, FindClientKeeps, MeetClientKeeps, PlaceThreadKeeps,
     StoreMessageKeeps, AnswerHereKeeps DEF HandStep
<1>2. CASE UNCHANGED socialVars
  <2>1. SocialShapes' /\ ThreadsKnow' /\ \A a \in Accounts : RowKnows(a)'
    BY <1>2 DEF socialVars, SocialInv, SocialShapes, ThreadsKnow, RowKnows
  <2>2. \A h \in Hands : HandKnows(h)'
    BY <1>2 DEF socialVars, SocialInv, HandKnows, Does, AccountOf, Stored, Sender, Files
  <2>3. (\A e \in inbox' : EntryKnows(e)') /\ \A e \in replies' : ReplyKnows(e)'
    BY <1>2 DEF socialVars, SocialInv, EntryKnows, ReplyKnows
  <2> QED BY <2>1, <2>2, <2>3 DEF SocialInv
<1> QED BY <1>1, <1>2 DEF SocialNext

\* However sign-ins, checks and deliveries overlap: a page's credentials are of the
\* artist it routes to, a message stands with its sender in a thread of the artist
\* of its account, and a redelivery is neither stored nor answered.
THEOREM MessagesFindTheirArtist == SocialSpec => []SocialSafe
<1>1. ASSUME SocialInv PROVE SocialSafe
  <2>1. SocialTypeOK
    <3>1. \A a \in Accounts : rows[a] \in SocialRows
      BY <1>1 DEF SocialInv, SocialShapes
    <3>2. \A h \in Hands : hand[h].pc \in HandSteps /\ hand[h].todo \subseteq Accounts
      BY <1>1 DEF SocialInv, SocialShapes, HandRows
    <3> QED BY <1>1, <3>1, <3>2 DEF SocialInv, SocialShapes, SocialTypeOK, SocialRows, Threads, Identified
  <2>2. OwnersOnly
    BY <1>1 DEF SocialInv, SocialShapes, RowKnows, HandKnows, OwnersOnly
  <2>3. FiledUnderSender
    BY <1>1 DEF SocialInv, EntryKnows, FiledUnderSender
  <2>4. RedeliveryIgnored
    BY <1>1 DEF SocialInv, EntryKnows, ReplyKnows, RedeliveryIgnored
  <2> QED BY <2>1, <2>2, <2>3, <2>4 DEF SocialSafe
<1> QED BY SocialStart, SocialStep, <1>1, PTL DEF SocialSpec

-----------------------------------------------------------------------------
(* The activation page (module StudioActivation).                          *)

\* A non-empty part of 1 .. n has a last number.
LEMMA LastExists ==
    ASSUME NEW n \in Nat, NEW S \in SUBSET (1 .. n), S # {}
    PROVE  \E i \in S : \A j \in S : j <= i
<1> DEFINE R == OpToRel(<, Nat)
           T == {n - i : i \in S}
<1>1. IsWellFoundedOn(R, Nat)
  BY NatLessThanWellFounded
<1>2. \A m, k \in Nat : m < k => <<m, k>> \in R
  BY DEF OpToRel
<1>3. T \subseteq Nat /\ T # {}
  <2>1. ASSUME NEW i \in S PROVE n - i \in Nat
    <3>1. i \in Int /\ 1 <= i /\ i <= n
      OBVIOUS
    <3> QED BY <3>1
  <2> QED BY <2>1
<1> HIDE DEF R
<1>4. PICK m \in T : \A k \in T : ~(<<k, m>> \in R)
  BY <1>1, <1>3, WFMin
<1>5. PICK i \in S : m = n - i
  BY <1>4
<1>6. ASSUME NEW j \in S PROVE j <= i
  <2>1. n - j \in T /\ n - j \in Nat /\ m \in Nat
    BY <1>3, <1>5
  <2>2. ~(n - j < m)
    BY <1>2, <1>4, <2>1
  <2> QED BY <1>5, <2>2
<1> QED BY <1>6

\* What is stored at LatestOf: a command of that kind with none after it, or
\* nothing, if there is none.
LEMMA LatestIs ==
    ASSUME NEW does, NEW n \in Nat
    PROVE  /\ LatestOf(does, n) \in 0 .. n
           /\ \A i \in 1 .. n : trail[i].does \in does => i <= LatestOf(does, n)
           /\ LatestOf(does, n) # 0 => trail[LatestOf(does, n)].does \in does
<1> DEFINE at == {i \in 1 .. n : trail[i].does \in does}
<1>1. LatestOf(does, n) = IF at = {} THEN 0 ELSE CHOOSE i \in at : \A j \in at : j <= i
  BY DEF LatestOf
<1>2. CASE at = {}
  BY <1>1, <1>2
<1>3. CASE at # {}
  <2>1. \E i \in at : \A j \in at : j <= i
    BY <1>3, LastExists
  <2>2. LatestOf(does, n) \in at /\ \A j \in at : j <= LatestOf(does, n)
    BY <1>1, <1>3, <2>1
  <2> QED BY <2>2
<1> QED BY <1>2, <1>3

\* Of the first n commands stored, an activation follows every pause and every
\* choice of a strategy.
LiveAt(n) ==
    \E k \in 1 .. n : /\ trail[k].does = "activate"
                      /\ \A j \in k .. n : trail[j].does \notin {"strategy", "pause"}

\* ... and a test of calls follows every choice of a strategy.
CalledAt(n) ==
    \E k \in 1 .. n : trail[k].arg = "VOICE" /\ \A j \in k .. n : trail[j].does # "strategy"

Decisions == {"IN_PROGRESS", "LIVE", "PAUSED"}
PhoneStates == {"none"} \cup CarrierStates \cup {p.state : p \in FirstPhones}
ActivationRows == [strategy : Strategies, marked : SUBSET Tests, status : Decisions]
Views == [strategy : Strategies, marked : SUBSET Tests, status : Decisions, upTo : Nat,
          id : Nat, state : PhoneStates, prepared : BOOLEAN, detected : SUBSET SmsTests]
ReaderRows == [pc : {"new", "check", "refused", "write", "log", "load", "shown"},
               left : SUBSET Queries, view : Views]

ActivationShapes ==
    /\ \A h \in Staff : Asked(command[h])
    /\ trail \in Seq({command[h] : h \in Staff})
    /\ activation \in ActivationRows /\ phone \in [id : Nat, state : PhoneStates]
    /\ texts \subseteq Nat \X SmsTests /\ prepared \in BOOLEAN /\ outside \in 0 .. OutsideLimit
    /\ reader \in [Staff -> ReaderRows] /\ journal \subseteq Staff

\* The requests that have stored their command.
HasStored(h) == command[h].does # "view" /\ reader[h].pc \in {"log", "load", "shown"}
Storing == {h \in Staff : HasStored(h)}

\* Who only looks at the page stores nothing.
OnlyLooks(h) == command[h].does = "view" => reader[h].pc \notin {"check", "refused", "write", "log"}

\* The row, or a copy of it taken after n commands.
KnownOf(copy, n) ==
    /\ copy.status = "LIVE" => LiveAt(n)
    /\ "VOICE" \in copy.marked => CalledAt(n)

ViewIs(h) ==
    reader[h].view.upTo <= Len(trail) /\ KnownOf(reader[h].view, reader[h].view.upTo)

ActivationInv ==
    /\ ActivationShapes /\ Len(trail) = Cardinality(Storing)
    /\ KnownOf(activation, Len(trail))
    /\ \A h \in Staff : ViewIs(h) /\ OnlyLooks(h)

LEMMA ActivationStart == ActivationInit => ActivationInv
<1> SUFFICES ASSUME ActivationInit PROVE ActivationInv
  OBVIOUS
<1>1. /\ trail = << >> /\ Len(trail) = 0 /\ journal = {} /\ outside = 0 /\ prepared \in BOOLEAN
      /\ activation = [strategy |-> "TEMPORARY", marked |-> {}, status |-> "IN_PROGRESS"]
      /\ reader = [h \in Staff |-> [pc |-> "new", left |-> {}, view |-> NoView]]
      /\ command \in Commands /\ phone \in FirstPhones /\ texts \in FirstTexts
  BY DEF ActivationInit
<1>2. NoView \in Views /\ NoView.status = "IN_PROGRESS" /\ NoView.marked = {} /\ NoView.upTo = 0
  BY DEF NoView, Views, Strategies, Decisions, PhoneStates
<1>3. reader \in [Staff -> ReaderRows]
  BY <1>1, <1>2 DEF ReaderRows
<1>4. phone \in [id : Nat, state : PhoneStates]
  <2>1. phone.id \in Nat /\ phone = [id |-> phone.id, state |-> phone.state] /\ phone.state \in PhoneStates
    BY <1>1, ActivationBounds DEF PhoneStates
  <2> QED BY <2>1
<1>5. activation \in ActivationRows /\ trail \in Seq({command[h] : h \in Staff})
  BY <1>1 DEF ActivationRows, Strategies, Decisions
<1>6. \A h \in Staff : Asked(command[h])
  BY <1>1, ActivationBounds
<1>7. ActivationShapes
  <2>1. outside \in 0 .. OutsideLimit /\ texts \subseteq Nat \X SmsTests /\ journal \subseteq Staff
    BY <1>1, ActivationBounds
  <2> QED BY <1>1, <1>3, <1>4, <1>5, <1>6, <2>1 DEF ActivationShapes
<1>8. Storing = {}
  BY <1>1 DEF Storing, HasStored
<1>9. Len(trail) = Cardinality(Storing)
  BY <1>1, <1>8, FS_EmptySet
<1>10. KnownOf(activation, Len(trail)) /\ \A h \in Staff : ViewIs(h) /\ OnlyLooks(h)
  BY <1>1, <1>2 DEF KnownOf, ViewIs, OnlyLooks
<1> QED BY <1>7, <1>9, <1>10 DEF ActivationInv

\* A request reads, or moves on, and stores nothing.
LEMMA ReaderMoves ==
    ASSUME ActivationInv, NEW h \in Staff,
           UNCHANGED <<command, activation, phone, texts, prepared, outside, trail>>,
           journal' \subseteq Staff, reader' \in [Staff -> ReaderRows],
           \A p \in Staff : p # h => reader'[p] = reader[p],
           ViewIs(h)', OnlyLooks(h)', HasStored(h)' <=> HasStored(h)
    PROVE  ActivationInv'
<1>1. ActivationShapes'
  BY DEF ActivationInv, ActivationShapes
<1>2. \A p \in Staff : HasStored(p)' <=> HasStored(p)
  BY DEF HasStored
<1>3. Storing' = Storing
  BY <1>2 DEF Storing
<1>4. Len(trail)' = Cardinality(Storing)'
  BY <1>3 DEF ActivationInv
<1>5. KnownOf(activation, Len(trail))'
  BY DEF ActivationInv, KnownOf, LiveAt, CalledAt
<1>6. ASSUME NEW p \in Staff PROVE ViewIs(p)' /\ OnlyLooks(p)'
  BY DEF ActivationInv, ViewIs, OnlyLooks, KnownOf, LiveAt, CalledAt
<1> QED BY <1>1, <1>4, <1>5, <1>6 DEF ActivationInv

\* A copy stays right while nothing is stored.
LEMMA ViewStays ==
    ASSUME ActivationInv, NEW h \in Staff, UNCHANGED trail, reader'[h].view = reader[h].view
    PROVE  ViewIs(h)'
BY DEF ActivationInv, ViewIs, KnownOf, LiveAt, CalledAt

\* A request moves on to its next place.
LEMMA GotoMoves ==
    ASSUME ActivationInv, NEW h \in Staff,
           NEW pc \in {"new", "check", "refused", "write", "log", "load", "shown"}, Goto(h, pc)
    PROVE  /\ reader' \in [Staff -> ReaderRows] /\ reader'[h].pc = pc /\ reader'[h].view = reader[h].view
           /\ \A p \in Staff : p # h => reader'[p] = reader[p]
<1>1. reader \in [Staff -> ReaderRows] /\ reader[h] \in ReaderRows
  BY DEF ActivationInv, ActivationShapes
<1> DEFINE todo == IF Loading(pc) THEN Queries ELSE {}
<1>2. reader' = [reader EXCEPT ![h].pc = pc, ![h].left = todo] /\ todo \subseteq Queries
  BY DEF Goto
<1> HIDE DEF todo
<1>3. reader'[h] = [reader[h] EXCEPT !.pc = pc, !.left = todo]
  BY <1>1, <1>2
<1>4. reader'[h] \in ReaderRows /\ reader'[h].pc = pc /\ reader'[h].view = reader[h].view
  BY <1>1, <1>2, <1>3 DEF ReaderRows
<1> QED BY <1>1, <1>2, <1>4

LEMMA ActivationStartKeeps == ASSUME ActivationInv, NEW h \in Staff, Start(h) PROVE ActivationInv'
<1> DEFINE pc == CASE command[h].does = "activate" -> "check" [] command[h].does = "view" -> "load"
                   [] OTHER -> "write"
<1>1. /\ reader[h].pc = "new" /\ Goto(h, pc)
      /\ UNCHANGED <<command, activation, phone, texts, prepared, outside, trail, journal>>
  BY DEF Start
<1>2. /\ pc \in {"check", "load", "write"} /\ (pc = "load" <=> command[h].does = "view")
  OBVIOUS
<1> HIDE DEF pc
<1>3. /\ reader' \in [Staff -> ReaderRows] /\ reader'[h].pc = pc /\ reader'[h].view = reader[h].view
      /\ \A p \in Staff : p # h => reader'[p] = reader[p]
  BY <1>1, <1>2, GotoMoves
<1>4. ViewIs(h)'
  BY <1>1, <1>3, ViewStays
<1>5. OnlyLooks(h)' /\ (HasStored(h)' <=> HasStored(h))
  BY <1>1, <1>2, <1>3 DEF OnlyLooks, HasStored
<1>6. journal' \subseteq Staff
  BY <1>1 DEF ActivationInv, ActivationShapes
<1> QED BY <1>1, <1>3, <1>4, <1>5, <1>6, ReaderMoves

LEMMA CheckedKeeps == ASSUME ActivationInv, NEW h \in Staff, Checked(h) PROVE ActivationInv'
<1> DEFINE pc == IF ReadyToActivate(reader[h].view) THEN "write" ELSE "refused"
<1>1. /\ reader[h].pc = "check" /\ Goto(h, pc)
      /\ UNCHANGED <<command, activation, phone, texts, prepared, outside, trail, journal>>
  BY DEF Checked
<1>2. pc \in {"write", "refused"}
  OBVIOUS
<1> HIDE DEF pc
<1>3. /\ reader' \in [Staff -> ReaderRows] /\ reader'[h].pc = pc /\ reader'[h].view = reader[h].view
      /\ \A p \in Staff : p # h => reader'[p] = reader[p]
  BY <1>1, <1>2, GotoMoves
<1>4. ViewIs(h)'
  BY <1>1, <1>3, ViewStays
<1>5. OnlyLooks(h)' /\ (HasStored(h)' <=> HasStored(h))
  BY <1>1, <1>2, <1>3 DEF OnlyLooks, HasStored, ActivationInv
<1>6. journal' \subseteq Staff
  BY <1>1 DEF ActivationInv, ActivationShapes
<1> QED BY <1>1, <1>3, <1>4, <1>5, <1>6, ReaderMoves

LEMMA ShownKeeps == ASSUME ActivationInv, NEW h \in Staff, Shown(h) PROVE ActivationInv'
<1>1. /\ reader[h].pc = "load" /\ Goto(h, "shown")
      /\ UNCHANGED <<command, activation, phone, texts, prepared, outside, trail, journal>>
  BY DEF Shown
<1>2. /\ reader' \in [Staff -> ReaderRows] /\ reader'[h].pc = "shown" /\ reader'[h].view = reader[h].view
      /\ \A p \in Staff : p # h => reader'[p] = reader[p]
  BY <1>1, GotoMoves
<1>3. ViewIs(h)'
  BY <1>1, <1>2, ViewStays
<1>4. OnlyLooks(h)' /\ (HasStored(h)' <=> HasStored(h))
  BY <1>1, <1>2 DEF OnlyLooks, HasStored
<1>5. journal' \subseteq Staff
  BY <1>1 DEF ActivationInv, ActivationShapes
<1> QED BY <1>1, <1>2, <1>3, <1>4, <1>5, ReaderMoves

LEMMA WriteEventKeeps == ASSUME ActivationInv, NEW h \in Staff, WriteEvent(h) PROVE ActivationInv'
<1>1. /\ reader[h].pc = "log" /\ Goto(h, "load") /\ journal' = journal \cup {h}
      /\ UNCHANGED <<command, activation, phone, texts, prepared, outside, trail>>
  BY DEF WriteEvent
<1>2. /\ reader' \in [Staff -> ReaderRows] /\ reader'[h].pc = "load" /\ reader'[h].view = reader[h].view
      /\ \A p \in Staff : p # h => reader'[p] = reader[p]
  BY <1>1, GotoMoves
<1>3. ViewIs(h)'
  BY <1>1, <1>2, ViewStays
<1>4. OnlyLooks(h)' /\ (HasStored(h)' <=> HasStored(h))
  BY <1>1, <1>2 DEF OnlyLooks, HasStored
<1>5. journal' \subseteq Staff
  BY <1>1 DEF ActivationInv, ActivationShapes
<1> QED BY <1>1, <1>2, <1>3, <1>4, <1>5, ReaderMoves

\* One query of the page is answered.
LEMMA QueryKeeps == ASSUME ActivationInv, NEW h \in Staff, NEW q \in Queries, Query(h, q) PROVE ActivationInv'
<1> DEFINE view == reader[h].view
           left == reader[h].left \ {q}
           found == {t \in SmsTests : <<phone.id, t>> \in texts}
           saved == [view EXCEPT !.strategy = activation.strategy, !.marked = activation.marked,
                                 !.status = activation.status, !.upTo = Len(trail)]
           number == [view EXCEPT !.id = phone.id, !.state = phone.state, !.prepared = prepared]
           detected == [view EXCEPT !.detected = found]
           seen == CASE q = "saved" -> saved [] q = "number" -> number [] q = "detected" -> detected
<1>1. /\ UNCHANGED <<command, activation, phone, texts, prepared, outside, trail, journal>>
      /\ reader' = [reader EXCEPT ![h].left = left, ![h].view = seen]
      /\ reader \in [Staff -> ReaderRows] /\ reader[h] \in ReaderRows
  BY DEF Query, ActivationInv, ActivationShapes
<1>2. /\ view \in Views /\ left \subseteq Queries /\ found \subseteq SmsTests
      /\ activation \in ActivationRows /\ phone \in [id : Nat, state : PhoneStates]
      /\ prepared \in BOOLEAN /\ Len(trail) \in Nat
  BY <1>1 DEF ReaderRows, ActivationInv, ActivationShapes
<1>3. ViewIs(h) /\ KnownOf(activation, Len(trail))
  BY DEF ActivationInv
<1>4. seen \in Views /\ seen.upTo <= Len(trail) /\ KnownOf(seen, seen.upTo)
  <2> HIDE DEF view, found
  <2>1. CASE q = "saved"
    <3>1. seen = saved
      BY <2>1
    <3>2. saved \in Views
      BY <1>2 DEF Views, ActivationRows
    <3>3. /\ saved.upTo = Len(trail) /\ saved.status = activation.status /\ saved.marked = activation.marked
      BY <1>2 DEF Views
    <3> HIDE DEF seen, saved
    <3> QED BY <1>2, <1>3, <3>1, <3>2, <3>3 DEF KnownOf
  <2>2. CASE q = "number"
    <3>1. seen = number
      BY <2>2
    <3>2. /\ number \in Views /\ number.upTo = view.upTo /\ number.status = view.status
          /\ number.marked = view.marked
      BY <1>2 DEF Views
    <3> QED BY <1>3, <3>1, <3>2 DEF KnownOf, ViewIs, view
  <2>3. CASE q = "detected"
    <3>1. seen = detected
      BY <2>3
    <3>2. /\ detected \in Views /\ detected.upTo = view.upTo /\ detected.status = view.status
          /\ detected.marked = view.marked
      BY <1>2 DEF Views
    <3> QED BY <1>3, <3>1, <3>2 DEF KnownOf, ViewIs, view
  <2> QED BY <2>1, <2>2, <2>3 DEF Queries
<1> HIDE DEF view, left, seen
<1>5. reader'[h] = [reader[h] EXCEPT !.left = left, !.view = seen]
  BY <1>1
<1>6. reader'[h] \in ReaderRows /\ reader'[h].pc = reader[h].pc /\ reader'[h].view = seen
  BY <1>1, <1>2, <1>4, <1>5 DEF ReaderRows
<1>7. reader' \in [Staff -> ReaderRows] /\ \A p \in Staff : p # h => reader'[p] = reader[p]
  BY <1>1, <1>6
<1>8. ViewIs(h)'
  <2>1. PICK v \in Views : v = seen
    BY <1>4
  <2> QED BY <1>1, <1>4, <1>6, <2>1 DEF ViewIs, KnownOf, LiveAt, CalledAt
<1>9. OnlyLooks(h)' /\ (HasStored(h)' <=> HasStored(h))
  BY <1>1, <1>6 DEF OnlyLooks, HasStored, ActivationInv
<1>10. journal' \subseteq Staff
  BY <1>1 DEF ActivationInv, ActivationShapes
<1> QED BY <1>1, <1>7, <1>8, <1>9, <1>10, ReaderMoves

\* What was so of the first commands stays so when another is stored.
LEMMA AppendKeepsFirst ==
    ASSUME ActivationInv, NEW h \in Staff, trail' = Append(trail, command[h])
    PROVE  /\ Len(trail') = Len(trail) + 1 /\ trail'[Len(trail) + 1] = command[h]
           /\ \A i \in 1 .. Len(trail) : trail'[i] = trail[i]
           /\ Len(trail) \in Nat /\ trail' \in Seq({command[p] : p \in Staff})
<1> DEFINE S == {command[p] : p \in Staff}
<1>1. trail \in Seq(S) /\ command[h] \in S
  BY DEF ActivationInv, ActivationShapes
<1> HIDE DEF S
<1>2. Append(trail, command[h]) \in Seq(S) /\ Len(Append(trail, command[h])) = Len(trail) + 1 /\ Len(trail) \in Nat
  BY <1>1
<1>3. /\ \A i \in 1 .. Len(trail) : Append(trail, command[h])[i] = trail[i]
      /\ Append(trail, command[h])[Len(trail) + 1] = command[h]
  BY <1>1
<1> QED BY <1>2, <1>3 DEF S

LEMMA FirstStaysKnown ==
    ASSUME ActivationInv, NEW h \in Staff, trail' = Append(trail, command[h]),
           NEW n \in Nat, n <= Len(trail)
    PROVE  (LiveAt(n) => LiveAt(n)') /\ (CalledAt(n) => CalledAt(n)')
<1>1. Len(trail) \in Nat /\ \A i \in 1 .. Len(trail) : trail'[i] = trail[i]
  BY AppendKeepsFirst
<1>2. \A i \in 1 .. n : trail'[i] = trail[i]
  BY <1>1
<1>3. \A k \in 1 .. n : \A j \in k .. n : j \in 1 .. n
  OBVIOUS
<1>4. LiveAt(n) => LiveAt(n)'
  BY <1>2, <1>3 DEF LiveAt
<1>5. CalledAt(n) => CalledAt(n)'
  BY <1>2, <1>3 DEF CalledAt
<1> QED BY <1>4, <1>5

\* ... and it stays so up to and with the new one, if that undoes nothing.
LEMMA LiveGoesOn ==
    ASSUME ActivationInv, NEW h \in Staff, trail' = Append(trail, command[h]), LiveAt(Len(trail)),
           command[h].does \notin {"strategy", "pause"}
    PROVE  LiveAt(Len(trail))'
<1>1. /\ Len(trail') = Len(trail) + 1 /\ trail'[Len(trail) + 1] = command[h] /\ Len(trail) \in Nat
      /\ \A i \in 1 .. Len(trail) : trail'[i] = trail[i]
  BY AppendKeepsFirst
<1>2. PICK k \in 1 .. Len(trail) : /\ trail[k].does = "activate"
                                   /\ \A j \in k .. Len(trail) : trail[j].does \notin {"strategy", "pause"}
  BY DEF LiveAt
<1>3. ASSUME NEW j \in k .. Len(trail) + 1 PROVE trail'[j].does \notin {"strategy", "pause"}
  <2>1. CASE j = Len(trail) + 1
    BY <1>1, <2>1
  <2>2. CASE j # Len(trail) + 1
    <3>1. j \in k .. Len(trail) /\ j \in 1 .. Len(trail)
      BY <1>1, <1>2, <2>2
    <3> QED BY <1>1, <1>2, <3>1
  <2> QED BY <2>1, <2>2
<1>4. k \in 1 .. Len(trail) + 1 /\ trail'[k].does = "activate"
  BY <1>1, <1>2
<1> QED BY <1>1, <1>3, <1>4 DEF LiveAt

LEMMA CallGoesOn ==
    ASSUME ActivationInv, NEW h \in Staff, trail' = Append(trail, command[h]), CalledAt(Len(trail)),
           command[h].does # "strategy"
    PROVE  CalledAt(Len(trail))'
<1>1. /\ Len(trail') = Len(trail) + 1 /\ trail'[Len(trail) + 1] = command[h] /\ Len(trail) \in Nat
      /\ \A i \in 1 .. Len(trail) : trail'[i] = trail[i]
  BY AppendKeepsFirst
<1>2. PICK k \in 1 .. Len(trail) : /\ trail[k].arg = "VOICE"
                                   /\ \A j \in k .. Len(trail) : trail[j].does # "strategy"
  BY DEF CalledAt
<1>3. ASSUME NEW j \in k .. Len(trail) + 1 PROVE trail'[j].does # "strategy"
  <2>1. CASE j = Len(trail) + 1
    BY <1>1, <2>1
  <2>2. CASE j # Len(trail) + 1
    <3>1. j \in k .. Len(trail) /\ j \in 1 .. Len(trail)
      BY <1>1, <1>2, <2>2
    <3> QED BY <1>1, <1>2, <3>1
  <2> QED BY <2>1, <2>2
<1>4. k \in 1 .. Len(trail) + 1 /\ trail'[k].arg = "VOICE"
  BY <1>1, <1>2
<1> QED BY <1>1, <1>3, <1>4 DEF CalledAt

LEMMA WriteCommandKeeps == ASSUME ActivationInv, NEW h \in Staff, WriteCommand(h) PROVE ActivationInv'
<1> DEFINE n == Len(trail)
           c == command[h]
<1>1. /\ reader[h].pc = "write" /\ Goto(h, "log") /\ trail' = Append(trail, c)
      /\ UNCHANGED <<command, phone, texts, prepared, outside, journal>>
      /\ activation' = CASE c.does = "strategy" -> StrategyChosen(c.arg)
                         [] c.does = "test" -> [activation EXCEPT !.marked = @ \cup {c.arg}]
                         [] c.does = "activate" -> [activation EXCEPT !.status = "LIVE"]
                         [] c.does = "pause" -> [activation EXCEPT !.status = "PAUSED"]
  BY DEF WriteCommand
<1>2. /\ reader' \in [Staff -> ReaderRows] /\ reader'[h].pc = "log" /\ reader'[h].view = reader[h].view
      /\ \A p \in Staff : p # h => reader'[p] = reader[p]
  BY <1>1, GotoMoves
<1>3. /\ n' = n + 1 /\ trail'[n + 1] = c /\ n \in Nat
      /\ \A i \in 1 .. n : trail'[i] = trail[i]
      /\ trail' \in Seq({command[p] : p \in Staff})
  BY <1>1, AppendKeepsFirst
<1>4. /\ activation \in ActivationRows /\ KnownOf(activation, n) /\ Asked(c)
      /\ c.does # "view"
  BY <1>1 DEF ActivationInv, ActivationShapes, OnlyLooks
<1>5. /\ (LiveAt(n) /\ c.does \notin {"strategy", "pause"} => LiveAt(n)')
      /\ (CalledAt(n) /\ c.does # "strategy" => CalledAt(n)')
  BY <1>1, LiveGoesOn, CallGoesOn
<1>6. activation' \in ActivationRows /\ KnownOf(activation, n)'
  <2> HIDE DEF c, n
  <2>1. CASE c.does = "strategy"
    <3>1. activation' = [strategy |-> c.arg, marked |-> {}, status |-> "IN_PROGRESS"]
      BY <1>1, <2>1 DEF StrategyChosen
    <3> QED BY <1>4, <2>1, <3>1 DEF ActivationRows, Asked, Decisions, KnownOf
  <2>2. CASE c.does = "test"
    <3>1. activation' = [activation EXCEPT !.marked = @ \cup {c.arg}] /\ c.arg \in Tests
      BY <1>1, <1>4, <2>2 DEF Asked
    <3>2. /\ activation' \in ActivationRows /\ activation'.status = activation.status
          /\ activation'.marked = activation.marked \cup {c.arg}
      BY <1>4, <3>1 DEF ActivationRows
    <3>3. ASSUME c.arg = "VOICE" PROVE CalledAt(n)'
      <4>1. n + 1 \in 1 .. n' /\ trail'[n + 1].arg = "VOICE" /\ \A j \in n + 1 .. n' : j = n + 1
        BY <1>3, <3>3
      <4>2. trail'[n + 1].does # "strategy"
        BY <1>3, <2>2
      <4> QED BY <4>1, <4>2 DEF CalledAt
    <3> QED BY <1>4, <1>5, <2>2, <3>2, <3>3 DEF KnownOf
  <2>3. CASE c.does = "activate"
    <3>1. activation' = [activation EXCEPT !.status = "LIVE"]
      BY <1>1, <2>3
    <3>2. activation' \in ActivationRows /\ activation'.marked = activation.marked
      BY <1>4, <3>1 DEF ActivationRows, Decisions
    <3>3. LiveAt(n)'
      <4>1. n + 1 \in 1 .. n' /\ \A j \in n + 1 .. n' : j = n + 1
        BY <1>3
      <4>2. trail'[n + 1].does = "activate"
        BY <1>3, <2>3
      <4> QED BY <4>1, <4>2 DEF LiveAt
    <3> QED BY <1>4, <1>5, <2>3, <3>2, <3>3 DEF KnownOf
  <2>4. CASE c.does = "pause"
    <3>1. activation' = [activation EXCEPT !.status = "PAUSED"]
      BY <1>1, <2>4
    <3>2. activation' \in ActivationRows /\ activation'.marked = activation.marked /\ activation'.status = "PAUSED"
      BY <1>4, <3>1 DEF ActivationRows, Decisions
    <3> QED BY <1>4, <1>5, <2>4, <3>2 DEF KnownOf
  <2> QED BY <1>4, <2>1, <2>2, <2>3, <2>4 DEF Asked
<1>7. ActivationShapes'
  <2>1. trail' \in Seq({command'[p] : p \in Staff}) /\ \A p \in Staff : Asked(command'[p])
    <3>1. command' = command /\ \A p \in Staff : Asked(command[p])
      BY <1>1 DEF ActivationInv, ActivationShapes
    <3> QED BY <1>3, <3>1
  <2>2. /\ phone' \in [id : Nat, state : PhoneStates] /\ texts' \subseteq Nat \X SmsTests
        /\ prepared' \in BOOLEAN /\ outside' \in 0 .. OutsideLimit /\ journal' \subseteq Staff
    BY <1>1 DEF ActivationInv, ActivationShapes
  <2> QED BY <1>2, <1>6, <2>1, <2>2 DEF ActivationShapes
<1>8. Len(trail)' = Cardinality(Storing)'
  <2>1. \A p \in Staff : p # h => (HasStored(p)' <=> HasStored(p))
    BY <1>1, <1>2 DEF HasStored
  <2>2. HasStored(h)' /\ ~HasStored(h)
    BY <1>1, <1>2, <1>4 DEF HasStored
  <2>3. Storing' = Storing \cup {h} /\ h \notin Storing
    BY <2>1, <2>2 DEF Storing
  <2>4. IsFiniteSet(Storing)
    <3>1. Storing \in SUBSET Staff
      BY DEF Storing
    <3> QED BY <3>1, ActivationBounds, FS_Subset
  <2>5. Cardinality(Storing \cup {h}) = Cardinality(Storing) + 1
    BY <2>3, <2>4, FS_AddElement
  <2> QED BY <1>3, <2>3, <2>5 DEF ActivationInv
<1>9. ASSUME NEW p \in Staff PROVE ViewIs(p)' /\ OnlyLooks(p)'
  <2>1. reader'[p].view = reader[p].view /\ ViewIs(p) /\ OnlyLooks(p) /\ reader[p].view.upTo \in Nat
    BY <1>2 DEF ActivationInv, ActivationShapes, ReaderRows, Views
  <2>2. OnlyLooks(p)'
    BY <1>1, <1>2, <1>4, <2>1 DEF OnlyLooks
  <2>3. PICK m \in Nat : m = reader[p].view.upTo
    BY <2>1
  <2>4. m <= n /\ (LiveAt(m) => LiveAt(m)') /\ (CalledAt(m) => CalledAt(m)')
    BY <1>1, <2>1, <2>3, FirstStaysKnown DEF ViewIs
  <2>5. ViewIs(p)'
    BY <1>3, <2>1, <2>3, <2>4 DEF ViewIs, KnownOf
  <2> QED BY <2>2, <2>5
<1> QED BY <1>6, <1>7, <1>8, <1>9 DEF ActivationInv

\* Around the requests the number, its texts and the studio's pages change.
LEMMA OutsideKeeps ==
    ASSUME ActivationInv, UNCHANGED <<command, activation, reader, trail, journal>>,
           outside' \in 0 .. OutsideLimit, phone' \in [id : Nat, state : PhoneStates],
           texts' \subseteq Nat \X SmsTests, prepared' \in BOOLEAN
    PROVE  ActivationInv'
<1>1. ActivationShapes'
  BY DEF ActivationInv, ActivationShapes
<1>2. Storing' = Storing
  BY DEF Storing, HasStored
<1>3. \A n : (LiveAt(n)' <=> LiveAt(n)) /\ (CalledAt(n)' <=> CalledAt(n))
  BY DEF LiveAt, CalledAt
<1>4. KnownOf(activation, Len(trail))' /\ \A h \in Staff : ViewIs(h)' /\ OnlyLooks(h)'
  BY <1>3 DEF ActivationInv, KnownOf, ViewIs, OnlyLooks
<1> QED BY <1>1, <1>2, <1>4 DEF ActivationInv

LEMMA ActivationStep == ActivationInv /\ [ActivationNext]_activationVars => ActivationInv'
<1> SUFFICES ASSUME ActivationInv, [ActivationNext]_activationVars PROVE ActivationInv'
  OBVIOUS
<1>1. /\ outside \in 0 .. OutsideLimit /\ phone \in [id : Nat, state : PhoneStates]
      /\ texts \subseteq Nat \X SmsTests /\ prepared \in BOOLEAN
  BY DEF ActivationInv, ActivationShapes
<1>2. Outside => outside' \in 0 .. OutsideLimit
  BY <1>1, ActivationBounds DEF Outside
<1>3. CASE UNCHANGED activationVars
  BY <1>1, <1>3, OutsideKeeps DEF activationVars
<1>4. CASE Prepare
  BY <1>1, <1>2, <1>4, OutsideKeeps DEF Prepare
<1>5. CASE NumberAssigned
  <2>1. phone' \in [id : Nat, state : PhoneStates]
    BY <1>1, <1>5 DEF NumberAssigned, PhoneStates
  <2> QED BY <1>1, <1>2, <1>5, <2>1, OutsideKeeps DEF NumberAssigned
<1>6. ASSUME NEW s \in CarrierStates, NumberDecided(s) PROVE ActivationInv'
  <2>1. phone' \in [id : Nat, state : PhoneStates]
    BY <1>1, <1>6 DEF NumberDecided, PhoneStates
  <2> QED BY <1>1, <1>2, <1>6, <2>1, OutsideKeeps DEF NumberDecided
<1>7. ASSUME NEW t \in SmsTests, TextPasses(t) PROVE ActivationInv'
  BY <1>1, <1>2, <1>7, OutsideKeeps DEF TextPasses
<1> QED BY <1>3, <1>4, <1>5, <1>6, <1>7, ActivationStartKeeps, CheckedKeeps, WriteCommandKeeps, WriteEventKeeps,
           ShownKeeps, QueryKeeps DEF ActivationNext

\* However the requests of several members of staff cross, a studio is shown as
\* live only if it was activated after the last pause and the last change of
\* strategy, and tested by a call if it ports its number (studio activation).
THEOREM NothingIsCarriedOver == ActivationSpec => []ActivationSafe
<1>1. ActivationInv => ActivationTypeOK
  <2> SUFFICES ASSUME ActivationInv PROVE ActivationTypeOK
    OBVIOUS
  <2>1. Storing \in SUBSET Staff
    BY DEF Storing
  <2>2. Len(trail) <= Cardinality(Staff)
    BY <2>1, ActivationBounds, FS_Subset DEF ActivationInv
  <2> QED BY <2>2 DEF ActivationInv, ActivationShapes, ActivationTypeOK, ActivationRows, ReaderRows, Decisions
<1>2. ActivationInv => NothingCarriedOver
  <2> SUFFICES ASSUME ActivationInv, NEW h \in Staff, NEW view, view = reader[h].view, ShownStatus(view) = "LIVE"
               PROVE  /\ LatestOf({"strategy", "pause"}, view.upTo) < LatestOf({"activate"}, view.upTo)
                      /\ view.strategy = "PORT_EXISTING" =>
                           \E i \in LatestOf({"strategy"}, view.upTo) + 1 .. view.upTo : trail[i].arg = "VOICE"
    BY DEF NothingCarriedOver
  <2>1. view \in Views /\ KnownOf(view, view.upTo)
    BY DEF ActivationInv, ActivationShapes, ReaderRows, ViewIs
  <2>2. view.status = "LIVE" /\ ReadyToActivate(view)
    BY DEF ShownStatus
  <2>3. PICK n \in Nat : n = view.upTo
    BY <2>1 DEF Views
  <2>4. LatestOf({"strategy", "pause"}, n) < LatestOf({"activate"}, n)
    <3> DEFINE last == LatestOf({"strategy", "pause"}, n)
               live == LatestOf({"activate"}, n)
    <3>1. PICK k \in 1 .. n : /\ trail[k].does = "activate"
                              /\ \A j \in k .. n : trail[j].does \notin {"strategy", "pause"}
      BY <2>1, <2>2, <2>3 DEF KnownOf, LiveAt
    <3>2. last \in 0 .. n /\ (last # 0 => trail[last].does \in {"strategy", "pause"})
      BY LatestIs
    <3>3. live \in 0 .. n /\ k <= live
      BY <3>1, LatestIs
    <3> HIDE DEF last, live
    <3>4. last < k
      <4>1. CASE last = 0
        BY <3>1, <4>1
      <4>2. CASE last # 0
        <5>1. last \notin k .. n
          BY <3>1, <3>2, <4>2
        <5> QED BY <3>1, <3>2, <5>1
      <4> QED BY <4>1, <4>2
    <3>5. last < live
      BY <3>1, <3>2, <3>3, <3>4
    <3> QED BY <3>5 DEF last, live
  <2>5. ASSUME view.strategy = "PORT_EXISTING"
        PROVE  \E i \in LatestOf({"strategy"}, n) + 1 .. n : trail[i].arg = "VOICE"
    <3> DEFINE last == LatestOf({"strategy"}, n)
    <3>1. "VOICE" \in view.marked
      <4>1. "VOICE" \in RequiredTests(view.strategy) /\ "VOICE" \notin view.detected
        BY <2>1, <2>5 DEF RequiredTests, Views, SmsTests
      <4> QED BY <2>2, <4>1 DEF ReadyToActivate
    <3>2. PICK k \in 1 .. n : trail[k].arg = "VOICE" /\ \A j \in k .. n : trail[j].does # "strategy"
      BY <2>1, <2>3, <3>1 DEF KnownOf, CalledAt
    <3>3. last \in 0 .. n /\ (last # 0 => trail[last].does \in {"strategy"})
      BY LatestIs
    <3> HIDE DEF last
    <3>4. last < k
      <4>1. CASE last = 0
        BY <3>2, <4>1
      <4>2. CASE last # 0
        <5>1. last \notin k .. n
          BY <3>2, <3>3, <4>2
        <5> QED BY <3>2, <3>3, <5>1
      <4> QED BY <4>1, <4>2
    <3>5. k \in last + 1 .. n
      BY <3>2, <3>3, <3>4
    <3> QED BY <3>2, <3>5 DEF last
  <2> QED BY <2>3, <2>4, <2>5
<1>3. ActivationInv => ActivationSafe
  BY <1>1, <1>2 DEF ActivationSafe
<1> QED BY ActivationStart, ActivationStep, <1>3, PTL DEF ActivationSpec

-----------------------------------------------------------------------------
(* The carrier registration (module CampaignRegistration).                 *)

ReviewStates == {"draft", "review", "approved", "rejected"}
ReviewAnswers == ReviewStates \cup {"none", "same"}
ReportedStatuses == {"", "CUSTOMER_PROFILE_PENDING", "CUSTOMER_PROFILE_REJECTED",
    "A2P_PROFILE_PENDING", "A2P_PROFILE_REJECTED", "BRAND_PENDING", "BRAND_REJECTED"}
ProfileStatuses == ReportedStatuses \cup {"DRAFT", "CUSTOMER_PROFILE_DRAFT",
    "A2P_PROFILE_DRAFT", "CAMPAIGN_PENDING", "APPROVED", "SUBMISSION_ERROR"}
AllPieces == CustomerPieces \cup MessagingPieces \cup {"adopted"}
FiledRows == [kind : {"customer", "trust", "brand", "campaign"}, of : Nat, state : ReviewStates]
ProfileRows == [status : ProfileStatuses, review : ReviewAnswers, customer : Nat, trust : Nat,
                brand : Nat, pieces : SUBSET AllPieces, rev : Nat]
RequestSteps == CallsTwilio \cup {"start", "done", "failed", "report", "edit", "adopt", "keep",
    "a2pKeep", "brandKeep", "campaignAdd", "campaignSet", "finish", "ask", "note"}
RequestRows == [pc : RequestSteps, saw : ProfileRows, pieces : SUBSET AllPieces, sid : Nat,
                at : 1 .. ServiceCount, good : BOOLEAN, status : ReportedStatuses,
                answer : ReviewAnswers]

CampaignShapes ==
    /\ profile \in ProfileRows
    /\ campaigns \in [1 .. ServiceCount -> [sid : Nat, state : ReviewAnswers]]
    /\ filed \in Seq(FiledRows)
    /\ request \in [Requests -> RequestRows]
    /\ task \in RequestJobs
    /\ failures \in 0 .. FailLimit

ServiceApproved(s) == \E sid \in DOMAIN filed : filed[sid] = Filed("campaign", s, "approved")
SidsFiled(it) ==
    it.customer <= Len(filed) /\ it.trust <= Len(filed) /\ it.brand <= Len(filed)
\* The sid names the campaign of that service.
CampaignOf(s, sid) ==
    /\ 1 <= sid /\ sid <= Len(filed)
    /\ filed[sid].kind = "campaign" /\ filed[sid].of = s

\* What a request holds is filed.  An answer "approved" is Twilio's and stays so;
\* a request that found all good so far passed approved campaigns only.
RequestKnows(r) ==
    /\ SidsFiled(request[r].saw) /\ request[r].sid <= Len(filed)
    /\ request[r].pc \in {"attach", "send", "customer", "ask"} => request[r].saw.customer # 0
    /\ request[r].pc \in {"keep", "a2pKeep", "a2pAttach", "a2pSend"} => request[r].sid # 0
    /\ request[r].pc \in {"campaignAdd", "campaignSet"} =>
          /\ CampaignOf(request[r].at, request[r].sid)
          /\ request[r].answer = "approved" => filed[request[r].sid].state = "approved"
    /\ request[r].good => \A s \in 1 .. ServiceCount :
          s < request[r].at \/ request[r].pc = "finish" => ServiceApproved(s)
    /\ request[r].pc = "adopt" => task.from = "prior"
    /\ task.job[r] = "track" =>
          /\ request[r].pc \in {"start", "ask", "note", "done"}
          /\ request[r].pc \in {"ask", "note"} => request[r].saw.status \in Watched

\* The rows name what is filed; an adopted registration is on file.
RowsFiled ==
    /\ SidsFiled(profile)
    /\ \A s \in 1 .. ServiceCount : campaigns[s].sid # 0 => CampaignOf(s, campaigns[s].sid)
    /\ task.from = "prior" => CampaignOf(Adopted, 4)

CampaignInv ==
    CampaignShapes /\ (\A r \in Requests : RequestKnows(r)) /\ RowsFiled /\ ApprovedMeansApproved

\* Twilio forgets nothing: what was filed keeps its kind and its service, and what
\* the carriers approved stays approved.
FiledGrows ==
    /\ Len(filed) <= Len(filed')
    /\ \A sid \in 1 .. Len(filed) :
          /\ filed'[sid].kind = filed[sid].kind /\ filed'[sid].of = filed[sid].of
          /\ filed[sid].state = "approved" => filed'[sid].state = "approved"

LEMMA FiledStays == ASSUME CampaignShapes, UNCHANGED filed PROVE FiledGrows /\ filed' \in Seq(FiledRows)
BY DEF CampaignShapes, FiledGrows

LEMMA FiledNew ==
    ASSUME CampaignShapes, NEW it \in FiledRows, filed' = Append(filed, it)
    PROVE  /\ FiledGrows /\ filed' \in Seq(FiledRows)
           /\ Len(filed') = Len(filed) + 1 /\ filed'[Len(filed) + 1] = it
<1>1. filed \in Seq(FiledRows)
  BY DEF CampaignShapes
<1>2. /\ filed' \in Seq(FiledRows) /\ Len(filed') = Len(filed) + 1 /\ filed'[Len(filed) + 1] = it
      /\ \A sid \in 1 .. Len(filed) : filed'[sid] = filed[sid]
  BY <1>1
<1>3. Len(filed) <= Len(filed')
  BY <1>1, <1>2
<1> QED BY <1>2, <1>3 DEF FiledGrows

LEMMA FiledDecided ==
    ASSUME CampaignShapes, NEW sid \in 1 .. Len(filed), NEW state \in ReviewStates,
           filed' = [filed EXCEPT ![sid].state = state], filed[sid].state # "approved"
    PROVE  FiledGrows /\ filed' \in Seq(FiledRows)
<1>1. filed \in Seq(FiledRows) /\ filed[sid] \in FiledRows
  BY DEF CampaignShapes
<1>2. [filed[sid] EXCEPT !.state = state] \in FiledRows
  BY <1>1 DEF FiledRows
<1>3. filed' = [filed EXCEPT ![sid] = [filed[sid] EXCEPT !.state = state]]
  BY <1>1
<1>4. filed' \in Seq(FiledRows) /\ Len(filed') = Len(filed)
  BY <1>1, <1>2, <1>3
<1>5. /\ \A i \in 1 .. Len(filed) : i # sid => filed'[i] = filed[i]
      /\ filed'[sid].kind = filed[sid].kind /\ filed'[sid].of = filed[sid].of
  BY <1>1, <1>3 DEF FiledRows
<1>6. Len(filed) \in Nat
  BY <1>1
<1> QED BY <1>4, <1>5, <1>6 DEF FiledGrows

LEMMA ApprovedStays ==
    ASSUME CampaignShapes, FiledGrows, filed' \in Seq(FiledRows), NEW s, ServiceApproved(s)
    PROVE  ServiceApproved(s)'
<1>1. PICK sid \in 1 .. Len(filed) : filed[sid] = Filed("campaign", s, "approved")
  BY DEF ServiceApproved, CampaignShapes
<1>2. filed[sid].kind = "campaign" /\ filed[sid].of = s /\ filed[sid].state = "approved"
  BY <1>1 DEF Filed
<1>3. sid \in 1 .. Len(filed') /\ filed'[sid] \in FiledRows
  BY DEF FiledGrows, CampaignShapes
<1>4. filed'[sid].kind = "campaign" /\ filed'[sid].of = s /\ filed'[sid].state = "approved"
  BY <1>2 DEF FiledGrows
<1>5. filed'[sid] = Filed("campaign", s, "approved")
  BY <1>3, <1>4 DEF Filed, FiledRows
<1> QED BY <1>3, <1>5 DEF ServiceApproved, CampaignShapes

LEMMA CampaignOfStays ==
    ASSUME CampaignShapes, FiledGrows, filed' \in Seq(FiledRows), NEW s, NEW sid \in Nat, CampaignOf(s, sid)
    PROVE  CampaignOf(s, sid)'
<1>1. Len(filed) \in Nat /\ Len(filed') \in Nat
  BY DEF CampaignShapes
<1> QED BY <1>1 DEF CampaignOf, FiledGrows

\* The rows of the table Twilio starts with.
LEMMA FiledAtRows ==
    ASSUME NEW stage \in {"new", "prior", "customer", "brand"}
    PROVE  /\ FiledAt(stage) \in Seq(FiledRows) /\ ProfileAt(stage) \in ProfileRows
           /\ ProfileAt(stage).status # "APPROVED" /\ ProfileAt(stage).customer <= Len(FiledAt(stage))
           /\ ProfileAt(stage).trust <= Len(FiledAt(stage)) /\ ProfileAt(stage).brand <= Len(FiledAt(stage))
           /\ stage = "prior" => /\ Len(FiledAt(stage)) = 4
                                 /\ FiledAt(stage)[4].kind = "campaign" /\ FiledAt(stage)[4].of = Adopted
<1>1. Adopted \in Nat
  BY CampaignBounds
<1>2. NewProfile \in ProfileRows
  BY DEF NewProfile, ProfileRows, ProfileStatuses, ReviewAnswers
<1>3. /\ Filed("customer", 0, "review") \in FiledRows /\ Filed("customer", 0, "approved") \in FiledRows
      /\ Filed("trust", 0, "approved") \in FiledRows /\ Filed("brand", 0, "approved") \in FiledRows
      /\ Filed("campaign", Adopted, "approved") \in FiledRows
      /\ Filed("campaign", Adopted, "approved").kind = "campaign"
      /\ Filed("campaign", Adopted, "approved").of = Adopted
  BY <1>1 DEF Filed, FiledRows, ReviewStates
<1>4. CASE stage = "new"
  BY <1>2, <1>4 DEF FiledAt, ProfileAt, NewProfile
<1>5. CASE stage = "customer"
  <2>1. FiledAt(stage) = <<Filed("customer", 0, "review")>>
    BY <1>5 DEF FiledAt
  <2>2. FiledAt(stage) \in Seq(FiledRows) /\ Len(FiledAt(stage)) = 1
    BY <1>3, <2>1
  <2>3. ProfileAt(stage) = [status |-> "CUSTOMER_PROFILE_PENDING", review |-> "review", customer |-> 1,
                           trust |-> 0, brand |-> 0, pieces |-> CustomerPieces, rev |-> 0]
    BY <1>5 DEF ProfileAt, NewProfile
  <2>4. /\ ProfileAt(stage) \in ProfileRows /\ ProfileAt(stage).status = "CUSTOMER_PROFILE_PENDING"
        /\ ProfileAt(stage).customer = 1 /\ ProfileAt(stage).trust = 0 /\ ProfileAt(stage).brand = 0
    BY <2>3 DEF ProfileRows, ProfileStatuses, ReportedStatuses, ReviewAnswers, ReviewStates, AllPieces
  <2>5. ProfileAt(stage).status # "APPROVED" /\ stage # "prior"
    BY <1>5, <2>4
  <2>6. /\ ProfileAt(stage).customer <= Len(FiledAt(stage))
        /\ ProfileAt(stage).trust <= Len(FiledAt(stage)) /\ ProfileAt(stage).brand <= Len(FiledAt(stage))
    BY <2>2, <2>4
  <2> QED BY <2>2, <2>4, <2>5, <2>6
<1>6. CASE stage = "brand"
  <2>1. FiledAt(stage) = <<Filed("customer", 0, "approved"), Filed("trust", 0, "approved"),
                           Filed("brand", 0, "approved")>>
    BY <1>6 DEF FiledAt
  <2>2. FiledAt(stage) \in Seq(FiledRows) /\ Len(FiledAt(stage)) = 3
    BY <1>3, <2>1
  <2>3. ProfileAt(stage) = [status |-> "BRAND_PENDING", review |-> "review", customer |-> 1, trust |-> 2,
                           brand |-> 3, pieces |-> CustomerPieces \cup MessagingPieces, rev |-> 0]
    BY <1>6 DEF ProfileAt, NewProfile
  <2>4. /\ ProfileAt(stage) \in ProfileRows /\ ProfileAt(stage).status = "BRAND_PENDING"
        /\ ProfileAt(stage).customer = 1 /\ ProfileAt(stage).trust = 2 /\ ProfileAt(stage).brand = 3
    BY <2>3 DEF ProfileRows, ProfileStatuses, ReportedStatuses, ReviewAnswers, ReviewStates, AllPieces
  <2>5. ProfileAt(stage).status # "APPROVED" /\ stage # "prior"
    BY <1>6, <2>4
  <2>6. /\ ProfileAt(stage).customer <= Len(FiledAt(stage))
        /\ ProfileAt(stage).trust <= Len(FiledAt(stage)) /\ ProfileAt(stage).brand <= Len(FiledAt(stage))
    BY <2>2, <2>4
  <2> QED BY <2>2, <2>4, <2>5, <2>6
<1>7. CASE stage = "prior"
  <2>1. FiledAt(stage) = <<Filed("customer", 0, "approved"), Filed("trust", 0, "approved"),
                           Filed("brand", 0, "approved"), Filed("campaign", Adopted, "approved")>>
    BY <1>7 DEF FiledAt
  <2>2. /\ FiledAt(stage) \in Seq(FiledRows) /\ Len(FiledAt(stage)) = 4
        /\ FiledAt(stage)[4] = Filed("campaign", Adopted, "approved")
    BY <1>3, <2>1
  <2>3. ProfileAt(stage) = NewProfile
    BY <1>7 DEF ProfileAt
  <2> QED BY <1>2, <1>3, <2>2, <2>3 DEF NewProfile
<1> QED BY <1>4, <1>5, <1>6, <1>7

LEMMA CampaignStart == CampaignInit => CampaignInv
<1> SUFFICES ASSUME CampaignInit PROVE CampaignInv
  OBVIOUS
<1>1. /\ task \in RequestJobs /\ profile = ProfileAt(task.from) /\ filed = FiledAt(task.from)
      /\ campaigns = [s \in 1 .. ServiceCount |-> Unfiled] /\ failures = 0
  BY DEF CampaignInit
<1>2. PICK stage \in {"new", "prior", "customer", "brand"} : task.from = stage
  BY <1>1, CampaignBounds
<1>3. NewProfile \in ProfileRows /\ NewProfile.customer = 0 /\ NewProfile.trust = 0 /\ NewProfile.brand = 0
  BY DEF NewProfile, ProfileRows, ProfileStatuses, ReviewAnswers
<1>4. 1 \in 1 .. ServiceCount /\ 0 \in 0 .. FailLimit
  BY CampaignBounds
<1>5. \A r \in Requests : /\ request[r] \in RequestRows /\ request[r].pc = "start" /\ request[r].sid = 0
                          /\ request[r].saw = NewProfile /\ request[r].at = 1
  <2> SUFFICES ASSUME NEW r \in Requests
               PROVE  /\ request[r] \in RequestRows /\ request[r].pc = "start" /\ request[r].sid = 0
                      /\ request[r].saw = NewProfile /\ request[r].at = 1
    OBVIOUS
  <2>1. request[r] = [pc |-> "start", saw |-> NewProfile, pieces |-> {}, sid |-> 0,
                      at |-> 1, good |-> TRUE, status |-> "", answer |-> "none"]
    BY DEF CampaignInit
  <2>2. "start" \in RequestSteps /\ "" \in ReportedStatuses /\ "none" \in ReviewAnswers
    BY DEF RequestSteps, ReportedStatuses, ReviewAnswers
  <2>3. {} \in SUBSET AllPieces /\ 0 \in Nat /\ TRUE \in BOOLEAN
    OBVIOUS
  <2>4. ASSUME NEW t \in BOOLEAN, NEW new, 
               new = [pc |-> "start", saw |-> NewProfile, pieces |-> {}, sid |-> 0,
                      at |-> 1, good |-> t, status |-> "", answer |-> "none"]
        PROVE  new \in RequestRows /\ new.pc = "start" /\ new.sid = 0 /\ new.saw = NewProfile /\ new.at = 1
    BY <1>3, <1>4, <2>2, <2>3, <2>4 DEF RequestRows
  <2> QED BY <2>1, <2>3, <2>4
<1>6. request \in [Requests -> RequestRows]
  <2>1. request = [r \in Requests |-> request[r]]
    BY DEF CampaignInit
  <2> QED BY <1>5, <2>1
<1>7. campaigns \in [1 .. ServiceCount -> [sid : Nat, state : ReviewAnswers]]
  BY <1>1 DEF Unfiled, ReviewAnswers
<1>8. CampaignShapes
  BY <1>1, <1>2, <1>4, <1>6, <1>7, FiledAtRows DEF CampaignShapes
<1>9. Len(filed) \in Nat
  BY <1>8 DEF CampaignShapes
<1>10. \A r \in Requests : RequestKnows(r)
  BY <1>3, <1>5, <1>9 DEF RequestKnows, SidsFiled
<1>11. RowsFiled /\ ApprovedMeansApproved
  BY <1>1, <1>2, <1>9, FiledAtRows DEF RowsFiled, SidsFiled, CampaignOf, Unfiled, ApprovedMeansApproved
<1> QED BY <1>8, <1>10, <1>11 DEF CampaignInv

\* A request that stands still knows what it knew.
LEMMA OthersKnow ==
    ASSUME CampaignInv, NEW q \in Requests, request'[q] = request[q], UNCHANGED task,
           FiledGrows, filed' \in Seq(FiledRows)
    PROVE  RequestKnows(q)'
<1>1. /\ CampaignShapes /\ RequestKnows(q) /\ request[q] \in RequestRows
      /\ Len(filed) \in Nat /\ Len(filed') \in Nat /\ Len(filed) <= Len(filed')
  BY DEF CampaignInv, CampaignShapes, FiledGrows
<1>2. request[q].saw \in ProfileRows /\ request[q].sid \in Nat /\ request[q].at \in 1 .. ServiceCount
  BY <1>1 DEF RequestRows
<1>3. SidsFiled(request[q].saw)' /\ request'[q].sid <= Len(filed')
  BY <1>1, <1>2 DEF RequestKnows, SidsFiled, ProfileRows
<1>4. request[q].pc \in {"campaignAdd", "campaignSet"} =>
          /\ CampaignOf(request[q].at, request[q].sid)'
          /\ request[q].answer = "approved" => filed'[request[q].sid].state = "approved"
  <2> SUFFICES ASSUME request[q].pc \in {"campaignAdd", "campaignSet"}
               PROVE  /\ CampaignOf(request[q].at, request[q].sid)'
                      /\ request[q].answer = "approved" => filed'[request[q].sid].state = "approved"
    OBVIOUS
  <2>1. PICK s, sid : s = request[q].at /\ sid = request[q].sid
    OBVIOUS
  <2>2. CampaignOf(s, sid) /\ (request[q].answer = "approved" => filed[sid].state = "approved")
    BY <1>1, <2>1 DEF RequestKnows
  <2>3. CampaignOf(s, sid)'
    BY <1>1, <1>2, <2>1, <2>2, CampaignOfStays
  <2>4. sid \in 1 .. Len(filed)
    BY <1>1, <1>2, <2>1, <2>2 DEF CampaignOf
  <2>5. filed[sid].state = "approved" => filed'[sid].state = "approved"
    BY <2>4 DEF FiledGrows
  <2> QED BY <2>1, <2>2, <2>3, <2>5
<1>5. request[q].good => \A s \in 1 .. ServiceCount :
          s < request[q].at \/ request[q].pc = "finish" => ServiceApproved(s)'
  BY <1>1, ApprovedStays DEF RequestKnows
<1> QED BY <1>1, <1>3, <1>4, <1>5 DEF RequestKnows

\* A request that goes on without looking at campaigns or finishing.
LEMMA ProgressKnows ==
    ASSUME CampaignInv, NEW r \in Requests, UNCHANGED task, FiledGrows, filed' \in Seq(FiledRows),
           request'[r] \in RequestRows, SidsFiled(request[r].saw)', request'[r].sid <= Len(filed'),
           request'[r].good = request[r].good, request'[r].at = request[r].at,
           request'[r].pc \notin {"finish", "campaignAdd", "campaignSet"},
           request'[r].pc = "adopt" => task.from = "prior",
           request'[r].pc \in {"attach", "send", "customer", "ask"} => request'[r].saw.customer # 0,
           request'[r].pc \in {"keep", "a2pKeep", "a2pAttach", "a2pSend"} => request'[r].sid # 0,
           task.job[r] = "track" =>
              /\ request'[r].pc \in {"start", "ask", "note", "done"}
              /\ request'[r].pc \in {"ask", "note"} => request'[r].saw.status \in Watched
    PROVE  RequestKnows(r)'
<1>1. request[r].good => \A s \in 1 .. ServiceCount : s < request[r].at => ServiceApproved(s)'
  BY ApprovedStays DEF CampaignInv, RequestKnows
<1>2. request'[r].good => \A s \in 1 .. ServiceCount :
          s < request'[r].at \/ request'[r].pc = "finish" => ServiceApproved(s)'
  BY <1>1
<1> QED BY <1>2 DEF RequestKnows

\* What a request saw stays filed.
LEMMA SawStays ==
    ASSUME CampaignInv, NEW r \in Requests, FiledGrows, filed' \in Seq(FiledRows)
    PROVE  /\ request[r].saw.customer <= Len(filed') /\ request[r].saw.trust <= Len(filed')
           /\ request[r].saw.brand <= Len(filed') /\ request[r].sid <= Len(filed')
           /\ profile.customer <= Len(filed') /\ profile.trust <= Len(filed') /\ profile.brand <= Len(filed')
<1>1. /\ request[r] \in RequestRows /\ profile \in ProfileRows /\ RequestKnows(r) /\ SidsFiled(profile)
      /\ Len(filed) \in Nat /\ Len(filed') \in Nat /\ Len(filed) <= Len(filed')
  BY DEF CampaignInv, CampaignShapes, FiledGrows, RowsFiled
<1>2. request[r].saw \in ProfileRows /\ request[r].sid \in Nat
  BY <1>1 DEF RequestRows
<1>3. ASSUME NEW it \in ProfileRows PROVE it.customer \in Nat /\ it.trust \in Nat /\ it.brand \in Nat
  BY DEF ProfileRows
<1>4. /\ request[r].saw.customer \in Nat /\ request[r].saw.trust \in Nat /\ request[r].saw.brand \in Nat
      /\ profile.customer \in Nat /\ profile.trust \in Nat /\ profile.brand \in Nat
  BY <1>1, <1>2, <1>3
<1>5. /\ request[r].saw.customer <= Len(filed) /\ request[r].saw.trust <= Len(filed)
      /\ request[r].saw.brand <= Len(filed) /\ request[r].sid <= Len(filed)
      /\ profile.customer <= Len(filed) /\ profile.trust <= Len(filed) /\ profile.brand <= Len(filed)
  BY <1>1 DEF RequestKnows, SidsFiled
<1>6. \A k \in Nat : k <= Len(filed) => k <= Len(filed')
  BY <1>1
<1> QED BY <1>2, <1>4, <1>5, <1>6

\* The campaigns' rows stay true while more is filed.
LEMMA CampaignsStay ==
    ASSUME CampaignInv, UNCHANGED task, FiledGrows, filed' \in Seq(FiledRows)
    PROVE  /\ \A s \in 1 .. ServiceCount, sid \in Nat :
                 sid = campaigns[s].sid /\ sid # 0 => CampaignOf(s, sid)'
           /\ task.from = "prior" => CampaignOf(Adopted, 4)'
<1>1. CampaignShapes /\ Adopted \in Nat /\ 4 \in Nat
  BY CampaignBounds DEF CampaignInv
<1>2. ASSUME NEW s \in 1 .. ServiceCount, NEW sid \in Nat, sid = campaigns[s].sid, sid # 0
      PROVE  CampaignOf(s, sid)'
  <2>1. CampaignOf(s, sid)
    BY <1>2 DEF CampaignInv, RowsFiled
  <2> QED BY <1>1, <2>1, CampaignOfStays
<1>3. task.from = "prior" => CampaignOf(Adopted, 4)'
  BY <1>1, CampaignOfStays DEF CampaignInv, RowsFiled
<1> QED BY <1>2, <1>3

\* What a step of one request must show: its own row and the profile it leaves.
LEMMA CampaignMoves ==
    ASSUME CampaignInv, NEW r \in Requests, UNCHANGED <<campaigns, task>>,
           request' = [request EXCEPT ![r] = request'[r]], request'[r] \in RequestRows, RequestKnows(r)',
           FiledGrows, filed' \in Seq(FiledRows), failures' \in 0 .. FailLimit,
           profile' \in ProfileRows, SidsFiled(profile)',
           profile'.status = "APPROVED" => profile.status = "APPROVED" /\ profile'.brand = profile.brand
    PROVE  CampaignInv'
<1>1. request \in [Requests -> RequestRows]
  BY DEF CampaignInv, CampaignShapes
<1>2. request' \in [Requests -> RequestRows] /\ \A q \in Requests : q # r => request'[q] = request[q]
  BY <1>1
<1>3. CampaignShapes'
  BY <1>2 DEF CampaignInv, CampaignShapes
<1>4. ASSUME NEW q \in Requests PROVE RequestKnows(q)'
  <2>1. CASE q = r
    BY <2>1
  <2>2. CASE q # r
    BY <1>2, <2>2, OthersKnow
  <2> QED BY <2>1, <2>2
<1>5. RowsFiled'
  <2>1. ASSUME NEW s \in 1 .. ServiceCount, campaigns'[s].sid # 0 PROVE CampaignOf(s, campaigns[s].sid)'
    <3>1. PICK sid \in Nat : sid = campaigns[s].sid
      BY DEF CampaignInv, CampaignShapes
    <3> QED BY <2>1, <3>1, CampaignsStay
  <2>2. task'.from = "prior" => CampaignOf(Adopted, 4)'
    BY CampaignsStay
  <2> QED BY <2>1, <2>2 DEF RowsFiled
<1>6. ApprovedMeansApproved'
  <2> SUFFICES ASSUME profile'.status = "APPROVED", ~(task.from = "prior" /\ profile.brand = 3)
               PROVE  \A s \in 1 .. ServiceCount : ServiceApproved(s)'
    BY DEF ApprovedMeansApproved, ServiceApproved
  <2>1. \A s \in 1 .. ServiceCount : ServiceApproved(s)
    BY DEF CampaignInv, ApprovedMeansApproved, ServiceApproved
  <2> QED BY <2>1, ApprovedStays DEF CampaignInv
<1> QED BY <1>3, <1>4, <1>5, <1>6 DEF CampaignInv

\* A request that only moves on.
LEMMA StepsOn ==
    ASSUME CampaignInv, NEW r \in Requests, NEW pc \in RequestSteps, NextStep(r, pc),
           UNCHANGED task, FiledGrows, filed' \in Seq(FiledRows),
           pc \notin {"finish", "adopt", "campaignAdd", "campaignSet"},
           pc \in {"attach", "send", "customer", "ask"} => request[r].saw.customer # 0,
           pc \in {"keep", "a2pKeep", "a2pAttach", "a2pSend"} => request[r].sid # 0,
           task.job[r] = "track" => pc \in {"start", "done"}
    PROVE  /\ request' = [request EXCEPT ![r] = request'[r]]
           /\ request'[r] \in RequestRows /\ RequestKnows(r)'
<1>1. request \in [Requests -> RequestRows] /\ request[r] \in RequestRows
  BY DEF CampaignInv, CampaignShapes
<1>2. /\ request' = [request EXCEPT ![r] = request'[r]]
      /\ request'[r] = [request[r] EXCEPT !.pc = pc]
  BY <1>1 DEF NextStep
<1>3. /\ request'[r] \in RequestRows /\ request'[r].pc = pc /\ request'[r].saw = request[r].saw
      /\ request'[r].sid = request[r].sid /\ request'[r].at = request[r].at
      /\ request'[r].good = request[r].good
  BY <1>1, <1>2 DEF RequestRows
<1>4. SidsFiled(request[r].saw)' /\ request'[r].sid <= Len(filed')
  BY <1>3, SawStays DEF SidsFiled
<1> HIDE DEF CampaignInv
<1>5. RequestKnows(r)'
  BY <1>3, <1>4, ProgressKnows
<1> QED BY <1>2, <1>3, <1>5

\* A request that will report.
LEMMA ReportsNext ==
    ASSUME CampaignInv, NEW r \in Requests, NEW status \in ReportedStatuses, NEW answer \in ReviewAnswers,
           Reply(r, status, answer), UNCHANGED task, FiledGrows, filed' \in Seq(FiledRows),
           task.job[r] # "track"
    PROVE  /\ request' = [request EXCEPT ![r] = request'[r]]
           /\ request'[r] \in RequestRows /\ RequestKnows(r)'
<1>1. request \in [Requests -> RequestRows] /\ request[r] \in RequestRows
  BY DEF CampaignInv, CampaignShapes
<1>2. /\ request' = [request EXCEPT ![r] = request'[r]]
      /\ request'[r] = [request[r] EXCEPT !.pc = "report", !.status = status, !.answer = answer]
  BY <1>1 DEF Reply
<1>3. /\ request'[r] \in RequestRows /\ request'[r].pc = "report" /\ request'[r].saw = request[r].saw
      /\ request'[r].sid = request[r].sid /\ request'[r].at = request[r].at
      /\ request'[r].good = request[r].good
  BY <1>1, <1>2 DEF RequestRows, RequestSteps
<1>4. SidsFiled(request[r].saw)' /\ request'[r].sid <= Len(filed')
  BY <1>3, SawStays DEF SidsFiled
<1>5. RequestKnows(r)'
  BY <1>3, <1>4, ProgressKnows
<1> QED BY <1>2, <1>3, <1>5

\* A request that files something of its own.
LEMMA FilesNext ==
    ASSUME CampaignInv, NEW r \in Requests, NEW kind \in {"customer", "trust", "brand", "campaign"},
           NEW of \in Nat, NEW state \in {"draft", "review"},
           NEW pc \in {"keep", "a2pKeep", "brandKeep", "campaignAdd"},
           FileNew(r, kind, of, state, pc), UNCHANGED task, task.job[r] # "track",
           pc = "campaignAdd" => kind = "campaign" /\ of = request[r].at
    PROVE  /\ request' = [request EXCEPT ![r] = request'[r]]
           /\ request'[r] \in RequestRows /\ RequestKnows(r)'
           /\ FiledGrows /\ filed' \in Seq(FiledRows)
<1>1. /\ request \in [Requests -> RequestRows] /\ request[r] \in RequestRows
      /\ filed \in Seq(FiledRows) /\ CampaignShapes /\ RequestKnows(r)
  BY DEF CampaignInv, CampaignShapes
<1>2. PICK it \in FiledRows : it = Filed(kind, of, state)
  BY DEF Filed, FiledRows, ReviewStates
<1>3. it.kind = kind /\ it.of = of
  BY <1>2 DEF Filed
<1>4. /\ FiledGrows /\ filed' \in Seq(FiledRows)
      /\ Len(filed') = Len(filed) + 1 /\ filed'[Len(filed) + 1] = it
  <2>1. filed' = Append(filed, it)
    BY <1>2 DEF FileNew
  <2> QED BY <1>1, <2>1, FiledNew
<1>5. Len(filed) \in Nat /\ Len(filed') \in Nat
  BY <1>1, <1>4
<1>6. /\ request' = [request EXCEPT ![r] = request'[r]]
      /\ request'[r] = [request[r] EXCEPT !.pc = pc, !.sid = Len(filed) + 1, !.answer = state]
  BY <1>1 DEF FileNew, NewSid
<1>7. /\ request'[r] \in RequestRows /\ request'[r].pc = pc /\ request'[r].saw = request[r].saw
      /\ request'[r].sid = Len(filed) + 1 /\ request'[r].at = request[r].at
      /\ request'[r].good = request[r].good /\ request'[r].answer = state
  <2>1. Len(filed) + 1 \in Nat /\ pc \in RequestSteps /\ state \in ReviewAnswers
    BY <1>5 DEF RequestSteps, ReviewAnswers, ReviewStates
  <2> QED BY <1>1, <1>6, <2>1 DEF RequestRows
<1>8. SidsFiled(request[r].saw)' /\ request'[r].sid <= Len(filed') /\ request'[r].sid # 0
  BY <1>4, <1>5, <1>7, SawStays DEF SidsFiled
<1>9. pc = "campaignAdd" => CampaignOf(request[r].at, request[r].sid)'
  BY <1>3, <1>4, <1>5, <1>7 DEF CampaignOf
<1>10. RequestKnows(r)'
  <2>1. CASE pc # "campaignAdd"
    BY <1>4, <1>7, <1>8, <2>1, ProgressKnows
  <2>2. CASE pc = "campaignAdd"
    <3>1. request[r].good => \A s \in 1 .. ServiceCount : s < request[r].at => ServiceApproved(s)'
      BY <1>1, <1>4, ApprovedStays DEF RequestKnows
    <3>2. request'[r].good => \A s \in 1 .. ServiceCount :
              s < request'[r].at \/ request'[r].pc = "finish" => ServiceApproved(s)'
      BY <1>7, <2>2, <3>1
    <3> QED BY <1>7, <1>8, <1>9, <2>2, <3>2 DEF RequestKnows
  <2> QED BY <2>1, <2>2
<1> QED BY <1>4, <1>6, <1>7, <1>10

\* A step that leaves the rows alone.
LEMMA OnlyRequest ==
    ASSUME CampaignInv, NEW r \in Requests, UNCHANGED <<profile, campaigns, task>>,
           request' = [request EXCEPT ![r] = request'[r]], request'[r] \in RequestRows, RequestKnows(r)',
           FiledGrows, filed' \in Seq(FiledRows), failures' \in 0 .. FailLimit
    PROVE  CampaignInv'
<1>1. profile' \in ProfileRows /\ SidsFiled(profile)'
  BY SawStays DEF CampaignInv, CampaignShapes, SidsFiled
<1> QED BY <1>1, CampaignMoves

\* A step that saves the profile and files nothing.
LEMMA SavesRow ==
    ASSUME CampaignInv, NEW r \in Requests, NEW it \in ProfileRows, SaveProfile(it), SidsFiled(it),
           it.status = "APPROVED" => profile.status = "APPROVED" /\ it.brand = profile.brand,
           UNCHANGED <<campaigns, filed, task, failures>>,
           request' = [request EXCEPT ![r] = request'[r]], request'[r] \in RequestRows, RequestKnows(r)'
    PROVE  CampaignInv'
<1>1. profile \in ProfileRows /\ failures \in 0 .. FailLimit /\ CampaignShapes
  BY DEF CampaignInv, CampaignShapes
<1>2. profile.rev + 1 \in Nat
  BY <1>1 DEF ProfileRows
<1>3. /\ profile' \in ProfileRows /\ profile'.status = it.status /\ profile'.customer = it.customer
      /\ profile'.trust = it.trust /\ profile'.brand = it.brand
  BY <1>2 DEF SaveProfile, ProfileRows
<1>4. FiledGrows /\ filed' \in Seq(FiledRows)
  BY <1>1, FiledStays
<1>5. SidsFiled(profile)'
  BY <1>3 DEF SidsFiled
<1> QED BY <1>1, <1>3, <1>4, <1>5, CampaignMoves

\* ... by moving on only: the status it saves is no approval.
LEMMA SavesStatus ==
    ASSUME CampaignInv, NEW r \in Requests, NEW it \in ProfileRows, SaveProfile(it),
           it.status # "APPROVED", SidsFiled(it), UNCHANGED <<campaigns, filed, task, failures>>,
           NEW pc \in {"done", "a2pAttach"}, NextStep(r, pc), pc = "a2pAttach" => request[r].sid # 0,
           task.job[r] = "track" => pc = "done"
    PROVE  CampaignInv'
<1>1. FiledGrows /\ filed' \in Seq(FiledRows)
  BY FiledStays DEF CampaignInv
<1>2. pc \in RequestSteps
  BY DEF RequestSteps, CallsTwilio
<1>3. /\ request' = [request EXCEPT ![r] = request'[r]]
      /\ request'[r] \in RequestRows /\ RequestKnows(r)'
  BY <1>1, <1>2, StepsOn
<1> QED BY <1>3, SavesRow

LEMMA LookMoves == ASSUME CampaignInv, NEW r \in Requests, Look(r) PROVE CampaignInv'
<1>1. /\ request \in [Requests -> RequestRows] /\ request[r] \in RequestRows /\ profile \in ProfileRows
      /\ task \in RequestJobs /\ failures \in 0 .. FailLimit /\ CampaignShapes
  BY DEF CampaignInv, CampaignShapes
<1>2. UNCHANGED <<profile, campaigns, filed, task, failures>>
  BY DEF Look
<1>3. FiledGrows /\ filed' \in Seq(FiledRows)
  BY <1>1, <1>2, FiledStays
<1>4. PICK job \in CampaignJobNames : job = task.job[r]
  BY <1>1, CampaignBounds
<1> DEFINE open == profile.status \notin Underway
           next == CASE job = "submit" -> IF open THEN "create" ELSE "done"
                     [] job = "edit"   -> IF open THEN "edit" ELSE "done"
                     [] job = "adopt"  -> IF task.from = "prior" THEN "adopt" ELSE "done"
                     [] job = "sync"   -> IF profile.customer = 0 THEN "failed" ELSE "customer"
                     [] job = "track"  -> IF /\ profile.status \in Watched
                                             /\ profile.customer # 0
                                             /\ profile.review \notin {"approved", "rejected"}
                                          THEN "ask" ELSE "done"
<1>5. /\ next \in RequestSteps
      /\ request' = [request EXCEPT ![r].pc = next, ![r].saw = profile, ![r].pieces = profile.pieces]
      /\ next \in {"create", "done", "edit", "adopt", "failed", "customer", "ask"}
      /\ next = "adopt" => task.from = "prior"
      /\ next \in {"customer", "ask"} => profile.customer # 0
      /\ job = "track" => next \in {"ask", "done"} /\ (next = "ask" => profile.status \in Watched)
  <2>1. request' = [request EXCEPT ![r].pc = next, ![r].saw = profile, ![r].pieces = profile.pieces]
    BY <1>4 DEF Look
  <2> HIDE DEF open
  <2>2. CASE job = "submit"
    BY <2>1, <2>2 DEF RequestSteps, CallsTwilio
  <2>3. CASE job = "edit"
    BY <2>1, <2>3 DEF RequestSteps, CallsTwilio
  <2>4. CASE job = "adopt"
    BY <2>1, <2>4 DEF RequestSteps, CallsTwilio
  <2>5. CASE job = "sync"
    BY <2>1, <2>5 DEF RequestSteps, CallsTwilio
  <2>6. CASE job = "track"
    BY <2>1, <2>6 DEF RequestSteps, CallsTwilio
  <2> QED BY <2>2, <2>3, <2>4, <2>5, <2>6 DEF CampaignJobNames
<1> HIDE DEF next
<1>6. /\ request' = [request EXCEPT ![r] = request'[r]]
      /\ request'[r] = [request[r] EXCEPT !.pc = next, !.saw = profile, !.pieces = profile.pieces]
  BY <1>1, <1>5
<1>7. profile.pieces \in SUBSET AllPieces
  BY <1>1 DEF ProfileRows
<1>8. /\ request'[r] \in RequestRows /\ request'[r].pc = next /\ request'[r].saw = profile
      /\ request'[r].sid = request[r].sid /\ request'[r].at = request[r].at
      /\ request'[r].good = request[r].good
  BY <1>1, <1>5, <1>6, <1>7 DEF RequestRows
<1>9. SidsFiled(request[r].saw)' /\ request'[r].sid <= Len(filed')
  BY <1>2, <1>3, <1>8, SawStays DEF SidsFiled
<1>10. RequestKnows(r)'
  BY <1>2, <1>3, <1>4, <1>5, <1>8, <1>9, ProgressKnows
<1> QED BY <1>1, <1>2, <1>3, <1>6, <1>8, <1>10, OnlyRequest

LEMMA SaveIntakeMoves == ASSUME CampaignInv, NEW r \in Requests, SaveIntake(r) PROVE CampaignInv'
<1>1. profile \in ProfileRows /\ SidsFiled(profile)
  BY DEF CampaignInv, CampaignShapes, RowsFiled
<1>2. PICK it : it = [profile EXCEPT !.status = "DRAFT"]
  OBVIOUS
<1>3. it \in ProfileRows /\ it.status # "APPROVED" /\ SidsFiled(it)
  BY <1>1, <1>2 DEF ProfileRows, ProfileStatuses, SidsFiled
<1>4. /\ SaveProfile(it) /\ NextStep(r, "done") /\ UNCHANGED <<campaigns, filed, task, failures>>
      /\ task.job[r] = "edit"
  BY <1>2 DEF SaveIntake, Doing
<1> QED BY <1>3, <1>4, SavesStatus

\* Moving on, reporting and filing, where nothing else changes.
LEMMA NextMoves ==
    ASSUME CampaignInv, NEW r \in Requests, NEW pc \in RequestSteps, NextStep(r, pc),
           UNCHANGED <<profile, campaigns, filed, task>>, failures' \in 0 .. FailLimit,
           pc \notin {"finish", "adopt", "campaignAdd", "campaignSet"},
           pc \in {"attach", "send", "customer", "ask"} => request[r].saw.customer # 0,
           pc \in {"keep", "a2pKeep", "a2pAttach", "a2pSend"} => request[r].sid # 0,
           task.job[r] = "track" => pc \in {"start", "done"}
    PROVE  CampaignInv'
<1>1. FiledGrows /\ filed' \in Seq(FiledRows)
  BY FiledStays DEF CampaignInv
<1>2. /\ request' = [request EXCEPT ![r] = request'[r]]
      /\ request'[r] \in RequestRows /\ RequestKnows(r)'
  BY <1>1, StepsOn
<1> QED BY <1>1, <1>2, OnlyRequest

LEMMA ReplyMoves ==
    ASSUME CampaignInv, NEW r \in Requests, NEW status \in ReportedStatuses, NEW answer \in ReviewAnswers,
           Reply(r, status, answer), UNCHANGED <<profile, campaigns, task, failures>>,
           FiledGrows, filed' \in Seq(FiledRows), task.job[r] # "track"
    PROVE  CampaignInv'
<1>1. failures' \in 0 .. FailLimit
  BY DEF CampaignInv, CampaignShapes
<1>2. /\ request' = [request EXCEPT ![r] = request'[r]]
      /\ request'[r] \in RequestRows /\ RequestKnows(r)'
  BY ReportsNext
<1> QED BY <1>1, <1>2, OnlyRequest

LEMMA FilingMoves ==
    ASSUME CampaignInv, NEW r \in Requests, NEW kind \in {"customer", "trust", "brand", "campaign"},
           NEW of \in Nat, NEW state \in {"draft", "review"},
           NEW pc \in {"keep", "a2pKeep", "brandKeep", "campaignAdd"},
           FileNew(r, kind, of, state, pc), UNCHANGED <<profile, campaigns, task, failures>>,
           task.job[r] # "track", pc = "campaignAdd" => kind = "campaign" /\ of = request[r].at
    PROVE  CampaignInv'
<1>1. failures' \in 0 .. FailLimit
  BY DEF CampaignInv, CampaignShapes
<1>2. /\ request' = [request EXCEPT ![r] = request'[r]]
      /\ request'[r] \in RequestRows /\ RequestKnows(r)' /\ FiledGrows /\ filed' \in Seq(FiledRows)
  BY FilesNext
<1> QED BY <1>1, <1>2, OnlyRequest

LEMMA StepNames ==
    /\ CallsTwilio \subseteq RequestSteps
    /\ {"done", "failed", "attach", "send", "a2p", "trust", "brand", "campaign", "a2pAttach", "a2pSend"}
           \subseteq RequestSteps
    /\ {"draft", "review", "approved", "rejected", "same"} \subseteq ReviewAnswers
BY DEF RequestSteps, CallsTwilio, ReviewAnswers, ReviewStates

LEMMA CreateCustomerMoves == ASSUME CampaignInv, NEW r \in Requests, CreateCustomer(r) PROVE CampaignInv'
<1>1. /\ task.job[r] = "submit" /\ UNCHANGED <<profile, campaigns, task, failures>>
      /\ failures \in 0 .. FailLimit
  BY DEF CreateCustomer, Doing, CampaignInv, CampaignShapes
<1>2. CASE request[r].saw.customer = 0
  <2>1. FileNew(r, "customer", 0, "draft", "keep")
    BY <1>2 DEF CreateCustomer, Copy
  <2> QED BY <1>1, <2>1, FilingMoves
<1>3. CASE request[r].saw.customer # 0
  <2>1. NextStep(r, "attach") /\ UNCHANGED filed
    BY <1>3 DEF CreateCustomer, Copy
  <2> QED BY <1>1, <1>3, <2>1, StepNames, NextMoves
<1> QED BY <1>2, <1>3

LEMMA KeepCustomerMoves == ASSUME CampaignInv, NEW r \in Requests, KeepCustomer(r) PROVE CampaignInv'
<1>1. /\ request \in [Requests -> RequestRows] /\ request[r] \in RequestRows /\ profile \in ProfileRows
      /\ SidsFiled(profile) /\ RequestKnows(r) /\ CampaignShapes
  BY DEF CampaignInv, CampaignShapes, RowsFiled
<1>2. /\ task.job[r] = "submit" /\ request[r].sid # 0 /\ request[r].sid \in Nat
      /\ request[r].sid <= Len(filed) /\ UNCHANGED <<campaigns, filed, task, failures>>
  BY <1>1 DEF KeepCustomer, Doing, RequestKnows, RequestRows
<1>3. PICK it : it = [profile EXCEPT !.customer = request[r].sid, !.review = "draft",
                                     !.status = "CUSTOMER_PROFILE_DRAFT"]
  OBVIOUS
<1>4. /\ it \in ProfileRows /\ it.status # "APPROVED" /\ SidsFiled(it) /\ it.customer # 0
  BY <1>1, <1>2, <1>3 DEF ProfileRows, ProfileStatuses, ReviewAnswers, ReviewStates, SidsFiled
<1>5. SaveProfile(it) /\ request' = [request EXCEPT ![r].pc = "attach", ![r].saw = it]
  BY <1>3 DEF KeepCustomer
<1>6. /\ request' = [request EXCEPT ![r] = request'[r]]
      /\ request'[r] = [request[r] EXCEPT !.pc = "attach", !.saw = it]
  BY <1>1, <1>5
<1>7. /\ request'[r] \in RequestRows /\ request'[r].pc = "attach" /\ request'[r].saw = it
      /\ request'[r].sid = request[r].sid /\ request'[r].at = request[r].at
      /\ request'[r].good = request[r].good
  BY <1>1, <1>4, <1>6, StepNames DEF RequestRows
<1>8. FiledGrows /\ filed' \in Seq(FiledRows)
  BY <1>1, <1>2, FiledStays
<1>9. SidsFiled(request[r].saw)' /\ request'[r].sid <= Len(filed')
  BY <1>2, <1>4, <1>7 DEF SidsFiled
<1>10. RequestKnows(r)'
  BY <1>2, <1>4, <1>7, <1>8, <1>9, ProgressKnows
<1> QED BY <1>2, <1>4, <1>5, <1>6, <1>7, <1>10, SavesRow

LEMMA AttachMoves ==
    ASSUME CampaignInv, NEW r \in Requests, NEW wanted \in {CustomerPieces, MessagingPieces},
           NEW pc \in {"send", "a2pSend"}, AttachPieces(r, wanted, pc), task.job[r] # "track",
           pc = "send" => request[r].saw.customer # 0, pc = "a2pSend" => request[r].sid # 0
    PROVE  CampaignInv'
<1>1. /\ request \in [Requests -> RequestRows] /\ request[r] \in RequestRows /\ profile \in ProfileRows
      /\ SidsFiled(profile) /\ CampaignShapes /\ failures \in 0 .. FailLimit
  BY DEF CampaignInv, CampaignShapes, RowsFiled
<1>2. UNCHANGED <<campaigns, filed, task, failures>>
  BY DEF AttachPieces
<1>3. PICK pieces \in SUBSET AllPieces : pieces = request[r].pieces \cup wanted
  BY <1>1 DEF RequestRows, AllPieces
<1>4. /\ request' = [request EXCEPT ![r] = request'[r]]
      /\ request'[r] = [request[r] EXCEPT !.pc = pc, !.pieces = pieces]
  BY <1>1, <1>3 DEF AttachPieces
<1>5. /\ request'[r] \in RequestRows /\ request'[r].pc = pc /\ request'[r].saw = request[r].saw
      /\ request'[r].sid = request[r].sid /\ request'[r].at = request[r].at
      /\ request'[r].good = request[r].good
  <2>1. pc \in RequestSteps
    BY StepNames
  <2>2. request[r] \in RequestRows
    BY <1>1
  <2> QED BY <1>4, <2>1, <2>2 DEF RequestRows
<1>6. FiledGrows /\ filed' \in Seq(FiledRows)
  BY <1>1, <1>2, FiledStays
<1>7. SidsFiled(request[r].saw)' /\ request'[r].sid <= Len(filed')
  BY <1>5, <1>6, SawStays DEF SidsFiled
<1>8. RequestKnows(r)'
  BY <1>2, <1>5, <1>6, <1>7, ProgressKnows
<1>9. CASE UNCHANGED profile
  BY <1>1, <1>2, <1>4, <1>5, <1>6, <1>8, <1>9, OnlyRequest
<1>10. CASE SaveProfile([profile EXCEPT !.pieces = pieces])
  <2>1. PICK it : it = [profile EXCEPT !.pieces = pieces]
    OBVIOUS
  <2>2. it \in ProfileRows /\ it.status = profile.status /\ it.brand = profile.brand /\ SidsFiled(it)
    BY <1>1, <2>1 DEF ProfileRows, SidsFiled
  <2>3. SaveProfile(it)
    BY <1>10, <2>1
  <2> QED BY <1>2, <1>4, <1>5, <1>8, <2>2, <2>3, SavesRow
<1> QED BY <1>3, <1>9, <1>10 DEF AttachPieces

LEMMA SubmitMoves ==
    ASSUME CampaignInv, NEW r \in Requests, NEW sid \in Nat, NEW status \in ReportedStatuses,
           sid # 0, sid <= Len(filed), Submit(r, sid, status), task.job[r] # "track",
           UNCHANGED <<profile, campaigns, task, failures>>
    PROVE  CampaignInv'
<1>1. sid \in 1 .. Len(filed) /\ CampaignShapes
  BY DEF CampaignInv, CampaignShapes
<1>2. /\ filed[sid].state # "approved" /\ filed' = [filed EXCEPT ![sid].state = "review"]
      /\ Reply(r, status, "review") /\ "review" \in ReviewStates
  BY DEF Submit, Submittable, At, ReviewStates
<1>3. FiledGrows /\ filed' \in Seq(FiledRows)
  BY <1>1, <1>2, FiledDecided
<1> QED BY <1>2, <1>3, StepNames, ReplyMoves

LEMMA SendCustomerMoves == ASSUME CampaignInv, NEW r \in Requests, SendCustomer(r) PROVE CampaignInv'
<1>1. /\ task.job[r] = "submit" /\ request[r].pc = "send" /\ UNCHANGED <<profile, campaigns, task, failures>>
      /\ failures' \in 0 .. FailLimit
  BY DEF SendCustomer, Doing, CampaignInv, CampaignShapes
<1>2. PICK sid \in Nat : sid = request[r].saw.customer
  BY DEF CampaignInv, CampaignShapes, RequestRows, ProfileRows
<1>3. sid # 0 /\ sid <= Len(filed)
  BY <1>1, <1>2 DEF CampaignInv, RequestKnows, SidsFiled
<1>4. /\ "CUSTOMER_PROFILE_PENDING" \in ReportedStatuses /\ "CUSTOMER_PROFILE_REJECTED" \in ReportedStatuses
      /\ "failed" \in RequestSteps /\ "same" \in ReviewAnswers
  BY StepNames DEF ReportedStatuses
<1>5. CASE Submit(r, sid, "CUSTOMER_PROFILE_PENDING")
  BY <1>1, <1>3, <1>4, <1>5, SubmitMoves
<1>6. CASE Reply(r, "CUSTOMER_PROFILE_REJECTED", "same") /\ UNCHANGED filed
  <2>1. FiledGrows /\ filed' \in Seq(FiledRows)
    BY <1>6, FiledStays DEF CampaignInv
  <2> QED BY <1>1, <1>4, <1>6, <2>1, ReplyMoves
<1>7. CASE NextStep(r, "failed") /\ UNCHANGED filed
  BY <1>1, <1>4, <1>7, NextMoves
<1> QED BY <1>2, <1>5, <1>6, <1>7 DEF SendCustomer, Copy

\* What was filed is in review, decided, or a draft.
LEMMA StateKnown ==
    ASSUME CampaignInv, NEW sid \in Nat, sid # 0, sid <= Len(filed)
    PROVE  At(sid) \in ReviewStates
<1>1. filed \in Seq(FiledRows) /\ sid \in 1 .. Len(filed)
  BY DEF CampaignInv, CampaignShapes
<1>2. filed[sid] \in FiledRows
  BY <1>1
<1> QED BY <1>2 DEF At, FiledRows

LEMMA CheckCustomerMoves == ASSUME CampaignInv, NEW r \in Requests, CheckCustomer(r) PROVE CampaignInv'
<1>1. /\ task.job[r] = "sync" /\ request[r].pc = "customer" /\ failures' \in 0 .. FailLimit
      /\ UNCHANGED <<profile, campaigns, filed, task, failures>>
  BY DEF CheckCustomer, Doing, CampaignInv, CampaignShapes
<1>2. FiledGrows /\ filed' \in Seq(FiledRows)
  BY <1>1, FiledStays DEF CampaignInv
<1>3. PICK state \in ReviewAnswers : state = At(request[r].saw.customer)
  <2>1. PICK sid \in Nat : sid = request[r].saw.customer
    BY DEF CampaignInv, CampaignShapes, RequestRows, ProfileRows
  <2>2. sid # 0 /\ sid <= Len(filed)
    BY <1>1, <2>1 DEF CampaignInv, RequestKnows, SidsFiled
  <2> QED BY <2>1, <2>2, StateKnown DEF ReviewAnswers
<1>4. CASE state = "rejected"
  <2>1. Reply(r, "CUSTOMER_PROFILE_REJECTED", state)
    BY <1>3, <1>4 DEF CheckCustomer, Copy
  <2>2. "CUSTOMER_PROFILE_REJECTED" \in ReportedStatuses
    BY DEF ReportedStatuses
  <2> QED BY <1>1, <1>2, <2>1, <2>2, ReplyMoves
<1>5. CASE state = "approved"
  <2>1. NextStep(r, "a2p") \/ NextStep(r, "trust")
    BY <1>3, <1>5 DEF CheckCustomer, Copy
  <2> QED BY <1>1, <2>1, StepNames, NextMoves
<1>6. CASE state \notin {"rejected", "approved"}
  <2>1. Reply(r, "CUSTOMER_PROFILE_PENDING", state)
    BY <1>3, <1>6 DEF CheckCustomer, Copy
  <2>2. "CUSTOMER_PROFILE_PENDING" \in ReportedStatuses
    BY DEF ReportedStatuses
  <2> QED BY <1>1, <1>2, <2>1, <2>2, ReplyMoves
<1> QED BY <1>4, <1>5, <1>6

LEMMA CheckTrustMoves == ASSUME CampaignInv, NEW r \in Requests, CheckTrust(r) PROVE CampaignInv'
<1>1. /\ task.job[r] = "sync" /\ failures' \in 0 .. FailLimit
      /\ UNCHANGED <<profile, campaigns, filed, task, failures>>
  BY DEF CheckTrust, Doing, CampaignInv, CampaignShapes
<1>2. FiledGrows /\ filed' \in Seq(FiledRows)
  BY <1>1, FiledStays DEF CampaignInv
<1>3. PICK state : state = At(request[r].saw.trust)
  OBVIOUS
<1>4. {"A2P_PROFILE_REJECTED", "A2P_PROFILE_PENDING"} \subseteq ReportedStatuses /\ "same" \in ReviewAnswers
  BY StepNames DEF ReportedStatuses
<1>5. CASE state = "rejected"
  <2>1. Reply(r, "A2P_PROFILE_REJECTED", "same")
    BY <1>3, <1>5 DEF CheckTrust, Copy
  <2> QED BY <1>1, <1>2, <1>4, <2>1, ReplyMoves
<1>6. CASE state \in {"draft", "approved"}
  <2>1. NextStep(r, "a2p") \/ NextStep(r, "brand")
    <3>1. CASE state = "draft"
      BY <1>3, <3>1 DEF CheckTrust, Copy
    <3>2. CASE state = "approved"
      BY <1>3, <3>2 DEF CheckTrust, Copy
    <3> QED BY <1>6, <3>1, <3>2
  <2> QED BY <1>1, <2>1, StepNames, NextMoves
<1>7. CASE state \notin {"rejected", "draft", "approved"}
  <2>1. Reply(r, "A2P_PROFILE_PENDING", "same")
    BY <1>3, <1>7 DEF CheckTrust, Copy
  <2> QED BY <1>1, <1>2, <1>4, <2>1, ReplyMoves
<1> QED BY <1>5, <1>6, <1>7

LEMMA CreateTrustMoves == ASSUME CampaignInv, NEW r \in Requests, CreateTrust(r) PROVE CampaignInv'
<1>1. /\ task.job[r] = "sync" /\ UNCHANGED <<profile, campaigns, task, failures>>
      /\ failures' \in 0 .. FailLimit /\ RequestKnows(r) /\ CampaignShapes
      /\ request \in [Requests -> RequestRows] /\ request[r] \in RequestRows
  BY DEF CreateTrust, Doing, CampaignInv, CampaignShapes
<1>2. CASE request[r].saw.trust = 0
  <2>1. FileNew(r, "trust", 0, "draft", "a2pKeep")
    BY <1>2 DEF CreateTrust, Copy
  <2> QED BY <1>1, <2>1, FilingMoves
<1>3. CASE request[r].saw.trust # 0
  <2>1. PICK sid \in Nat : sid = request[r].saw.trust
    BY <1>1 DEF RequestRows, ProfileRows
  <2>2. sid # 0 /\ sid <= Len(filed)
    BY <1>1, <1>3, <2>1 DEF RequestKnows, SidsFiled
  <2>3. UNCHANGED filed /\ request' = [request EXCEPT ![r].pc = "a2pAttach", ![r].sid = sid]
    BY <1>3, <2>1 DEF CreateTrust, Copy
  <2>4. /\ request' = [request EXCEPT ![r] = request'[r]]
        /\ request'[r] = [request[r] EXCEPT !.pc = "a2pAttach", !.sid = sid]
    BY <1>1, <2>3
  <2>5. /\ request'[r] \in RequestRows /\ request'[r].pc = "a2pAttach" /\ request'[r].saw = request[r].saw
        /\ request'[r].sid = sid /\ request'[r].at = request[r].at
        /\ request'[r].good = request[r].good
    BY <1>1, <2>4, StepNames DEF RequestRows
  <2>6. FiledGrows /\ filed' \in Seq(FiledRows)
    BY <1>1, <2>3, FiledStays
  <2>7. SidsFiled(request[r].saw)' /\ request'[r].sid <= Len(filed')
    BY <2>2, <2>3, <2>5, <2>6, SawStays DEF SidsFiled
  <2>8. RequestKnows(r)'
    BY <1>1, <2>2, <2>5, <2>6, <2>7, ProgressKnows
  <2> QED BY <1>1, <2>4, <2>5, <2>6, <2>8, OnlyRequest
<1> QED BY <1>2, <1>3

LEMMA KeepTrustMoves == ASSUME CampaignInv, NEW r \in Requests, KeepTrust(r) PROVE CampaignInv'
<1>1. /\ profile \in ProfileRows /\ SidsFiled(profile) /\ request[r] \in RequestRows
      /\ request[r].pc = "a2pKeep" /\ RequestKnows(r)
  BY DEF CampaignInv, CampaignShapes, RowsFiled, KeepTrust, Doing
<1>2. PICK sid \in Nat : sid = request[r].sid /\ sid # 0 /\ sid <= Len(filed)
  BY <1>1 DEF RequestKnows, RequestRows
<1>3. PICK it : it = [profile EXCEPT !.trust = sid, !.status = "A2P_PROFILE_DRAFT"]
  OBVIOUS
<1>4. it \in ProfileRows /\ it.status # "APPROVED" /\ SidsFiled(it)
  BY <1>1, <1>2, <1>3 DEF ProfileRows, ProfileStatuses, SidsFiled
<1>5. /\ SaveProfile(it) /\ NextStep(r, "a2pAttach") /\ UNCHANGED <<campaigns, filed, task, failures>>
      /\ task.job[r] = "sync"
  BY <1>2, <1>3 DEF KeepTrust, Doing
<1> QED BY <1>2, <1>4, <1>5, SavesStatus

LEMMA SendTrustMoves == ASSUME CampaignInv, NEW r \in Requests, SendTrust(r) PROVE CampaignInv'
<1>1. /\ task.job[r] = "sync" /\ request[r].pc = "a2pSend" /\ UNCHANGED <<profile, campaigns, task, failures>>
      /\ failures' \in 0 .. FailLimit /\ request[r] \in RequestRows /\ RequestKnows(r)
  BY DEF SendTrust, Doing, CampaignInv, CampaignShapes
<1>2. PICK sid \in Nat : sid = request[r].sid /\ sid # 0 /\ sid <= Len(filed)
  BY <1>1 DEF RequestKnows, RequestRows
<1>3. "A2P_PROFILE_PENDING" \in ReportedStatuses /\ "failed" \in RequestSteps
  BY StepNames DEF ReportedStatuses
<1>4. CASE Submit(r, sid, "A2P_PROFILE_PENDING")
  BY <1>1, <1>2, <1>3, <1>4, SubmitMoves
<1>5. CASE NextStep(r, "failed") /\ UNCHANGED filed
  BY <1>1, <1>3, <1>5, NextMoves
<1> QED BY <1>2, <1>4, <1>5 DEF SendTrust

LEMMA CheckBrandMoves == ASSUME CampaignInv, NEW r \in Requests, CheckBrand(r) PROVE CampaignInv'
<1>1. /\ task.job[r] = "sync" /\ UNCHANGED <<profile, campaigns, task, failures>>
      /\ failures' \in 0 .. FailLimit
  BY DEF CheckBrand, Doing, CampaignInv, CampaignShapes
<1>2. {"BRAND_REJECTED", "BRAND_PENDING"} \subseteq ReportedStatuses /\ "same" \in ReviewAnswers
  BY StepNames DEF ReportedStatuses
<1>3. CASE request[r].saw.brand = 0
  <2>1. FileNew(r, "brand", 0, "review", "brandKeep")
    BY <1>3 DEF CheckBrand, Copy
  <2> QED BY <1>1, <2>1, FilingMoves
<1>4. CASE request[r].saw.brand # 0
  <2>1. UNCHANGED filed
    BY <1>4 DEF CheckBrand, Copy
  <2>2. FiledGrows /\ filed' \in Seq(FiledRows)
    BY <2>1, FiledStays DEF CampaignInv
  <2>3. PICK state : state = At(request[r].saw.brand)
    OBVIOUS
  <2>4. CASE state = "rejected"
    <3>1. Reply(r, "BRAND_REJECTED", "same")
      BY <1>4, <2>3, <2>4 DEF CheckBrand, Copy
    <3> QED BY <1>1, <1>2, <2>2, <3>1, ReplyMoves
  <2>5. CASE state = "approved"
    <3>1. NextStep(r, "campaign")
      BY <1>4, <2>3, <2>5 DEF CheckBrand, Copy
    <3> QED BY <1>1, <2>1, <3>1, StepNames, NextMoves
  <2>6. CASE state \notin {"rejected", "approved"}
    <3>1. Reply(r, "BRAND_PENDING", "same")
      BY <1>4, <2>3, <2>6 DEF CheckBrand, Copy
    <3> QED BY <1>1, <1>2, <2>2, <3>1, ReplyMoves
  <2> QED BY <2>4, <2>5, <2>6
<1> QED BY <1>3, <1>4

LEMMA KeepBrandMoves == ASSUME CampaignInv, NEW r \in Requests, KeepBrand(r) PROVE CampaignInv'
<1>1. /\ profile \in ProfileRows /\ SidsFiled(profile) /\ request[r] \in RequestRows /\ RequestKnows(r)
  BY DEF CampaignInv, CampaignShapes, RowsFiled
<1>2. PICK sid \in Nat : sid = request[r].sid /\ sid <= Len(filed)
  BY <1>1 DEF RequestKnows, RequestRows
<1>3. PICK it : it = [profile EXCEPT !.brand = sid, !.status = "BRAND_PENDING"]
  OBVIOUS
<1>4. it \in ProfileRows /\ it.status # "APPROVED" /\ SidsFiled(it)
  BY <1>1, <1>2, <1>3 DEF ProfileRows, ProfileStatuses, ReportedStatuses, SidsFiled
<1>5. /\ SaveProfile(it) /\ NextStep(r, "done") /\ UNCHANGED <<campaigns, filed, task, failures>>
  BY <1>2, <1>3 DEF KeepBrand
<1> QED BY <1>4, <1>5, SavesStatus

LEMMA CheckCampaignMoves == ASSUME CampaignInv, NEW r \in Requests, CheckCampaign(r) PROVE CampaignInv'
<1>1. /\ task.job[r] = "sync" /\ UNCHANGED <<profile, campaigns, task, failures>>
      /\ failures' \in 0 .. FailLimit /\ RequestKnows(r) /\ CampaignShapes
      /\ request \in [Requests -> RequestRows] /\ request[r] \in RequestRows
  BY DEF CheckCampaign, Doing, CampaignInv, CampaignShapes
<1>2. PICK s \in 1 .. ServiceCount : s = request[r].at
  BY <1>1 DEF RequestRows
<1>3. CASE campaigns[s].sid = 0
  <2>1. FileNew(r, "campaign", s, "review", "campaignAdd")
    BY <1>2, <1>3 DEF CheckCampaign
  <2> QED BY <1>1, <1>2, <2>1, FilingMoves
<1>4. CASE campaigns[s].sid # 0
  <2>1. PICK sid \in Nat : sid = campaigns[s].sid
    BY <1>1 DEF CampaignShapes
  <2>2. sid # 0 /\ sid <= Len(filed) /\ CampaignOf(s, sid)
    BY <1>4, <2>1 DEF CampaignInv, RowsFiled, CampaignOf
  <2>3. PICK answer \in ReviewAnswers : answer = At(sid)
    BY <2>2, StateKnown DEF ReviewAnswers
  <2>4. /\ UNCHANGED filed
        /\ request' = [request EXCEPT ![r].pc = "campaignSet", ![r].sid = sid, ![r].answer = answer]
    BY <1>2, <1>4, <2>1, <2>3 DEF CheckCampaign
  <2>5. /\ request' = [request EXCEPT ![r] = request'[r]]
        /\ request'[r] = [request[r] EXCEPT !.pc = "campaignSet", !.sid = sid, !.answer = answer]
    BY <1>1, <2>4
  <2>6. "campaignSet" \in RequestSteps
    BY DEF RequestSteps
  <2>7. /\ request'[r] \in RequestRows /\ request'[r].pc = "campaignSet" /\ request'[r].saw = request[r].saw
        /\ request'[r].sid = sid /\ request'[r].at = request[r].at /\ request'[r].answer = answer
        /\ request'[r].good = request[r].good
    BY <1>1, <2>5, <2>6 DEF RequestRows
  <2>8. FiledGrows /\ filed' \in Seq(FiledRows)
    BY <1>1, <2>4, FiledStays
  <2>9. SidsFiled(request[r].saw)' /\ request'[r].sid <= Len(filed')
    BY <2>2, <2>4, <2>7, <2>8, SawStays DEF SidsFiled
  <2>10. CampaignOf(request[r].at, request[r].sid)'
    BY <1>2, <2>2, <2>4, <2>7 DEF CampaignOf
  <2>11. request'[r].answer = "approved" => filed'[request'[r].sid].state = "approved"
    BY <2>3, <2>4, <2>7 DEF At
  <2>12. request[r].good => \A t \in 1 .. ServiceCount : t < request[r].at => ServiceApproved(t)'
    BY <1>1, <2>8, ApprovedStays DEF RequestKnows
  <2>13. request'[r].good => \A t \in 1 .. ServiceCount :
            t < request'[r].at \/ request'[r].pc = "finish" => ServiceApproved(t)'
    BY <2>7, <2>12
  <2>14. RequestKnows(r)'
    BY <1>1, <2>7, <2>9, <2>10, <2>11, <2>13 DEF RequestKnows
  <2> QED BY <1>1, <2>5, <2>7, <2>8, <2>14, OnlyRequest
<1> QED BY <1>3, <1>4

\* On to the next service: all good only if this one is, too.
LEMMA OnwardKnows ==
    ASSUME CampaignInv, NEW r \in Requests, request[r].pc \in {"campaignAdd", "campaignSet"},
           Onward(r), UNCHANGED <<filed, task>>, task.job[r] # "track"
    PROVE  /\ request' = [request EXCEPT ![r] = request'[r]]
           /\ request'[r] \in RequestRows /\ RequestKnows(r)'
<1>1. /\ RequestKnows(r) /\ CampaignShapes
      /\ request \in [Requests -> RequestRows] /\ request[r] \in RequestRows
  BY DEF CampaignInv, CampaignShapes
<1>2. PICK s \in 1 .. ServiceCount : s = request[r].at
  BY <1>1 DEF RequestRows
<1>3. PICK good \in BOOLEAN : /\ good = AllGood(request[r].good, request[r].answer)
                              /\ good => request[r].good /\ request[r].answer = "approved"
  <2>1. AllGood(request[r].good, request[r].answer) \in BOOLEAN
    BY DEF AllGood
  <2> QED BY <2>1 DEF AllGood
<1>4. PICK at \in 1 .. ServiceCount : /\ at = IF s < ServiceCount THEN s + 1 ELSE s
                                      /\ \A t \in 1 .. ServiceCount : t < at => t < s \/ t = s
                                      /\ s < ServiceCount \/ \A t \in 1 .. ServiceCount : t < s \/ t = s
  BY <1>2, CampaignBounds
<1>5. PICK pc \in {"campaign", "finish"} : pc = IF s < ServiceCount THEN "campaign" ELSE "finish"
  OBVIOUS
<1>6. request' = [request EXCEPT ![r].good = good, ![r].at = at, ![r].pc = pc]
  BY <1>1, <1>2, <1>3, <1>4, <1>5 DEF Onward
<1>7. /\ request' = [request EXCEPT ![r] = request'[r]]
      /\ request'[r] = [request[r] EXCEPT !.good = good, !.at = at, !.pc = pc]
  BY <1>1, <1>6
<1>8. pc \in RequestSteps
  BY DEF RequestSteps, CallsTwilio
<1>9. /\ request'[r] \in RequestRows /\ request'[r].pc = pc /\ request'[r].saw = request[r].saw
      /\ request'[r].sid = request[r].sid /\ request'[r].at = at /\ request'[r].good = good
  BY <1>1, <1>7, <1>8 DEF RequestRows
<1>10. FiledGrows /\ filed' \in Seq(FiledRows)
  BY <1>1, FiledStays
<1>11. SidsFiled(request[r].saw)' /\ request'[r].sid <= Len(filed')
  BY <1>9, <1>10, SawStays DEF SidsFiled
<1>12. ASSUME good PROVE ServiceApproved(s) /\ \A t \in 1 .. ServiceCount : t < s => ServiceApproved(t)
  <2>1. request[r].good /\ request[r].answer = "approved"
    BY <1>3, <1>12
  <2>2. PICK sid \in Nat : sid = request[r].sid
    BY <1>1 DEF RequestRows
  <2>3. CampaignOf(s, sid) /\ filed[sid].state = "approved"
    BY <1>1, <1>2, <2>1, <2>2 DEF RequestKnows
  <2>4. sid \in 1 .. Len(filed) /\ filed[sid] \in FiledRows
    BY <1>1, <2>3 DEF CampaignOf, CampaignShapes
  <2>5. filed[sid] = Filed("campaign", s, "approved")
    BY <2>3, <2>4 DEF CampaignOf, Filed, FiledRows
  <2>6. ServiceApproved(s)
    BY <1>1, <2>4, <2>5 DEF ServiceApproved, CampaignShapes
  <2> QED BY <1>1, <1>2, <2>1, <2>6 DEF RequestKnows
<1>13. ASSUME good, NEW t \in 1 .. ServiceCount, t < at \/ pc = "finish" PROVE ServiceApproved(t)'
  <2>1. t < s \/ t = s
    BY <1>4, <1>5, <1>13
  <2>2. ServiceApproved(t)
    BY <1>12, <1>13, <2>1
  <2> QED BY <1>1, <1>10, <2>2, ApprovedStays
<1>14. RequestKnows(r)'
  BY <1>5, <1>9, <1>11, <1>13 DEF RequestKnows
<1> QED BY <1>7, <1>9, <1>14

\* ... and the service's row is written in the same step.
LEMMA OnwardMoves ==
    ASSUME CampaignInv, NEW r \in Requests, request[r].pc \in {"campaignAdd", "campaignSet"},
           Onward(r), UNCHANGED <<profile, filed, task, failures>>, task.job[r] # "track",
           NEW s \in 1 .. ServiceCount, NEW it \in [sid : Nat, state : ReviewAnswers],
           campaigns' = [campaigns EXCEPT ![s] = it], it.sid # 0 => CampaignOf(s, it.sid)
    PROVE  CampaignInv'
<1>1. CampaignShapes /\ campaigns \in [1 .. ServiceCount -> [sid : Nat, state : ReviewAnswers]]
  BY DEF CampaignInv, CampaignShapes
<1>2. /\ request' = [request EXCEPT ![r] = request'[r]]
      /\ request'[r] \in RequestRows /\ RequestKnows(r)'
  BY OnwardKnows
<1>3. FiledGrows /\ filed' \in Seq(FiledRows)
  BY <1>1, FiledStays
<1>4. /\ campaigns' \in [1 .. ServiceCount -> [sid : Nat, state : ReviewAnswers]]
      /\ campaigns'[s] = it /\ \A t \in 1 .. ServiceCount : t # s => campaigns'[t] = campaigns[t]
  BY <1>1
<1>5. request \in [Requests -> RequestRows]
  BY DEF CampaignInv, CampaignShapes
<1>6. request' \in [Requests -> RequestRows] /\ \A q \in Requests : q # r => request'[q] = request[q]
  BY <1>2, <1>5
<1>7. CampaignShapes'
  BY <1>1, <1>3, <1>4, <1>6 DEF CampaignShapes
<1>8. ASSUME NEW q \in Requests PROVE RequestKnows(q)'
  <2>1. CASE q = r
    BY <1>2, <2>1
  <2>2. CASE q # r
    BY <1>3, <1>6, <2>2, OthersKnow
  <2> QED BY <2>1, <2>2
<1>9. RowsFiled'
  <2>1. ASSUME NEW t \in 1 .. ServiceCount, campaigns'[t].sid # 0 PROVE CampaignOf(t, campaigns[t].sid)'
    <3>1. CASE t = s
      BY <1>4, <2>1, <3>1 DEF CampaignOf
    <3>2. CASE t # s
      BY <1>4, <2>1, <3>2 DEF CampaignInv, RowsFiled, CampaignOf
    <3> QED BY <3>1, <3>2
  <2> QED BY <2>1 DEF CampaignInv, RowsFiled, SidsFiled, CampaignOf
<1>10. ApprovedMeansApproved'
  BY DEF CampaignInv, ApprovedMeansApproved
<1> QED BY <1>7, <1>8, <1>9, <1>10 DEF CampaignInv

LEMMA AddCampaignMoves == ASSUME CampaignInv, NEW r \in Requests, AddCampaign(r) PROVE CampaignInv'
<1>1. /\ task.job[r] = "sync" /\ request[r].pc = "campaignAdd" /\ UNCHANGED <<profile, filed, task, failures>>
      /\ failures' \in 0 .. FailLimit /\ RequestKnows(r) /\ request[r] \in RequestRows
  BY DEF AddCampaign, Doing, CampaignInv, CampaignShapes
<1>2. PICK s \in 1 .. ServiceCount, sid \in Nat : s = request[r].at /\ sid = request[r].sid
  BY <1>1 DEF RequestRows
<1>3. CASE campaigns[s].sid = 0
  <2>1. PICK it \in [sid : Nat, state : ReviewAnswers] : it = [sid |-> sid, state |-> "review"]
    BY StepNames
  <2>2. campaigns' = [campaigns EXCEPT ![s] = it] /\ Onward(r)
    BY <1>2, <1>3, <2>1 DEF AddCampaign
  <2>3. CampaignOf(s, it.sid)
    BY <1>1, <1>2, <2>1 DEF RequestKnows
  <2> QED BY <1>1, <2>2, <2>3, OnwardMoves
<1>4. CASE campaigns[s].sid # 0
  <2>1. NextStep(r, "failed") /\ UNCHANGED campaigns
    BY <1>2, <1>4 DEF AddCampaign
  <2> QED BY <1>1, <2>1, StepNames, NextMoves
<1> QED BY <1>3, <1>4

LEMMA SetCampaignMoves == ASSUME CampaignInv, NEW r \in Requests, SetCampaign(r) PROVE CampaignInv'
<1>1. /\ task.job[r] = "sync" /\ request[r].pc = "campaignSet" /\ UNCHANGED <<profile, filed, task, failures>>
      /\ Onward(r) /\ request[r] \in RequestRows
      /\ campaigns \in [1 .. ServiceCount -> [sid : Nat, state : ReviewAnswers]]
  BY DEF SetCampaign, Doing, CampaignInv, CampaignShapes
<1>2. PICK s \in 1 .. ServiceCount, answer \in ReviewAnswers : s = request[r].at /\ answer = request[r].answer
  BY <1>1 DEF RequestRows
<1>3. PICK it \in [sid : Nat, state : ReviewAnswers] :
          it = [campaigns[s] EXCEPT !.state = answer] /\ it.sid = campaigns[s].sid
  <2>1. campaigns[s] \in [sid : Nat, state : ReviewAnswers]
    BY <1>1
  <2>2. /\ [campaigns[s] EXCEPT !.state = answer] \in [sid : Nat, state : ReviewAnswers]
        /\ [campaigns[s] EXCEPT !.state = answer].sid = campaigns[s].sid
    BY <2>1
  <2> QED BY <2>2, Zenon
<1>4. campaigns' = [campaigns EXCEPT ![s] = it]
  BY <1>1, <1>2, <1>3 DEF SetCampaign
<1>5. it.sid # 0 => CampaignOf(s, it.sid)
  BY <1>3 DEF CampaignInv, RowsFiled
<1> QED BY <1>1, <1>4, <1>5, OnwardMoves

LEMMA FinishSyncMoves == ASSUME CampaignInv, NEW r \in Requests, FinishSync(r) PROVE CampaignInv'
<1>1. /\ task.job[r] = "sync" /\ request[r].pc = "finish" /\ UNCHANGED <<campaigns, filed, task, failures>>
      /\ NextStep(r, "done") /\ RequestKnows(r) /\ CampaignShapes /\ SidsFiled(profile)
      /\ profile \in ProfileRows /\ request[r] \in RequestRows /\ failures' \in 0 .. FailLimit
  BY DEF FinishSync, Doing, CampaignInv, CampaignShapes, RowsFiled
<1>2. CASE ~request[r].good
  <2>1. PICK it : it = [profile EXCEPT !.status = "CAMPAIGN_PENDING"]
    OBVIOUS
  <2>2. it \in ProfileRows /\ it.status # "APPROVED" /\ SidsFiled(it)
    BY <1>1, <2>1 DEF ProfileRows, ProfileStatuses, SidsFiled
  <2>3. SaveProfile(it)
    BY <1>2, <2>1 DEF FinishSync
  <2> QED BY <1>1, <2>2, <2>3, SavesStatus
<1>3. CASE request[r].good
  <2>1. \A s \in 1 .. ServiceCount : ServiceApproved(s)
    BY <1>1, <1>3 DEF RequestKnows
  <2>2. PICK it : it = [profile EXCEPT !.status = "APPROVED"]
    OBVIOUS
  <2>3. it \in ProfileRows /\ SidsFiled(it) /\ SaveProfile(it)
    BY <1>1, <1>3, <2>2 DEF ProfileRows, ProfileStatuses, SidsFiled, FinishSync
  <2>4. profile.rev + 1 \in Nat
    BY <1>1 DEF ProfileRows
  <2>5. /\ profile' \in ProfileRows /\ profile'.customer = it.customer
        /\ profile'.trust = it.trust /\ profile'.brand = it.brand
    BY <2>3, <2>4 DEF SaveProfile, ProfileRows
  <2>6. FiledGrows /\ filed' \in Seq(FiledRows) /\ "done" \in RequestSteps
    BY <1>1, FiledStays, StepNames
  <2>7. /\ request' = [request EXCEPT ![r] = request'[r]]
        /\ request'[r] \in RequestRows /\ RequestKnows(r)'
    BY <1>1, <2>6, StepsOn
  <2>8. request \in [Requests -> RequestRows]
    BY DEF CampaignInv, CampaignShapes
  <2>9. request' \in [Requests -> RequestRows] /\ \A q \in Requests : q # r => request'[q] = request[q]
    BY <2>7, <2>8
  <2>10. \A q \in Requests : RequestKnows(q)'
    BY <1>1, <2>6, <2>7, <2>9, OthersKnow
  <2>11. CampaignShapes'
    BY <1>1, <2>5, <2>6, <2>9 DEF CampaignShapes
  <2>12. RowsFiled'
    BY <1>1, <2>3, <2>5 DEF CampaignInv, RowsFiled, SidsFiled, CampaignOf
  <2>13. ApprovedMeansApproved'
    BY <1>1, <2>1 DEF ApprovedMeansApproved, ServiceApproved
  <2> QED BY <2>10, <2>11, <2>12, <2>13 DEF CampaignInv
<1> QED BY <1>2, <1>3

LEMMA ReportMoves == ASSUME CampaignInv, NEW r \in Requests, Report(r) PROVE CampaignInv'
<1>1. /\ request[r].pc = "report" /\ UNCHANGED <<campaigns, filed, task, failures>>
      /\ NextStep(r, "done") /\ SidsFiled(profile) /\ profile \in ProfileRows /\ request[r] \in RequestRows
  BY DEF Report, CampaignInv, CampaignShapes, RowsFiled
<1>2. PICK status \in ReportedStatuses, answer \in ReviewAnswers :
          status = request[r].status /\ answer = request[r].answer
  BY <1>1 DEF RequestRows
<1>3. PICK review \in ReviewAnswers :
          review = IF answer = "same" \/ status \notin Watched THEN profile.review ELSE answer
  BY <1>1 DEF ProfileRows
<1>4. PICK it : it = [profile EXCEPT !.status = status, !.review = review]
  OBVIOUS
<1>5. it \in ProfileRows /\ it.status = status /\ SidsFiled(it)
  BY <1>1, <1>2, <1>3, <1>4 DEF ProfileRows, ProfileStatuses, SidsFiled
<1>6. it.status # "APPROVED"
  BY <1>5 DEF ReportedStatuses
<1>7. SaveProfile(it)
  BY <1>1, <1>2, <1>3, <1>4 DEF Report
<1> QED BY <1>1, <1>5, <1>6, <1>7, SavesStatus

LEMMA FailCallMoves == ASSUME CampaignInv, NEW r \in Requests, FailCall(r) PROVE CampaignInv'
<1>1. /\ failures \in 0 .. FailLimit /\ request[r].pc \in CallsTwilio /\ RequestKnows(r)
      /\ UNCHANGED <<profile, campaigns, filed, task>> /\ NextStep(r, "failed")
  BY DEF FailCall, CampaignInv, CampaignShapes
<1>2. failures' \in 0 .. FailLimit
  BY <1>1, CampaignBounds DEF FailCall
<1>3. task.job[r] # "track"
  BY <1>1 DEF RequestKnows, CallsTwilio
<1> QED BY <1>1, <1>2, <1>3, StepNames, NextMoves

LEMMA RecordErrorMoves == ASSUME CampaignInv, NEW r \in Requests, RecordError(r) PROVE CampaignInv'
<1>1. /\ UNCHANGED <<campaigns, filed, task, failures>> /\ NextStep(r, "done")
      /\ SidsFiled(profile) /\ profile \in ProfileRows
  BY DEF RecordError, CampaignInv, CampaignShapes, RowsFiled
<1>2. PICK it : it = [profile EXCEPT !.status = "SUBMISSION_ERROR"]
  OBVIOUS
<1>3. it \in ProfileRows /\ it.status # "APPROVED" /\ SidsFiled(it) /\ SaveProfile(it)
  BY <1>1, <1>2 DEF ProfileRows, ProfileStatuses, SidsFiled, RecordError
<1> QED BY <1>1, <1>3, SavesStatus

LEMMA AskReviewMoves == ASSUME CampaignInv, NEW r \in Requests, AskReview(r) PROVE CampaignInv'
<1>1. /\ task.job[r] = "track" /\ request[r].pc = "ask" /\ failures' \in 0 .. FailLimit
      /\ UNCHANGED <<profile, campaigns, filed, task, failures>> /\ RequestKnows(r) /\ CampaignShapes
      /\ request \in [Requests -> RequestRows] /\ request[r] \in RequestRows
  BY DEF AskReview, Doing, CampaignInv, CampaignShapes
<1>2. PICK sid \in Nat : sid = request[r].saw.customer /\ sid # 0 /\ sid <= Len(filed)
  BY <1>1 DEF RequestRows, ProfileRows, RequestKnows, SidsFiled
<1>3. PICK answer \in ReviewAnswers : answer = At(sid)
  BY <1>2, StateKnown DEF ReviewAnswers
<1>4. request' = [request EXCEPT ![r].pc = "note", ![r].answer = answer]
  BY <1>2, <1>3 DEF AskReview, Copy
<1>5. /\ request' = [request EXCEPT ![r] = request'[r]]
      /\ request'[r] = [request[r] EXCEPT !.pc = "note", !.answer = answer]
  BY <1>1, <1>4
<1>6. "note" \in RequestSteps
  BY DEF RequestSteps
<1>7. /\ request'[r] \in RequestRows /\ request'[r].pc = "note" /\ request'[r].saw = request[r].saw
      /\ request'[r].sid = request[r].sid /\ request'[r].at = request[r].at
      /\ request'[r].good = request[r].good
  BY <1>1, <1>5, <1>6 DEF RequestRows
<1>8. FiledGrows /\ filed' \in Seq(FiledRows)
  BY <1>1, FiledStays
<1>9. SidsFiled(request[r].saw)' /\ request'[r].sid <= Len(filed')
  BY <1>7, <1>8, SawStays DEF SidsFiled
<1>10. request'[r].saw.status \in Watched
  BY <1>1, <1>7 DEF RequestKnows
<1>11. RequestKnows(r)'
  BY <1>1, <1>7, <1>8, <1>9, <1>10, ProgressKnows
<1> QED BY <1>1, <1>5, <1>7, <1>8, <1>11, OnlyRequest

LEMMA NoteReviewMoves == ASSUME CampaignInv, NEW r \in Requests, NoteReview(r) PROVE CampaignInv'
<1>1. /\ request[r].pc = "note" /\ failures' \in 0 .. FailLimit /\ profile \in ProfileRows
      /\ UNCHANGED <<campaigns, filed, task, failures>> /\ NextStep(r, "done") /\ SidsFiled(profile)
      /\ request[r] \in RequestRows
  BY DEF NoteReview, Doing, CampaignInv, CampaignShapes, RowsFiled
<1>2. FiledGrows /\ filed' \in Seq(FiledRows)
  BY <1>1, FiledStays DEF CampaignInv
<1>3. /\ request' = [request EXCEPT ![r] = request'[r]]
      /\ request'[r] \in RequestRows /\ RequestKnows(r)'
  BY <1>1, <1>2, StepNames, StepsOn
<1>4. PICK answer \in ReviewAnswers : answer = request[r].answer
  BY <1>1 DEF RequestRows
<1>5. PICK status \in {"CUSTOMER_PROFILE_REJECTED", "CUSTOMER_PROFILE_PENDING"} :
          status = IF answer = "rejected" THEN "CUSTOMER_PROFILE_REJECTED" ELSE "CUSTOMER_PROFILE_PENDING"
  OBVIOUS
<1>6. profile' = [profile EXCEPT !.status = status, !.review = answer] \/ UNCHANGED profile
  BY <1>4, <1>5 DEF NoteReview
<1>7. CASE UNCHANGED profile
  BY <1>1, <1>2, <1>3, <1>7, OnlyRequest
<1>8. CASE profile' = [profile EXCEPT !.status = status, !.review = answer]
  <2>1. /\ profile' \in ProfileRows /\ profile'.status # "APPROVED" /\ profile'.customer = profile.customer
        /\ profile'.trust = profile.trust /\ profile'.brand = profile.brand
    BY <1>1, <1>8 DEF ProfileRows, ProfileStatuses, ReportedStatuses
  <2>2. SidsFiled(profile)'
    BY <1>1, <2>1 DEF SidsFiled
  <2> QED BY <1>1, <1>2, <1>3, <2>1, <2>2, CampaignMoves
<1> QED BY <1>6, <1>7, <1>8

LEMMA AdoptMoves == ASSUME CampaignInv, NEW r \in Requests, AdoptRegistration(r) PROVE CampaignInv'
<1>1. /\ request[r].pc = "adopt" /\ UNCHANGED <<filed, task, failures>> /\ NextStep(r, "done")
      /\ RequestKnows(r) /\ CampaignShapes /\ request[r] \in RequestRows /\ profile \in ProfileRows
      /\ request \in [Requests -> RequestRows] /\ failures' \in 0 .. FailLimit
      /\ campaigns \in [1 .. ServiceCount -> [sid : Nat, state : ReviewAnswers]]
  BY DEF AdoptRegistration, Doing, CampaignInv, CampaignShapes
<1>2. task.from = "prior" /\ Adopted \in 1 .. ServiceCount
  BY <1>1, CampaignBounds DEF RequestKnows
<1>3. CampaignOf(Adopted, 4) /\ Len(filed) \in Nat /\ 4 <= Len(filed)
  BY <1>1, <1>2 DEF CampaignInv, CampaignShapes, RowsFiled, CampaignOf
<1>4. PICK pieces \in SUBSET AllPieces : pieces = request[r].pieces \cup {"adopted"}
  BY <1>1 DEF RequestRows, AllPieces
<1>5. PICK it : it = [profile EXCEPT !.status = "APPROVED", !.review = "approved", !.customer = 1,
                                     !.trust = 2, !.brand = 3, !.pieces = pieces]
  OBVIOUS
<1>6. it \in ProfileRows /\ it.customer = 1 /\ it.trust = 2 /\ it.brand = 3
  BY <1>1, <1>5 DEF ProfileRows, ProfileStatuses, ReviewAnswers, ReviewStates
<1>7. SaveProfile(it) /\ profile.rev + 1 \in Nat
  BY <1>1, <1>4, <1>5 DEF AdoptRegistration, ProfileRows
<1>8. /\ profile' \in ProfileRows /\ profile'.customer = 1 /\ profile'.trust = 2 /\ profile'.brand = 3
  BY <1>6, <1>7 DEF SaveProfile, ProfileRows
<1>9. PICK c \in [sid : Nat, state : ReviewAnswers] : c = [sid |-> 4, state |-> "approved"] /\ c.sid = 4
  <2>1. /\ [sid |-> 4, state |-> "approved"] \in [sid : Nat, state : ReviewAnswers]
        /\ [sid |-> 4, state |-> "approved"].sid = 4
    BY StepNames
  <2> QED BY <2>1, Zenon
<1>10. campaigns' = [campaigns EXCEPT ![Adopted] = c]
  BY <1>9 DEF AdoptRegistration
<1>11. /\ campaigns' \in [1 .. ServiceCount -> [sid : Nat, state : ReviewAnswers]]
       /\ campaigns'[Adopted].sid = 4
       /\ \A t \in 1 .. ServiceCount : t # Adopted => campaigns'[t] = campaigns[t]
  BY <1>1, <1>2, <1>9, <1>10
<1>12. FiledGrows /\ filed' \in Seq(FiledRows) /\ "done" \in RequestSteps
  BY <1>1, FiledStays, StepNames
<1>13. /\ request' = [request EXCEPT ![r] = request'[r]]
       /\ request'[r] \in RequestRows /\ RequestKnows(r)'
  <2>1. task.job[r] # "track"
    BY <1>1 DEF RequestKnows
  <2> QED BY <1>1, <1>12, <2>1, StepsOn
<1>14. request' \in [Requests -> RequestRows] /\ \A q \in Requests : q # r => request'[q] = request[q]
  BY <1>1, <1>13
<1>15. \A q \in Requests : RequestKnows(q)'
  BY <1>1, <1>12, <1>13, <1>14, OthersKnow
<1>16. CampaignShapes'
  BY <1>1, <1>8, <1>11, <1>12, <1>14 DEF CampaignShapes
<1>17. RowsFiled'
  <2>1. ASSUME NEW t \in 1 .. ServiceCount, campaigns'[t].sid # 0 PROVE CampaignOf(t, campaigns[t].sid)'
    <3>1. CASE t = Adopted
      BY <1>1, <1>3, <1>11, <3>1 DEF CampaignOf
    <3>2. CASE t # Adopted
      BY <1>1, <1>11, <2>1, <3>2 DEF CampaignInv, RowsFiled, CampaignOf
    <3> QED BY <3>1, <3>2
  <2>2. SidsFiled(profile)'
    BY <1>1, <1>3, <1>8 DEF SidsFiled
  <2> QED BY <1>1, <1>3, <2>1, <2>2 DEF RowsFiled, CampaignOf
<1>18. ApprovedMeansApproved'
  BY <1>1, <1>2, <1>8 DEF ApprovedMeansApproved
<1> QED BY <1>15, <1>16, <1>17, <1>18 DEF CampaignInv

LEMMA DecideMoves == ASSUME CampaignInv, NEW sid \in DOMAIN filed, Decide(sid) PROVE CampaignInv'
<1>1. /\ CampaignShapes /\ UNCHANGED <<profile, campaigns, task, request, failures>>
      /\ filed[sid].state = "review" /\ sid \in 1 .. Len(filed)
  BY DEF Decide, At, CampaignInv, CampaignShapes
<1>2. PICK verdict \in ReviewStates : filed' = [filed EXCEPT ![sid].state = verdict]
  BY DEF Decide, ReviewStates
<1>3. FiledGrows /\ filed' \in Seq(FiledRows)
  BY <1>1, <1>2, FiledDecided
<1>4. \A q \in Requests : RequestKnows(q)'
  BY <1>1, <1>3, OthersKnow
<1>5. CampaignShapes'
  BY <1>1, <1>3 DEF CampaignShapes
<1>6. RowsFiled'
  <2>1. ASSUME NEW s \in 1 .. ServiceCount, campaigns'[s].sid # 0 PROVE CampaignOf(s, campaigns[s].sid)'
    <3>1. PICK n \in Nat : n = campaigns[s].sid
      BY <1>1 DEF CampaignShapes
    <3> QED BY <1>1, <1>3, <2>1, <3>1, CampaignsStay
  <2>2. SidsFiled(profile)' /\ (task'.from = "prior" => CampaignOf(Adopted, 4)')
    <3>1. profile \in ProfileRows /\ SidsFiled(profile) /\ Len(filed) \in Nat /\ Len(filed') \in Nat
      BY <1>1, <1>3 DEF CampaignInv, CampaignShapes, RowsFiled
    <3>2. profile.customer \in Nat /\ profile.trust \in Nat /\ profile.brand \in Nat
      BY <3>1 DEF ProfileRows
    <3>3. SidsFiled(profile)'
      BY <1>1, <1>3, <3>1, <3>2 DEF SidsFiled, FiledGrows
    <3> QED BY <1>1, <1>3, <3>3, CampaignsStay
  <2> QED BY <2>1, <2>2 DEF RowsFiled
<1>7. ApprovedMeansApproved'
  <2> SUFFICES ASSUME profile'.status = "APPROVED", ~(task'.from = "prior" /\ profile'.brand = 3)
               PROVE  \A s \in 1 .. ServiceCount : ServiceApproved(s)'
    BY DEF ApprovedMeansApproved, ServiceApproved
  <2>1. \A s \in 1 .. ServiceCount : ServiceApproved(s)
    BY <1>1 DEF CampaignInv, ApprovedMeansApproved, ServiceApproved
  <2> QED BY <1>1, <1>3, <2>1, ApprovedStays
<1> QED BY <1>4, <1>5, <1>6, <1>7 DEF CampaignInv

LEMMA CampaignStep == CampaignInv /\ [CampaignNext]_cvars => CampaignInv'
<1> SUFFICES ASSUME CampaignInv, [CampaignNext]_cvars PROVE CampaignInv'
  OBVIOUS
<1>1. ASSUME NEW r \in Requests, RequestStep(r) PROVE CampaignInv'
  <2>1. CASE Look(r)               BY <2>1, LookMoves
  <2>2. CASE SaveIntake(r)         BY <2>2, SaveIntakeMoves
  <2>3. CASE CreateCustomer(r)     BY <2>3, CreateCustomerMoves
  <2>4. CASE KeepCustomer(r)       BY <2>4, KeepCustomerMoves
  <2>5. CASE AttachCustomer(r)
    <3>1. AttachPieces(r, CustomerPieces, "send") /\ task.job[r] = "submit" /\ request[r].pc = "attach"
      BY <2>5 DEF AttachCustomer, Doing
    <3>2. request[r].saw.customer # 0
      BY <3>1 DEF CampaignInv, RequestKnows
    <3> QED BY <3>1, <3>2, AttachMoves
  <2>6. CASE SendCustomer(r)       BY <2>6, SendCustomerMoves
  <2>7. CASE CheckCustomer(r)      BY <2>7, CheckCustomerMoves
  <2>8. CASE CheckTrust(r)         BY <2>8, CheckTrustMoves
  <2>9. CASE CreateTrust(r)        BY <2>9, CreateTrustMoves
  <2>10. CASE KeepTrust(r)         BY <2>10, KeepTrustMoves
  <2>11. CASE AttachTrust(r)
    <3>1. AttachPieces(r, MessagingPieces, "a2pSend") /\ task.job[r] = "sync" /\ request[r].pc = "a2pAttach"
      BY <2>11 DEF AttachTrust, Doing
    <3>2. request[r].sid # 0
      BY <3>1 DEF CampaignInv, RequestKnows
    <3> QED BY <3>1, <3>2, AttachMoves
  <2>12. CASE SendTrust(r)         BY <2>12, SendTrustMoves
  <2>13. CASE CheckBrand(r)        BY <2>13, CheckBrandMoves
  <2>14. CASE KeepBrand(r)         BY <2>14, KeepBrandMoves
  <2>15. CASE CheckCampaign(r)     BY <2>15, CheckCampaignMoves
  <2>16. CASE AddCampaign(r)       BY <2>16, AddCampaignMoves
  <2>17. CASE SetCampaign(r)       BY <2>17, SetCampaignMoves
  <2>18. CASE FinishSync(r)        BY <2>18, FinishSyncMoves
  <2>19. CASE Report(r)            BY <2>19, ReportMoves
  <2>20. CASE FailCall(r)          BY <2>20, FailCallMoves
  <2>21. CASE RecordError(r)       BY <2>21, RecordErrorMoves
  <2>22. CASE AskReview(r)         BY <2>22, AskReviewMoves
  <2>23. CASE NoteReview(r)        BY <2>23, NoteReviewMoves
  <2>24. CASE AdoptRegistration(r) BY <2>24, AdoptMoves
  <2> QED BY <1>1, <2>1, <2>2, <2>3, <2>4, <2>5, <2>6, <2>7, <2>8, <2>9, <2>10, <2>11, <2>12, <2>13,
             <2>14, <2>15, <2>16, <2>17, <2>18, <2>19, <2>20, <2>21, <2>22, <2>23, <2>24 DEF RequestStep
<1>2. ASSUME NEW sid \in DOMAIN filed, Decide(sid) PROVE CampaignInv'
  BY <1>2, DecideMoves
<1>3. CASE UNCHANGED cvars
  BY <1>3 DEF cvars, CampaignInv, CampaignShapes, RequestKnows, RowsFiled, SidsFiled, CampaignOf,
             ServiceApproved, ApprovedMeansApproved
<1> QED BY <1>1, <1>2, <1>3 DEF CampaignNext

\* A request's step is its own.
LEMMA OthersWait ==
    ASSUME CampaignInv, NEW r \in Requests, RequestStep(r), NEW q \in Requests, q # r
    PROVE  request'[q] = request[q]
<1>1. request \in [Requests -> RequestRows]
  BY DEF CampaignInv, CampaignShapes
<1>2. CASE Look(r)               BY <1>1, <1>2 DEF Look
<1>3. CASE SaveIntake(r) \/ FinishSync(r) \/ Report(r) \/ FailCall(r) \/ RecordError(r)
  BY <1>1, <1>3 DEF SaveIntake, FinishSync, Report, FailCall, RecordError, NextStep
<1>4. CASE CreateCustomer(r) \/ CreateTrust(r) \/ CheckCampaign(r)
  BY <1>1, <1>4 DEF CreateCustomer, CreateTrust, CheckCampaign, FileNew, NextStep
<1>5. CASE KeepCustomer(r) \/ KeepTrust(r) \/ KeepBrand(r) \/ NoteReview(r) \/ AdoptRegistration(r)
  BY <1>1, <1>5 DEF KeepCustomer, KeepTrust, KeepBrand, NoteReview, AdoptRegistration, NextStep
<1>6. CASE AttachCustomer(r) \/ AttachTrust(r) \/ AskReview(r)
  BY <1>1, <1>6 DEF AttachCustomer, AttachTrust, AttachPieces, AskReview
<1>7. CASE SendCustomer(r) \/ SendTrust(r)
  BY <1>1, <1>7 DEF SendCustomer, SendTrust, Submit, Reply, NextStep
<1>8. CASE CheckCustomer(r)
  <2>1. PICK state : state = At(Copy(r).customer)
    OBVIOUS
  <2>2. \/ Reply(r, "CUSTOMER_PROFILE_REJECTED", state) \/ Reply(r, "CUSTOMER_PROFILE_PENDING", state)
        \/ NextStep(r, "a2p") \/ NextStep(r, "trust")
    <3>1. CASE state = "rejected"                    BY <1>8, <2>1, <3>1 DEF CheckCustomer
    <3>2. CASE state = "approved"                    BY <1>8, <2>1, <3>2 DEF CheckCustomer
    <3>3. CASE state \notin {"rejected", "approved"} BY <1>8, <2>1, <3>3 DEF CheckCustomer
    <3> QED BY <3>1, <3>2, <3>3
  <2> QED BY <1>1, <2>2 DEF Reply, NextStep
<1>9. CASE CheckTrust(r)
  <2>1. PICK state : state = At(Copy(r).trust)
    OBVIOUS
  <2>2. \/ Reply(r, "A2P_PROFILE_REJECTED", "same") \/ Reply(r, "A2P_PROFILE_PENDING", "same")
        \/ NextStep(r, "a2p") \/ NextStep(r, "brand")
    <3>1. CASE state = "rejected" BY <1>9, <2>1, <3>1 DEF CheckTrust
    <3>2. CASE state = "draft"    BY <1>9, <2>1, <3>2 DEF CheckTrust
    <3>3. CASE state = "approved" BY <1>9, <2>1, <3>3 DEF CheckTrust
    <3>4. CASE state \notin {"rejected", "draft", "approved"} BY <1>9, <2>1, <3>4 DEF CheckTrust
    <3> QED BY <3>1, <3>2, <3>3, <3>4
  <2> QED BY <1>1, <2>2 DEF Reply, NextStep
<1>10. CASE CheckBrand(r)
  <2>1. PICK state : state = At(Copy(r).brand)
    OBVIOUS
  <2>2. \/ FileNew(r, "brand", 0, "review", "brandKeep") \/ NextStep(r, "campaign")
        \/ Reply(r, "BRAND_REJECTED", "same") \/ Reply(r, "BRAND_PENDING", "same")
    <3>1. CASE state = "rejected"                    BY <1>10, <2>1, <3>1 DEF CheckBrand
    <3>2. CASE state = "approved"                    BY <1>10, <2>1, <3>2 DEF CheckBrand
    <3>3. CASE state \notin {"rejected", "approved"} BY <1>10, <2>1, <3>3 DEF CheckBrand
    <3> QED BY <3>1, <3>2, <3>3
  <2> QED BY <1>1, <2>2 DEF FileNew, Reply, NextStep
<1>11. CASE AddCampaign(r) \/ SetCampaign(r)
  BY <1>1, <1>11 DEF AddCampaign, SetCampaign, Onward, NextStep
<1> QED BY <1>2, <1>3, <1>4, <1>5, <1>6, <1>7, <1>8, <1>9, <1>10, <1>11 DEF RequestStep

\* The background check of the review takes only its own three steps, and writes
\* only over the row it read (trackBusinessProfileReviews).
LEMMA TrackerStep == CampaignInv /\ [CampaignNext]_cvars => TrackerYieldsStep
<1> SUFFICES ASSUME CampaignInv, [CampaignNext]_cvars, NEW r \in Requests,
                    task.job[r] = "track", request'[r] # request[r]
             PROVE  /\ filed' = filed
                    /\ profile'.status # profile.status =>
                           {profile.status, profile'.status} \subseteq Watched
                               /\ profile.rev = request[r].saw.rev
  BY DEF TrackerYieldsStep
<1>1. RequestStep(r)
  <2>1. CampaignNext
    BY DEF cvars
  <2>2. ~\E sid \in DOMAIN filed : Decide(sid)
    BY DEF Decide
  <2>3. PICK q \in Requests : RequestStep(q)
    BY <2>1, <2>2 DEF CampaignNext
  <2>4. q = r
    BY <2>3, OthersWait
  <2> QED BY <2>3, <2>4
<1>2. /\ request[r].pc \in {"start", "ask", "note", "done"}
      /\ request[r].pc = "note" => request[r].saw.status \in Watched
  BY DEF CampaignInv, RequestKnows
<1>3. Look(r) \/ AskReview(r) \/ NoteReview(r)
  <2>1. ~(SaveIntake(r) \/ CreateCustomer(r) \/ KeepCustomer(r) \/ AttachCustomer(r) \/ SendCustomer(r)
          \/ CheckCustomer(r) \/ CheckTrust(r) \/ CreateTrust(r) \/ KeepTrust(r))
    BY DEF SaveIntake, CreateCustomer, KeepCustomer, AttachCustomer, SendCustomer, CheckCustomer,
           CheckTrust, CreateTrust, KeepTrust, Doing
  <2>2. ~(AttachTrust(r) \/ SendTrust(r) \/ CheckBrand(r) \/ KeepBrand(r) \/ CheckCampaign(r)
          \/ AddCampaign(r) \/ SetCampaign(r) \/ FinishSync(r) \/ AdoptRegistration(r))
    BY DEF AttachTrust, SendTrust, CheckBrand, KeepBrand, CheckCampaign, AddCampaign, SetCampaign,
           FinishSync, AdoptRegistration, Doing
  <2>3. ~(Report(r) \/ FailCall(r) \/ RecordError(r))
    BY <1>2 DEF Report, FailCall, RecordError, CallsTwilio
  <2> QED BY <1>1, <2>1, <2>2, <2>3 DEF RequestStep
<1>4. CASE Look(r) \/ AskReview(r)
  BY <1>4 DEF Look, AskReview
<1>5. CASE NoteReview(r)
  <2>1. filed' = filed /\ request[r].pc = "note" /\ profile \in ProfileRows
    BY <1>5 DEF NoteReview, Doing, CampaignInv, CampaignShapes
  <2>2. CASE RowAsRead(Copy(r)) /\ request[r].answer # "draft"
    <3>1. profile.status = request[r].saw.status /\ profile.rev = request[r].saw.rev
      BY <2>2 DEF RowAsRead, Copy
    <3>2. PICK status \in Watched : profile' = [profile EXCEPT !.status = status, !.review = request[r].answer]
      BY <1>5, <2>2 DEF NoteReview, Watched
    <3>3. profile'.status = status
      BY <2>1, <3>2 DEF ProfileRows
    <3> QED BY <1>2, <2>1, <3>1, <3>2, <3>3
  <2>3. CASE ~(RowAsRead(Copy(r)) /\ request[r].answer # "draft")
    BY <1>5, <2>1, <2>3 DEF NoteReview
  <2> QED BY <2>2, <2>3
<1> QED BY <1>3, <1>4, <1>5

\* A registration shows as approved only when the carriers approved every service's
\* campaign or an approved brand was taken over, and the background check yields to
\* whoever saved the profile meanwhile, for any number of overlapping requests.
THEOREM ApprovalIsReal == CampaignSpec => CampaignSafe
<1>1. CampaignInv => CampaignTypeOK
  <2> SUFFICES ASSUME CampaignInv PROVE CampaignTypeOK
    OBVIOUS
  <2>1. /\ profile \in ProfileRows /\ SidsFiled(profile) /\ Len(filed) \in Nat /\ failures \in 0 .. FailLimit
        /\ campaigns \in [1 .. ServiceCount -> [sid : Nat, state : ReviewAnswers]]
    BY DEF CampaignInv, CampaignShapes, RowsFiled
  <2>2. profile.rev \in Nat /\ profile.pieces \subseteq CustomerPieces \cup MessagingPieces \cup {"adopted"}
    BY <2>1 DEF ProfileRows, AllPieces
  <2>3. {profile.customer, profile.trust, profile.brand} \subseteq 0 .. Len(filed)
    BY <2>1 DEF ProfileRows, SidsFiled
  <2>4. ASSUME NEW s \in DOMAIN campaigns PROVE campaigns[s].sid \in 0 .. Len(filed)
    <3>1. s \in 1 .. ServiceCount
      BY <2>1
    <3>2. PICK sid \in Nat : sid = campaigns[s].sid
      BY <2>1, <3>1
    <3>3. sid # 0 => sid <= Len(filed)
      BY <3>1, <3>2 DEF CampaignInv, RowsFiled, CampaignOf
    <3> QED BY <2>1, <3>2, <3>3
  <2> QED BY <2>1, <2>2, <2>3, <2>4 DEF CampaignTypeOK
<1>2. CampaignInv => ApprovedMeansApproved
  BY DEF CampaignInv
<1>3. CampaignSpec => []CampaignInv
  BY CampaignStart, CampaignStep, PTL DEF CampaignSpec
<1>4. CampaignSpec => TrackerYields
  BY <1>3, TrackerStep, PTL DEF CampaignSpec, TrackerYields
<1> QED BY <1>1, <1>2, <1>3, <1>4, PTL DEF CampaignSafe
=============================================================================
