------------------------------ MODULE MCSetup ------------------------------
(***************************************************************************)
(* Setting a studio up, checked part by part in one run: accounts, social  *)
(* accounts, numbers, the texting campaign, delivery receipts, calendar    *)
(* credentials, locations, what clients are told of the studio, the        *)
(* activation page, and the Stripe account.                                *)
(*                                                                         *)
(* focus names the part that runs; the others stay where they begin.  The  *)
(* view of a state is therefore the focus and the variables of its part.   *)
(***************************************************************************)
EXTENDS StudioAccounts, SocialInbox, PhoneNumbers, CampaignRegistration, DeliveryReceipts,
        GoogleCredentials, StudioFacts, StudioActivation, StripeConnect

VARIABLE focus

OneOf(from) == CHOOSE x \in from : TRUE

-----------------------------------------------------------------------------
Doors4(a, b, c, d) == [x \in {"d1", "d2", "d3", "d4"} |->
    CASE x = "d1" -> a [] x = "d2" -> b [] x = "d3" -> c [] x = "d4" -> d]

DoorScenarios == {
    Doors4("invite", "invite", "accept", "revoke"),
    Doors4("invite", "accept", "signup", "invite"),
    Doors4("signup", "forgot", "forgot", "redeem"),
    Doors4("signup", "login", "forgot", "redeem"),
    Doors4("signup", "login", "login", "none")}

-----------------------------------------------------------------------------
Connects(studio, accounts) == [does |-> "connect", for |-> studio, at |-> accounts, from |-> "x", mid |-> "x"]
Asks(does, page) == [does |-> does, for |-> "x", at |-> {page}, from |-> "x", mid |-> "x"]
Writes(page, person, message) == [does |-> "event", for |-> "x", at |-> {page}, from |-> person, mid |-> message]

SocialScenarios == {[h \in {"h1", "h2", "h3", "h4", "h5"} |->
    CASE h = "h1" -> s[1] [] h = "h2" -> s[2] [] h = "h3" -> s[3] [] h = "h4" -> s[4] [] h = "h5" -> s[5]] : s \in {
    <<Connects("s1", {"ig"}), Connects("s2", {"ig"}),
      Writes("ig", "u1", "m1"), Writes("ig", "u1", "m1"), Writes("ig", "u1", "m2")>>,
    <<Connects("s1", {"fb"}), Connects("s2", {"ig"}),
      Writes("ig", "u1", "m1"), Writes("fb", "u1", "m2"), Asks("disconnect", "fb")>>,
    <<Connects("s1", {"fb"}), Connects("s2", {"fb", "ig"}), Connects("s1", {"ig"}),
      Asks("health", "ig"), Asks("disconnect", "ig")>>}}

-----------------------------------------------------------------------------
OfficeScenarios == {
    <<"account", "provision", "provision", "review", "provision", "sync">>,
    <<"account", "provision", "provision", "review", "sync", "account">>,
    <<"account", "provision", "register", "port", "sync", "sync">>,
    <<"account", "provision", "register", "port", "sync", "register">>,
    <<"account", "provision", "register", "port", "port", "sync">>}

CampaignJob(from, todo) == [from |-> from, job |-> todo]

CampaignScenarios == {
    CampaignJob("new", <<"submit", "track", "edit">>),
    CampaignJob("customer", <<"track", "submit", "edit">>),
    CampaignJob("brand", <<"sync", "sync", "edit">>),
    CampaignJob("customer", <<"sync", "track", "edit">>),
    CampaignJob("prior", <<"adopt", "sync", "submit">>)}

\* One text: of the worker, of a job or of a member of staff.
ReceiptScenarios == {<<s>> : s \in {"reply", "job", "staff"}}

CallerScenarios == {k \in [{"g1", "g2", "g3", "g4"} -> {"signin", "use", "convert"}] :
                       k["g1"] = "use" /\ k["g2"] = "use" /\ k["g3"] # "use"}

-----------------------------------------------------------------------------
Place(active, primary) == [active |-> active, primary |-> primary, by |-> 0]
FirstLocations == {[l \in {"A", "B"} |-> Place(TRUE, l = "A")], [l \in {"A"} |-> Place(TRUE, TRUE)]}

Wants(does, on, active, primary) == [does |-> does, on |-> on, active |-> active, primary |-> primary]

SaveScenarios == {
    <<Wants("save", "A", FALSE, FALSE), Wants("save", "B", FALSE, FALSE), Wants("create", "C", TRUE, TRUE)>>,
    <<Wants("save", "A", TRUE, FALSE), Wants("save", "A", TRUE, TRUE), Wants("save", "B", TRUE, TRUE)>>,
    <<Wants("save", "B", FALSE, TRUE), Wants("save", "A", FALSE, FALSE), Wants("create", "C", TRUE, FALSE)>>,
    <<Wants("save", "C", TRUE, FALSE), Wants("save", "A", TRUE, TRUE), Wants("create", "C", FALSE, FALSE)>>}

-----------------------------------------------------------------------------
Says(id, kind, text, active, shown, at) ==
    [id |-> id, kind |-> kind, text |-> text, active |-> active, shown |-> shown, at |-> at]

SavesRows(list, artist) == [does |-> "save", rows |-> list, artist |-> artist]
Reviews(source, text, approve) == [does |-> "review", source |-> source, text |-> text, approve |-> approve]

KnownRows == {<<
    [kind |-> "rule", text |-> "a", shown |-> TRUE, at |-> Everywhere, active |-> TRUE, by |-> NoEdit],
    [kind |-> "faq", text |-> "q", shown |-> TRUE, at |-> "p1", active |-> TRUE, by |-> NoEdit]>>}

EditScenarios == {
    <<SavesRows(<<Says(1, "rule", "a", FALSE, TRUE, Everywhere), Says(2, "faq", "q", TRUE, TRUE, "p2")>>, TRUE),
      SavesRows(<<Says(2, "faq", "q", TRUE, TRUE, "p1"), Says(1, "rule", "a", TRUE, FALSE, Everywhere),
                  Says(0, "rule", "b", TRUE, TRUE, Everywhere)>>, TRUE),
      Reviews("m1", "a", TRUE)>>,
    <<Reviews("m1", "b", TRUE), Reviews("m1", "b", FALSE), Reviews("m2", "b", TRUE)>>,
    <<SavesRows(<<Says(1, "rule", "a", FALSE, TRUE, Everywhere), Says(0, "faq", "r", TRUE, TRUE, "p2")>>, FALSE),
      Reviews("m1", "a", TRUE), Reviews("m2", "a", TRUE)>>}

\* A client is told of the studio while the first two edits run.
TellNext == Edit(1) \/ Edit(2) \/ Tell

-----------------------------------------------------------------------------
ApprovedPhone == {[id |-> 1, state |-> "APPROVED"]}

\* A client's text has come in over the number; none has gone out yet.
PassedTexts == {{<<1, "INBOUND_SMS">>}}

Ask(does, arg) == [does |-> does, arg |-> arg]

ActivationScenarios == {
    <<Ask("test", "VOICE"), Ask("strategy", "PORT_EXISTING"), Ask("activate", "x")>>,
    <<Ask("activate", "x"), Ask("pause", "x"), Ask("view", "x")>>}

-----------------------------------------------------------------------------
VisitScenarios == {[v \in {"v1", "v2", "v3"} |->
    CASE v = "v1" -> s[1] [] v = "v2" -> s[2] [] v = "v3" -> s[3]] : s \in {
    <<"CONNECT", "REFRESH", "CONNECT_LIVE">>, <<"CONNECT", "CONNECT_LIVE", "CONNECT_LIVE">>}}

-----------------------------------------------------------------------------
accountPart == <<accountVars, socialVars>>
numberPart == <<phoneVars, cvars, rvars>>
studioPart == <<gvars, locationVars, knowledgeVars, activationVars, connectVars>>

\* Where the parts that do not run begin.
IdleRoles == OneOf(SocialScenarios)
IdleJobs == OneOf(OfficeScenarios)
IdleTask == OneOf(CampaignScenarios)
IdleSaves == OneOf(SaveScenarios)
IdleEdits == OneOf(EditScenarios)
IdleCommand == OneOf(ActivationScenarios)
IdleVisits == OneOf(VisitScenarios)

SetupInit ==
    /\ focus \in {"accounts", "social", "numbers", "campaign", "receipts", "google", "locations",
                 "edits", "told", "activation", "stripe"}
    /\ focus # "social" => roles = IdleRoles
    /\ focus # "numbers" => jobs = IdleJobs
    /\ focus # "campaign" => task = IdleTask
    /\ focus # "receipts" => kindOf = <<"reply">>
    /\ focus # "google" => calendar = [refresh |-> NoToken, form |-> "sealed", fresh |-> FALSE]
    /\ focus # "locations" => save = IdleSaves
    /\ focus \notin {"edits", "told"} => edits = IdleEdits
    /\ focus # "activation" => command = IdleCommand
    /\ focus # "stripe" => wish = IdleVisits
    /\ AccountsInit /\ SocialInit /\ PhoneInit /\ CampaignInit
    /\ ReceiptInit /\ GoogleInit /\ LocationsInit /\ KnowledgeInit /\ ActivationInit /\ ConnectInit

SetupNext ==
    /\ UNCHANGED focus
    /\ \/ focus = "accounts" /\ AccountsNext /\ UNCHANGED <<socialVars, numberPart, studioPart>>
       \/ focus = "social" /\ SocialNext /\ UNCHANGED <<accountVars, numberPart, studioPart>>
       \/ focus = "numbers" /\ PhoneNext /\ UNCHANGED <<accountPart, cvars, rvars, studioPart>>
       \/ focus = "campaign" /\ CampaignNext /\ UNCHANGED <<accountPart, phoneVars, rvars, studioPart>>
       \/ focus = "receipts" /\ ReceiptNext /\ UNCHANGED <<accountPart, phoneVars, cvars, studioPart>>
       \/ focus = "google" /\ GoogleNext
          /\ UNCHANGED <<accountPart, numberPart, locationVars, knowledgeVars, activationVars, connectVars>>
       \/ focus = "locations" /\ LocationsNext
          /\ UNCHANGED <<accountPart, numberPart, gvars, knowledgeVars, activationVars, connectVars>>
       \/ focus = "edits" /\ (\E t \in Edits : Edit(t))
          /\ UNCHANGED <<accountPart, numberPart, gvars, locationVars, activationVars, connectVars>>
       \/ focus = "told" /\ TellNext
          /\ UNCHANGED <<accountPart, numberPart, gvars, locationVars, activationVars, connectVars>>
       \/ focus = "activation" /\ ActivationNext
          /\ UNCHANGED <<accountPart, numberPart, gvars, locationVars, knowledgeVars, connectVars>>
       \/ focus = "stripe" /\ ConnectNext
          /\ UNCHANGED <<accountPart, numberPart, gvars, locationVars, knowledgeVars, activationVars>>

SetupSpec == SetupInit /\ [][SetupNext]_<<focus, accountPart, numberPart, studioPart>>

SetupView ==
    CASE focus = "accounts" -> <<focus, accountVars>>
      [] focus = "social" -> <<focus, socialVars>>
      [] focus = "numbers" -> <<focus, phoneVars>>
      [] focus = "campaign" -> <<focus, cvars>>
      [] focus = "receipts" -> <<focus, rvars>>
      [] focus = "google" -> <<focus, gvars>>
      [] focus = "locations" -> <<focus, locationVars>>
      [] focus \in {"edits", "told"} -> <<focus, knowledgeVars>>
      [] focus = "activation" -> <<focus, activationVars>>
      [] focus = "stripe" -> <<focus, connectVars>>

=============================================================================
