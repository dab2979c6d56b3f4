------------------------------ MODULE MCSales ------------------------------
(***************************************************************************)
(* What the studio sells and how it is paid over the counter, checked part *)
(* by part in one run: the counter, invoices, waiver forms, services and   *)
(* readiness, the searches for times, and the Square connection.           *)
(*                                                                         *)
(* focus names the part that runs; the others stay where they begin.  The  *)
(* view of a state is therefore the focus and the variables of its part.   *)
(***************************************************************************)
EXTENDS CounterSales, StudioInvoices, ConsentForms, ServiceCatalog, SlotSearch, SquareConnection

VARIABLE focus

OneOf(from) == CHOOSE x \in from : TRUE

-----------------------------------------------------------------------------
Tills4(a, b, c, d) == [t \in {"t1", "t2", "t3", "t4"} |->
    CASE t = "t1" -> a [] t = "t2" -> b [] t = "t3" -> c [] t = "t4" -> d]

TillScenarios == {Tills4("card", "card", b, c) : b \in {"resume", "cancel", "cash"}, c \in {"cash", "check", "cancel"}}

-----------------------------------------------------------------------------
Form(provider, artist_, service_, audience, rank) ==
    [provider |-> provider, artist |-> artist_, service |-> service_, audience |-> audience, rank |-> rank]

\* A studio-wide form against one that is more specific or ranks higher.
FormScenarios ==
    {[f \in {"f1", "f2"} |-> IF f = "f1" THEN x ELSE y] :
        x \in {Form("MAIA", "any", "any", "ANY", 0), Form("MAIA", "ana", "any", "ADULT", 1000)},
        y \in {Form("JOTFORM", "any", "line", "ANY", 1000), Form("JOTFORM", "any", "line", "MINOR", 0),
               Form("MAIA", "ana", "any", "ANY", 0), Form("MAIA", "any", "any", "ADULT", 1000)}}

VisitOfForms == [artist |-> "ana", service |-> "line", age |-> "ADULT"]

H(does, link, form) == [does |-> does, link |-> link, form |-> form]

HandPlans == {
    <<H("send", 0, "auto"), H("sign", 1, "x"), H("sign", 1, "x"), H("void", 1, "x")>>,
    <<H("assistant", 0, "auto"), H("sign", 1, "x"), H("review", 1, "x"), H("void", 1, "x")>>,
    <<H("send", 0, "f2"), H("jotform", 1, "s1"), H("jotform", 1, "s1"), H("review", 1, "x")>>,
    <<H("copy", 0, "auto"), H("sign", 1, "x"), H("complete", 1, "x"), H("edit", 0, "f1")>>,
    <<H("send", 0, "auto"), H("copy", 0, "f1"), H("sign", 2, "x"), H("edit", 0, "f2")>>}

-----------------------------------------------------------------------------
\* A quoted service, and one with an hourly rate and a fixed deposit.
Row(duration, pricing, base, hourly, approval) ==
    [active |-> TRUE, duration |-> duration, pricing |-> pricing, base |-> base, hourly |-> hourly,
     approval |-> approval, tattoo |-> FALSE, deposit |-> "NONE", amount |-> None, percent |-> None, pays |-> "SQUARE"]

FirstRows == {Row(60, "QUOTE", None, None, TRUE),
              [Row(60, "HOURLY", None, 90, FALSE) EXCEPT !.deposit = "FIXED", !.amount = 20]}

EditScenarios == {<<a, b>> :
    a \in {[duration |-> 0], [deposit |-> "PERCENT", percent |-> 20, pays |-> "STRIPE"]},
    b \in {[pricing |-> "FLAT", base |-> 100], [active |-> FALSE], [pays |-> "VENMO_MANUAL"]}}

-----------------------------------------------------------------------------
Rule(day, from, to) == [day |-> day, from |-> from, to |-> to]

\* The clocks go forward or back, by day or at midnight; west and east of Greenwich
\* the times shown twice differ.
ClockChanges == [at : {5, 8}, shift : {-1}, east : BOOLEAN] \cup [at : {5, 8}, shift : {1}, east : {FALSE}]

NativeQueries ==
    [kind : {"native"}, zone : ClockChanges,
     rules : {<<Rule(0, 1, 4), Rule(1, 0, 3)>>, <<Rule(0, 2, 4), Rule(2, 1, 4), Rule(0, 0, 2)>>},
     busy : {{}, {[from |-> 5, to |-> 6]}, {[from |-> 3, to |-> 4], [from |-> 9, to |-> 11]}},
     from : {0, 2}, to : {8, 11}, duration : {1, 2}, step : {1, 2}, before : {0, 1}, after : {0, 1}, now : {0, 3}]

SquareQueries ==
    {q \in [kind : {"square"}, zone : ClockChanges, fromDate : 0 .. 2, toDate : 0 .. 5, now : {0, 3, 5},
            open : {{1, 4, 7, 8, 11, 15, 16, 19}, {5, 6, 9, 12}}] : q.toDate >= q.fromDate}

SearchedQueries == NativeQueries \cup SquareQueries

-----------------------------------------------------------------------------
Clicked(does, at, key) == [does |-> does, at |-> at, key |-> key]

ClickScenarios == {
    <<Clicked("connect", "B", 1), Clicked("callback", "B", 1), Clicked("callback", "B", 1),
      Clicked("import", 0, 1), Clicked("import", 0, 1)>>,
    <<Clicked("connect", "B", 1), Clicked("callback", "B", 1), Clicked("locate", 0, 1),
      Clicked("map", 7, 1), Clicked("disconnect", 0, 1)>>,
    <<Clicked("import", 0, 1), Clicked("import", 0, 1), Clicked("unmap", 7, 1), Clicked("map", 7, 1),
      Clicked("search", 7, 1)>>}

HoldingsHere == [kind : {"location", "variation"}, owner : {"A", "B"}, n : {1}]

-----------------------------------------------------------------------------
counterPart == <<counterVars, invoiceVars>>
formPart == <<fvars, catalogVars>>
squarePart == <<svars, cvars>>

\* Where the parts that do not run begin.
IdleAmount == OneOf(Amounts)
IdleChange == OneOf(EditScenarios)
IdleForms == OneOf(FormScenarios)
IdleQuery == OneOf(SquareQueries)

SalesInit ==
    /\ focus \in {"counter", "invoices", "forms", "services", "slots", "square"}
    /\ focus # "counter" => catalog = IdleAmount
    /\ focus # "forms" => forms = IdleForms /\ active = FormIds
    /\ focus # "services" => change = IdleChange
    /\ focus # "slots" => query = IdleQuery
    /\ focus # "square" => conn = NoConnection
    /\ CounterInit /\ InvoiceInit /\ FormInit /\ CatalogInit /\ ConnectionInit /\ SlotInit

SalesNext ==
    /\ UNCHANGED focus
    /\ \/ focus = "counter" /\ CounterNext /\ UNCHANGED <<invoiceVars, formPart, squarePart>>
       \/ focus = "invoices" /\ InvoiceNext /\ UNCHANGED <<counterVars, formPart, squarePart>>
       \/ focus = "forms" /\ FormNext /\ UNCHANGED <<counterPart, catalogVars, squarePart>>
       \/ focus = "services" /\ CatalogNext /\ UNCHANGED <<counterPart, fvars, squarePart>>
       \/ focus = "slots" /\ SlotNext /\ UNCHANGED <<counterPart, formPart, cvars>>
       \/ focus = "square" /\ ConnectionNext /\ UNCHANGED <<counterPart, formPart, svars>>

SalesSpec == SalesInit /\ [][SalesNext]_<<focus, counterPart, formPart, squarePart>>

SalesView ==
    CASE focus = "counter" -> <<focus, counterVars>>
      [] focus = "invoices" -> <<focus, invoiceVars>>
      [] focus = "forms" -> <<focus, fvars>>
      [] focus = "services" -> <<focus, catalogVars>>
      [] focus = "slots" -> <<focus, svars>>
      [] focus = "square" -> <<focus, cvars>>
=============================================================================
