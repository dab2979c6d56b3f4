---------------------------- MODULE SalesProofs ----------------------------
(***************************************************************************)
(* Proofs about what the studio sells: the counter, invoices, the          *)
(* Square connection, consent forms, the services on offer and the search  *)
(* for free times, for every number of requests.                           *)
(***************************************************************************)
EXTENDS CounterSales, StudioInvoices, SquareConnection, ConsentForms, ServiceCatalog, SlotSearch,
        FiniteSetTheorems, TLAPS

-----------------------------------------------------------------------------
(* A sale at the counter.                                                   *)

SessionStates == {"none", "open", "paid", "expired"}
CardAttempts == [status : {"NONE", "PENDING", "PAID", "EXPIRED"}, session : BOOLEAN, total : Amounts \cup {0}]
TillRows ==
    [kind : {"cash", "card", "resume", "cancel", "check"},
     pc : {"idle", "cash", "open", "save", "expire", "retrieve", "settle", "done"},
     copy : CardAttempts, total : Amounts \cup {0}, saw : SessionStates]

\* Requests that go on with a card found, or made, its attempt.
WithCard == {"open", "save", "expire", "retrieve", "settle"}

\* An attempt keeps its total and stays behind its session; what Stripe said to be over
\* is over; cash is taken only when no session can be paid any more.
CounterGuards ==
    /\ sale \in [tender : {"NONE", "CASH", "CARD"}, total : Amounts \cup {0}]
    /\ attempt \in CardAttempts /\ till \in [Tills -> TillRows]
    /\ session \in [state : SessionStates, amount : Amounts \cup {0}, url : BOOLEAN]
    /\ sale.tender = "NONE" => sale = NoSale
    /\ attempt.status = "NONE" => attempt = NoAttempt /\ session = NoSession
    /\ attempt.status = "EXPIRED" => session.state = "expired"
    /\ session.state # "none" => session.amount = attempt.total
    /\ session.state = "paid" => attempt.session
    /\ session.state = "none" => ~session.url
    /\ sale.tender = "CASH" => CardClosed
    /\ sale.tender = "CARD" => session.state = "paid" /\ sale.total = session.amount
    /\ \A t \in Tills :
        /\ till[t].pc \in WithCard => attempt # NoAttempt
        /\ till[t].pc = "open" => till[t].copy.total = attempt.total
        /\ till[t].pc = "save" => session.state # "none"
        /\ till[t].pc = "settle" /\ till[t].saw \in {"paid", "expired"} => session.state = till[t].saw

CounterInv == CounterTypeOK /\ CounterGuards

LEMMA CounterStarts == CounterInit => CounterInv
<1> SUFFICES ASSUME CounterInit PROVE CounterInv
  OBVIOUS
<1>1. PICK kinds \in TillKinds :
        till = [t \in Tills |-> [kind |-> kinds[t], pc |-> "idle", copy |-> NoAttempt, total |-> 0, saw |-> "none"]]
  BY DEF CounterInit
<1>2. NoAttempt \in CardAttempts
  BY DEF NoAttempt, CardAttempts
<1>3. till \in [Tills -> TillRows] /\ \A t \in Tills : till[t].pc = "idle"
  BY <1>1, <1>2, TillRequests DEF TillRows, SessionStates
<1>4. CounterTypeOK
  BY DEF CounterInit, CounterTypeOK, NoSale, NoAttempt, NoSession
<1>5. CounterGuards
  BY <1>2, <1>3 DEF CounterInit, CounterGuards, NoSale, NoAttempt, NoSession, SessionStates, WithCard
<1> QED BY <1>4, <1>5 DEF CounterInv

\* The attempt, its session and the sale before and after a step: an attempt that exists
\* keeps its total, a session that is over stays as it is.
LEMMA TillsKeep ==
    ASSUME CounterInv, NEW t \in Tills, till' \in [Tills -> TillRows],
           \A u \in Tills : u # t => till'[u] = till[u],
           attempt # NoAttempt => attempt' # NoAttempt /\ attempt'.total = attempt.total,
           session.state # "none" => session'.state # "none",
           session.state \in {"paid", "expired"} => session'.state = session.state,
           till'[t].pc \in WithCard => attempt' # NoAttempt,
           till'[t].pc = "open" => till'[t].copy.total = attempt'.total,
           till'[t].pc = "save" => session'.state # "none",
           till'[t].pc = "settle" /\ till'[t].saw \in {"paid", "expired"} => session'.state = till'[t].saw
    PROVE  \A u \in Tills :
        /\ till'[u].pc \in WithCard => attempt' # NoAttempt
        /\ till'[u].pc = "open" => till'[u].copy.total = attempt'.total
        /\ till'[u].pc = "save" => session'.state # "none"
        /\ till'[u].pc = "settle" /\ till'[u].saw \in {"paid", "expired"} => session'.state = till'[u].saw
BY DEF CounterInv, CounterGuards, WithCard

\* A till goes on to another step, perhaps with what it read.
LEMMA TillMoves ==
    ASSUME NEW t \in Tills, till \in [Tills -> TillRows],
           NEW pc \in {"idle", "cash", "open", "save", "expire", "retrieve", "settle", "done"},
           till' = [till EXCEPT ![t].pc = pc]
    PROVE  /\ till' \in [Tills -> TillRows] /\ till'[t].pc = pc
           /\ till'[t].copy = till[t].copy /\ till'[t].saw = till[t].saw
           /\ \A u \in Tills : u # t => till'[u] = till[u]
BY DEF TillRows

\* No till is touched, and neither are the attempt and what a session came to.
LEMMA TillsStay ==
    ASSUME CounterInv, till' = till, attempt' = attempt,
           session.state # "none" => session'.state # "none",
           session.state \in {"paid", "expired"} => session'.state = session.state
    PROVE  \A u \in Tills :
        /\ till'[u].pc \in WithCard => attempt' # NoAttempt
        /\ till'[u].pc = "open" => till'[u].copy.total = attempt'.total
        /\ till'[u].pc = "save" => session'.state # "none"
        /\ till'[u].pc = "settle" /\ till'[u].saw \in {"paid", "expired"} => session'.state = till'[u].saw
BY DEF CounterInv, CounterGuards, WithCard

LEMMA CounterOutside ==
    ASSUME CounterInv, ClientPays \/ SessionEnds \/ HalfHour \/ CatalogChanges \/ UNCHANGED counterVars
    PROVE  CounterInv'
<1>1. CASE ClientPays
  <2>1. session' \in [state : SessionStates, amount : Amounts \cup {0}, url : BOOLEAN]
        /\ session'.state = "paid" /\ session'.amount = session.amount /\ session'.url = session.url
    BY <1>1 DEF ClientPays, CounterInv, CounterGuards, SessionStates
  <2>2. session.state = "open" /\ attempt.session /\ attempt.status \notin {"NONE", "EXPIRED"} /\ sale.tender # "CASH"
    BY <1>1 DEF ClientPays, CounterInv, CounterGuards, CounterTypeOK, CardClosed, NoSession
  <2>3. UNCHANGED <<catalog, sale, attempt, late, till>>
    BY <1>1 DEF ClientPays
  <2> QED BY <2>1, <2>2, <2>3, TillsStay DEF CounterInv, CounterGuards, CounterTypeOK, CardClosed, NoSession
<1>2. CASE SessionEnds
  <2>1. session' \in [state : SessionStates, amount : Amounts \cup {0}, url : BOOLEAN]
        /\ session'.state = "expired" /\ session'.amount = session.amount /\ session'.url = session.url
    BY <1>2 DEF SessionEnds, CounterInv, CounterGuards, SessionStates
  <2>2. session.state = "open"
    BY <1>2 DEF SessionEnds
  <2>3. UNCHANGED <<catalog, sale, attempt, late, till>>
    BY <1>2 DEF SessionEnds
  <2> QED BY <2>1, <2>2, <2>3, TillsStay DEF CounterInv, CounterGuards, CounterTypeOK, CardClosed, NoSession
<1>3. CASE HalfHour
  <2>1. late' \in BOOLEAN /\ UNCHANGED <<catalog, sale, attempt, session, till>>
    BY <1>3 DEF HalfHour
  <2> QED BY <2>1, TillsStay DEF CounterInv, CounterGuards, CounterTypeOK, CardClosed
<1>4. CASE CatalogChanges
  <2>1. catalog' \in Amounts /\ UNCHANGED <<sale, attempt, session, late, till>>
    BY <1>4 DEF CatalogChanges
  <2> QED BY <2>1, TillsStay DEF CounterInv, CounterGuards, CounterTypeOK, CardClosed
<1>5. CASE UNCHANGED counterVars
  BY <1>5, TillsStay DEF counterVars, CounterInv, CounterGuards, CounterTypeOK, CardClosed
<1> QED BY <1>1, <1>2, <1>3, <1>4, <1>5

LEMMA CashSteps ==
    ASSUME CounterInv, NEW t \in Tills, PriceCart(t) \/ RecordCash(t)
    PROVE  CounterInv'
<1> USE DEF At
<1>1. CASE PriceCart(t)
  <2>0. till \in [Tills -> TillRows] /\ catalog \in Amounts
    BY DEF CounterInv, CounterGuards, CounterTypeOK
  <2>1. till' \in [Tills -> TillRows] /\ till'[t].pc = "cash" /\ \A u \in Tills : u # t => till'[u] = till[u]
    BY <1>1, <2>0, ZenonT(40) DEF PriceCart, TillRows
  <2>2. UNCHANGED <<catalog, sale, attempt, session, late>>
    BY <1>1 DEF PriceCart
  <2>3. till'[t].pc \notin WithCard
    BY <2>1 DEF WithCard
  <2> QED BY <2>1, <2>2, <2>3, TillsKeep DEF CounterInv, CounterGuards, CounterTypeOK, CardClosed
<1>2. CASE RecordCash(t)
  <2>1. till' \in [Tills -> TillRows] /\ till'[t].pc = "done" /\ \A u \in Tills : u # t => till'[u] = till[u]
    BY <1>2, TillMoves DEF RecordCash, Advance, CounterInv, CounterGuards
  <2>2. UNCHANGED <<catalog, attempt, session, late>>
    BY <1>2 DEF RecordCash
  <2>3. till'[t].pc \notin WithCard
    BY <2>1 DEF WithCard
  <2>4. \/ sale' = sale
        \/ /\ CardClosed /\ sale = NoSale /\ sale'.tender = "CASH"
           /\ sale' \in [tender : {"NONE", "CASH", "CARD"}, total : Amounts \cup {0}]
    BY <1>2 DEF RecordCash, CounterInv, CounterGuards, TillRows
  <2>5. CounterGuards'
    BY <2>1, <2>2, <2>3, <2>4, TillsKeep DEF CounterInv, CounterGuards, CardClosed, NoSession
  <2>6. CounterTypeOK'
    BY <2>2, <2>4 DEF CounterInv, CounterTypeOK, CardClosed, NoSale
  <2> QED BY <2>5, <2>6 DEF CounterInv
<1> QED BY <1>1, <1>2

LEMMA CardBegins ==
    ASSUME CounterInv, NEW t \in Tills, StartCard(t) \/ FindAttempt(t)
    PROVE  CounterInv'
<1> USE DEF At
<1>0. till \in [Tills -> TillRows] /\ catalog \in Amounts /\ attempt \in CardAttempts
  BY DEF CounterInv, CounterGuards, CounterTypeOK
<1>1. CASE StartCard(t)
  <2>1. \/ attempt = NoAttempt /\ attempt' = [status |-> "PENDING", session |-> FALSE, total |-> catalog]
        \/ attempt.status = "PENDING" /\ attempt' = attempt
    BY <1>1 DEF StartCard, CounterInv, CounterGuards
  <2>2. attempt' \in CardAttempts /\ attempt'.status = "PENDING" /\ attempt' # NoAttempt
    <3>1. CASE attempt' = [status |-> "PENDING", session |-> FALSE, total |-> catalog]
      BY <3>1, <1>0 DEF CardAttempts, NoAttempt
    <3>2. CASE attempt.status = "PENDING" /\ attempt' = attempt
      BY <3>2, <1>0 DEF NoAttempt
    <3> QED BY <2>1, <3>1, <3>2
  <2>3. /\ till' \in [Tills -> TillRows] /\ till'[t].pc = "open" /\ till'[t].copy = attempt'
        /\ \A u \in Tills : u # t => till'[u] = till[u]
    <3>1. till' = [till EXCEPT ![t].pc = "open", ![t].copy = attempt']
      BY <1>1 DEF StartCard
    <3> QED BY <3>1, <1>0, <2>2 DEF TillRows
  <2>4. UNCHANGED <<catalog, sale, session, late>> /\ sale = NoSale
    BY <1>1 DEF StartCard
  <2>5. attempt # NoAttempt => attempt'.total = attempt.total /\ attempt'.session = attempt.session
    BY <2>1
  <2>6. attempt = NoAttempt => session = NoSession
    BY DEF CounterInv, CounterGuards, NoAttempt
  <2>7. \A u \in Tills :
        /\ till'[u].pc \in WithCard => attempt' # NoAttempt
        /\ till'[u].pc = "open" => till'[u].copy.total = attempt'.total
        /\ till'[u].pc = "save" => session'.state # "none"
        /\ till'[u].pc = "settle" /\ till'[u].saw \in {"paid", "expired"} => session'.state = till'[u].saw
    BY <2>2, <2>3, <2>4, <2>5, TillsKeep
  <2>8. CounterGuards'
    BY <2>2, <2>3, <2>4, <2>5, <2>6, <2>7 DEF CounterInv, CounterGuards, CardClosed, NoSale, NoSession
  <2>9. CounterTypeOK'
    BY <2>2, <2>4, <2>5, <2>6 DEF CounterInv, CounterTypeOK, CardAttempts, NoSale, NoSession
  <2> QED BY <2>8, <2>9 DEF CounterInv
<1>2. CASE FindAttempt(t)
  <2>1. /\ till' \in [Tills -> TillRows] /\ till'[t].pc \in {"retrieve", "expire", "open"}
        /\ till'[t].copy = attempt /\ \A u \in Tills : u # t => till'[u] = till[u]
    BY <1>2, <1>0 DEF FindAttempt, TillRows
  <2>2. UNCHANGED <<catalog, sale, attempt, session, late>> /\ attempt # NoAttempt
    BY <1>2 DEF FindAttempt
  <2>3. \A u \in Tills :
        /\ till'[u].pc \in WithCard => attempt' # NoAttempt
        /\ till'[u].pc = "open" => till'[u].copy.total = attempt'.total
        /\ till'[u].pc = "save" => session'.state # "none"
        /\ till'[u].pc = "settle" /\ till'[u].saw \in {"paid", "expired"} => session'.state = till'[u].saw
    BY <2>1, <2>2, TillsKeep
  <2> QED BY <2>1, <2>2, <2>3 DEF CounterInv, CounterGuards, CounterTypeOK, CardClosed
<1> QED BY <1>1, <1>2

LEMMA SessionSteps ==
    ASSUME CounterInv, NEW t \in Tills, OpenSession(t) \/ SaveSession(t) \/ ExpireSession(t)
    PROVE  CounterInv'
<1> USE DEF At
<1>0. /\ till \in [Tills -> TillRows] /\ attempt \in CardAttempts
      /\ session \in [state : SessionStates, amount : Amounts \cup {0}, url : BOOLEAN]
  BY DEF CounterInv, CounterGuards, CounterTypeOK
<1>1. CASE OpenSession(t)
  <2>1. till[t].pc = "open" /\ attempt # NoAttempt /\ till[t].copy.total = attempt.total
    BY <1>1 DEF OpenSession, CounterInv, CounterGuards, WithCard
  <2>2. PICK pc \in {"save", "done"} : Advance(t, pc) /\ (pc = "save" => session'.state # "none")
    BY <1>1, <1>0 DEF OpenSession
  <2>3. /\ till' \in [Tills -> TillRows] /\ till'[t].pc = pc
        /\ \A u \in Tills : u # t => till'[u] = till[u]
    BY <2>2, <1>0, TillMoves DEF Advance
  <2>4. UNCHANGED <<catalog, sale, attempt, late>>
    BY <1>1 DEF OpenSession
  <2>5. \/ session' = session
        \/ /\ session.state = "none"
           /\ session' = [state |-> "open", amount |-> attempt.total, url |-> FALSE]
    <3>1. \/ session' = session
          \/ /\ session.state = "none"
             /\ session' = [state |-> "open", amount |-> till[t].copy.total, url |-> FALSE]
      BY <1>1 DEF OpenSession
    <3> QED BY <3>1, <2>1
  <2>6. session' \in [state : SessionStates, amount : Amounts \cup {0}, url : BOOLEAN]
    <3>1. attempt.total \in Amounts \cup {0}
      BY <1>0 DEF CardAttempts
    <3>2. CASE session' = session
      BY <3>2, <1>0
    <3>3. CASE session' = [state |-> "open", amount |-> attempt.total, url |-> FALSE]
      BY <3>1, <3>3 DEF SessionStates
    <3> QED BY <2>5, <3>2, <3>3
  <2>7. attempt.status # "NONE"
    BY <2>1 DEF CounterInv, CounterGuards
  <2>8. sale.tender = "CASH" => attempt.status = "EXPIRED" /\ session.state = "expired"
    BY <2>7 DEF CounterInv, CounterGuards, CardClosed
  <2>9. \A u \in Tills :
        /\ till'[u].pc \in WithCard => attempt' # NoAttempt
        /\ till'[u].pc = "open" => till'[u].copy.total = attempt'.total
        /\ till'[u].pc = "save" => session'.state # "none"
        /\ till'[u].pc = "settle" /\ till'[u].saw \in {"paid", "expired"} => session'.state = till'[u].saw
    <3>1. session.state # "none" => session'.state = session.state
      BY <2>5
    <3>2. till'[t].pc = "save" => session'.state # "none"
      BY <2>2, <2>3
    <3>3. till'[t].pc \notin {"open", "settle"}
      BY <2>3
    <3> QED BY <3>1, <3>2, <3>3, <2>1, <2>3, <2>4, TillsKeep
  <2>10. CounterGuards'
    BY <1>0, <2>3, <2>4, <2>5, <2>6, <2>7, <2>9 DEF CounterInv, CounterGuards, CardClosed
  <2>11. CounterTypeOK'
    BY <2>4, <2>5, <2>6 DEF CounterInv, CounterTypeOK, SessionStates
  <2> QED BY <2>10, <2>11 DEF CounterInv
<1>2. CASE SaveSession(t)
  <2>1. till[t].pc = "save" /\ attempt # NoAttempt /\ session.state # "none" /\ attempt.status # "NONE"
    BY <1>2 DEF SaveSession, CounterInv, CounterGuards, WithCard
  <2>2. PICK pc \in {"expire", "done"} : Advance(t, pc)
    BY <1>2 DEF SaveSession
  <2>3. /\ till' \in [Tills -> TillRows] /\ till'[t].pc = pc
        /\ \A u \in Tills : u # t => till'[u] = till[u]
    BY <2>2, <1>0, TillMoves DEF Advance
  <2>4. UNCHANGED <<catalog, sale, late>>
    BY <1>2 DEF SaveSession
  <2>5. /\ attempt' \in CardAttempts /\ attempt'.session
        /\ attempt'.status = attempt.status /\ attempt'.total = attempt.total
    BY <1>2, <1>0 DEF SaveSession, CardAttempts
  <2>6. /\ session' \in [state : SessionStates, amount : Amounts \cup {0}, url : BOOLEAN]
        /\ session'.state = session.state /\ session'.amount = session.amount
    BY <1>2, <1>0 DEF SaveSession
  <2>7. attempt' # NoAttempt
    BY <2>1, <2>5 DEF NoAttempt
  <2>8. \A u \in Tills :
        /\ till'[u].pc \in WithCard => attempt' # NoAttempt
        /\ till'[u].pc = "open" => till'[u].copy.total = attempt'.total
        /\ till'[u].pc = "save" => session'.state # "none"
        /\ till'[u].pc = "settle" /\ till'[u].saw \in {"paid", "expired"} => session'.state = till'[u].saw
    BY <2>1, <2>3, <2>5, <2>6, <2>7, TillsKeep
  <2>9. CounterGuards'
    BY <2>1, <2>3, <2>4, <2>5, <2>6, <2>8 DEF CounterInv, CounterGuards, CardClosed
  <2>10. CounterTypeOK'
    BY <2>4, <2>5, <2>6 DEF CounterInv, CounterTypeOK, CardAttempts
  <2> QED BY <2>9, <2>10 DEF CounterInv
<1>3. CASE ExpireSession(t)
  <2>1. till[t].pc = "expire" /\ attempt # NoAttempt /\ attempt.status # "NONE"
    BY <1>3 DEF ExpireSession, CounterInv, CounterGuards, WithCard
  <2>2. PICK pc \in {"retrieve", "done"} : Advance(t, pc)
    BY <1>3 DEF ExpireSession
  <2>3. /\ till' \in [Tills -> TillRows] /\ till'[t].pc = pc
        /\ \A u \in Tills : u # t => till'[u] = till[u]
    BY <2>2, <1>0, TillMoves DEF Advance
  <2>4. UNCHANGED <<catalog, sale, attempt, late>>
    BY <1>3 DEF ExpireSession
  <2>5. /\ session' \in [state : SessionStates, amount : Amounts \cup {0}, url : BOOLEAN]
        /\ session'.amount = session.amount /\ session'.url = session.url
        /\ session'.state = session.state \/ (session.state = "open" /\ session'.state = "expired")
    BY <1>3, <1>0 DEF ExpireSession, SessionStates
  <2>6. \A u \in Tills :
        /\ till'[u].pc \in WithCard => attempt' # NoAttempt
        /\ till'[u].pc = "open" => till'[u].copy.total = attempt'.total
        /\ till'[u].pc = "save" => session'.state # "none"
        /\ till'[u].pc = "settle" /\ till'[u].saw \in {"paid", "expired"} => session'.state = till'[u].saw
    BY <2>1, <2>3, <2>4, <2>5, TillsKeep
  <2>7. CounterGuards'
    BY <2>1, <2>3, <2>4, <2>5, <2>6 DEF CounterInv, CounterGuards, CardClosed
  <2>8. CounterTypeOK'
    BY <2>4, <2>5 DEF CounterInv, CounterTypeOK, SessionStates
  <2> QED BY <2>7, <2>8 DEF CounterInv
<1> QED BY <1>1, <1>2, <1>3

LEMMA CardSettles ==
    ASSUME CounterInv, NEW t \in Tills, RetrieveSession(t) \/ SettleCard(t)
    PROVE  CounterInv'
<1> USE DEF At
<1>0. /\ till \in [Tills -> TillRows] /\ attempt \in CardAttempts
      /\ sale \in [tender : {"NONE", "CASH", "CARD"}, total : Amounts \cup {0}]
      /\ session \in [state : SessionStates, amount : Amounts \cup {0}, url : BOOLEAN]
  BY DEF CounterInv, CounterGuards, CounterTypeOK
<1>1. CASE RetrieveSession(t)
  <2>1. till[t].pc = "retrieve" /\ attempt # NoAttempt
    BY <1>1 DEF RetrieveSession, CounterInv, CounterGuards, WithCard
  <2>2. /\ till' \in [Tills -> TillRows] /\ till'[t].pc = "settle" /\ till'[t].saw = session.state
        /\ \A u \in Tills : u # t => till'[u] = till[u]
    <3> DEFINE seen == session.state
               row == [till[t] EXCEPT !.pc = "settle", !.saw = seen]
    <3>1. seen \in SessionStates /\ till[t] \in TillRows
      BY <1>0
    <3>2. till' = [till EXCEPT ![t] = row]
      BY <1>1 DEF RetrieveSession
    <3> HIDE DEF seen
    <3>3. row \in TillRows /\ row.pc = "settle" /\ row.saw = seen
      BY <3>1 DEF TillRows
    <3> HIDE DEF row
    <3>4. till' \in [Tills -> TillRows] /\ till'[t] = row /\ \A u \in Tills : u # t => till'[u] = till[u]
      BY <3>2, <3>3, <1>0
    <3> QED BY <3>3, <3>4 DEF seen
  <2>3. UNCHANGED <<catalog, sale, attempt, session, late>>
    BY <1>1 DEF RetrieveSession
  <2>4. \A u \in Tills :
        /\ till'[u].pc \in WithCard => attempt' # NoAttempt
        /\ till'[u].pc = "open" => till'[u].copy.total = attempt'.total
        /\ till'[u].pc = "save" => session'.state # "none"
        /\ till'[u].pc = "settle" /\ till'[u].saw \in {"paid", "expired"} => session'.state = till'[u].saw
    BY <2>1, <2>2, <2>3, TillsKeep
  <2> QED BY <2>2, <2>3, <2>4 DEF CounterInv, CounterGuards, CounterTypeOK, CardClosed
<1>2. CASE SettleCard(t)
  <2>1. till[t].pc = "settle" /\ attempt # NoAttempt /\ attempt.status # "NONE"
    BY <1>2 DEF SettleCard, CounterInv, CounterGuards, WithCard
  <2>2. till[t].saw \in {"paid", "expired"} => session.state = till[t].saw
    BY <2>1 DEF CounterInv, CounterGuards
  <2>3. /\ till' \in [Tills -> TillRows] /\ till'[t].pc = "done"
        /\ \A u \in Tills : u # t => till'[u] = till[u]
    BY <1>2, <1>0, TillMoves DEF SettleCard, Advance
  <2>4. UNCHANGED <<catalog, session, late>>
    BY <1>2 DEF SettleCard
  <2> DEFINE Grown(s) == /\ attempt' \in CardAttempts /\ attempt'.status = s
                         /\ attempt'.session = attempt.session /\ attempt'.total = attempt.total
  <2>5. attempt' # NoAttempt /\ attempt'.total = attempt.total => \A u \in Tills :
        /\ till'[u].pc \in WithCard => attempt' # NoAttempt
        /\ till'[u].pc = "open" => till'[u].copy.total = attempt'.total
        /\ till'[u].pc = "save" => session'.state # "none"
        /\ till'[u].pc = "settle" /\ till'[u].saw \in {"paid", "expired"} => session'.state = till'[u].saw
    BY <2>1, <2>3, <2>4, TillsKeep
  <2>6. CASE till[t].saw = "paid" /\ sale.tender # "CASH"
    <3>1. attempt' = [attempt EXCEPT !.status = "PAID"]
          /\ sale' = IF sale = NoSale THEN [tender |-> "CARD", total |-> attempt.total] ELSE sale
      BY <1>2, <2>6 DEF SettleCard, ChargedTotal
    <3>2. Grown("PAID")
      BY <3>1, <1>0 DEF CardAttempts
    <3>3. attempt' # NoAttempt
      BY <3>2 DEF NoAttempt
    <3>4. session.state = "paid" /\ session.amount = attempt.total
      BY <2>2, <2>6 DEF CounterInv, CounterGuards
    <3>5. attempt.total \in Amounts \cup {0}
      BY <1>0 DEF CardAttempts
    <3>6. /\ sale' \in [tender : {"NONE", "CASH", "CARD"}, total : Amounts \cup {0}]
          /\ sale'.tender = "CARD" /\ sale'.total = session.amount
      <4>1. CASE sale = NoSale
        BY <4>1, <3>1, <3>4, <3>5
      <4>2. CASE sale # NoSale
        <5>1. sale' = sale /\ sale.tender = "CARD"
          BY <4>2, <3>1, <2>6, <1>0 DEF CounterInv, CounterGuards
        <5> QED BY <5>1, <1>0 DEF CounterInv, CounterGuards
      <4> QED BY <4>1, <4>2
    <3>7. CounterGuards'
      BY <2>3, <2>4, <2>5, <3>2, <3>3, <3>4, <3>6 DEF CounterInv, CounterGuards, CardClosed
    <3>8. CounterTypeOK'
      BY <2>4, <3>2, <3>6 DEF CounterInv, CounterTypeOK, CardAttempts
    <3> QED BY <3>7, <3>8 DEF CounterInv
  <2>7. CASE till[t].saw = "expired" /\ attempt.status # "PAID"
    <3>1. attempt' = [attempt EXCEPT !.status = "EXPIRED"] /\ sale' = sale
      BY <1>2, <2>7 DEF SettleCard
    <3>2. Grown("EXPIRED")
      BY <3>1, <1>0 DEF CardAttempts
    <3>3. attempt' # NoAttempt
      BY <3>2 DEF NoAttempt
    <3>4. session.state = "expired"
      BY <2>2, <2>7
    <3>5. CounterGuards'
      BY <2>3, <2>4, <2>5, <3>1, <3>2, <3>3, <3>4 DEF CounterInv, CounterGuards, CardClosed
    <3>6. CounterTypeOK'
      BY <2>4, <2>7, <3>1, <3>2 DEF CounterInv, CounterTypeOK, CardAttempts
    <3> QED BY <3>5, <3>6 DEF CounterInv
  <2>8. CASE /\ ~(till[t].saw = "paid" /\ sale.tender # "CASH")
             /\ ~(till[t].saw = "expired" /\ attempt.status # "PAID")
    <3>1. sale' = sale /\ attempt' = attempt
      BY <1>2, <2>8 DEF SettleCard
    <3> QED BY <2>1, <2>3, <2>4, <2>5, <3>1 DEF CounterInv, CounterGuards, CounterTypeOK, CardClosed
  <2> QED BY <2>6, <2>7, <2>8
<1> QED BY <1>1, <1>2

\* The client pays by one tender, and the sale that is recorded is what was charged,
\* whatever requests overlap, are cancelled, repeated or lose their answer.
THEOREM PaidByOneTender == CounterSpec => []CounterSafe
<1>1. CounterInit => CounterInv
  BY CounterStarts
<1>2. CounterInv /\ [CounterNext]_counterVars => CounterInv'
  BY CounterOutside, CashSteps, CardBegins, SessionSteps, CardSettles DEF CounterNext, TillStep
<1>3. CounterInv => CounterSafe
  BY DEF CounterInv, CounterGuards, CounterSafe, OneTender, RecordedAsCharged, CardClosed, NoSession
<1> QED BY <1>1, <1>2, <1>3, PTL DEF CounterSpec

-----------------------------------------------------------------------------
(* One invoice.                                                             *)

RemoteStates == {"none", "draft", "open", "paid", "void"}
Remotes == [state : RemoteStates, on : [Items -> Nat]]
Bills == [status : {"DRAFT", "ISSUING", "OPEN", "PAID", "VOID"}, id : BOOLEAN,
          sms : {"NOT_SENT", "SENDING", "SENT", "UNKNOWN"}]
ClerkRows == [pc : Steps, todo : SUBSET Items, saw : RemoteStates \cup {"refused", "unknown"}]

Resting(c) == clerk[c].pc \in {"idle", "done"}

InvoiceShape ==
    /\ bill \in Bills /\ age \in {"fresh", "old", "forgotten"} /\ remote \in Remotes
    /\ made \in 0..1 /\ texts \in 0..1 /\ clerk \in [Clerks -> ClerkRows]
    /\ \A c, d \in Clerks : ~Resting(c) /\ ~Resting(d) => c = d

\* The row knows of an invoice that left its draft; an invoice that can be charged is
\* complete; a text that may be sent was not sent.
InvoiceRows ==
    /\ bill.status = "DRAFT" => age = "fresh"
    /\ bill.id => remote.state # "none"
    /\ remote.state \in {"open", "paid", "void"} => bill.id
    /\ made # 0 => remote.state # "none"
    /\ remote.state \in {"open", "paid"} => \A i \in Items : remote.on[i] = 1
    /\ bill.sms = "NOT_SENT" => texts = 0

\* What the request that holds the lock knows at each of its steps.
ClerkKnows(c) ==
    /\ clerk[c].pc = "create" => ~bill.id /\ age # "forgotten"
    /\ clerk[c].pc = "save" => remote.state # "none"
    /\ clerk[c].pc \in {"list", "line", "read"} => bill.id
    /\ clerk[c].pc = "line" => remote.state = "draft"
    /\ clerk[c].pc = "status" => clerk[c].saw \in {"draft", "open", "paid", "void"}
    /\ clerk[c].pc = "send" => bill.sms = "SENDING" /\ texts = 0
    /\ clerk[c].pc \in {"sent", "failed"} => bill.sms # "NOT_SENT"
    /\ clerk[c].pc = "failed" => clerk[c].saw \in {"refused", "unknown"}
    /\ clerk[c].pc = "failed" /\ clerk[c].saw = "refused" => texts = 0

InvoiceInv == InvoiceShape /\ InvoiceRows /\ \A c \in Clerks : ClerkKnows(c)

LEMMA InvoiceStarts == InvoiceInit => InvoiceInv
<1> SUFFICES ASSUME InvoiceInit PROVE InvoiceInv
  OBVIOUS
<1>1. clerk \in [Clerks -> ClerkRows] /\ \A c \in Clerks : clerk[c].pc = "idle"
  BY DEF InvoiceInit, ClerkRows, Steps, RemoteStates
<1>2. remote \in Remotes /\ remote.state = "none"
  BY DEF InvoiceInit, NoRemote, Remotes, RemoteStates
<1>3. InvoiceShape
  BY <1>1, <1>2 DEF InvoiceInit, InvoiceShape, Resting, Bills
<1>4. InvoiceRows
  BY <1>2 DEF InvoiceInit, InvoiceRows
<1>5. \A c \in Clerks : ClerkKnows(c)
  BY <1>1 DEF ClerkKnows
<1> QED BY <1>3, <1>4, <1>5 DEF InvoiceInv

\* What a step of a request leaves of the others.
OthersStay(c) ==
    clerk' \in [Clerks -> ClerkRows] /\ \A d \in Clerks : d # c => clerk'[d] = clerk[d]

\* A step of one request, while no other has the lock.
LEMMA OneClerkMoves ==
    ASSUME InvoiceShape, NEW c \in Clerks, \A d \in Clerks : d # c => Resting(d), OthersStay(c),
           bill' \in Bills, age' \in {"fresh", "old", "forgotten"}, remote' \in Remotes,
           made' \in 0..1, texts' \in 0..1, InvoiceRows', ClerkKnows(c)'
    PROVE  InvoiceInv'
<1>1. \A d \in Clerks : d # c => clerk'[d].pc \in {"idle", "done"}
  BY DEF Resting, OthersStay
<1>2. \A d \in Clerks : ClerkKnows(d)'
  <2> SUFFICES ASSUME NEW d \in Clerks, d # c PROVE ClerkKnows(d)'
    OBVIOUS
  <2> QED BY <1>1 DEF ClerkKnows
<1>3. InvoiceShape'
  BY <1>1 DEF InvoiceShape, Resting, OthersStay
<1> QED BY <1>2, <1>3 DEF InvoiceInv

LEMMA ClerkProceeds ==
    ASSUME clerk \in [Clerks -> ClerkRows], NEW c \in Clerks, NEW pc \in Steps, Proceed(c, pc)
    PROVE  OthersStay(c) /\ clerk'[c].pc = pc /\ clerk'[c].todo = clerk[c].todo /\ clerk'[c].saw = clerk[c].saw
BY DEF Proceed, ClerkRows, OthersStay

\* The request that is under way holds the lock, and so does one that begins.
LEMMA LockHeld ==
    ASSUME InvoiceShape, NEW c \in Clerks, ~Resting(c) \/ Unclaimed
    PROVE  \A d \in Clerks : d # c => Resting(d)
BY DEF InvoiceShape, Resting, Unclaimed

LEMMA IssueSteps ==
    ASSUME InvoiceInv, NEW c \in Clerks,
           BeginIssue(c) \/ CreateInvoice(c) \/ SaveInvoiceId(c) \/ ListLines(c) \/ AddLine(c) \/ Finalize(c)
    PROVE  InvoiceInv'
<1> USE DEF Atop
<1>0. InvoiceShape /\ InvoiceRows /\ ClerkKnows(c)
  BY DEF InvoiceInv
<1>1. /\ clerk \in [Clerks -> ClerkRows] /\ bill \in Bills /\ remote \in Remotes
      /\ age \in {"fresh", "old", "forgotten"} /\ made \in 0..1 /\ texts \in 0..1
  BY <1>0 DEF InvoiceShape
<1>2. \A d \in Clerks : d # c => Resting(d)
  BY <1>0, LockHeld
     DEF BeginIssue, CreateInvoice, SaveInvoiceId, ListLines, AddLine, Finalize, Resting
<1>3. CASE BeginIssue(c)
  <2>1. UNCHANGED <<age, remote, made, texts>>
    BY <1>3 DEF BeginIssue
  <2>2. CASE MayRepeat
    <3>1. bill' = [bill EXCEPT !.status = "ISSUING"] /\ bill.status \in {"DRAFT", "ISSUING"}
      BY <1>3, <2>2 DEF BeginIssue
    <3>2. bill' \in Bills /\ bill'.status = "ISSUING" /\ bill'.id = bill.id /\ bill'.sms = bill.sms
      BY <3>1, <1>1 DEF Bills
    <3>3. PICK pc \in {"list", "create"} : Proceed(c, pc) /\ (pc = "list" <=> bill.id)
      BY <1>3, <2>2 DEF BeginIssue
    <3>4. OthersStay(c) /\ clerk'[c].pc = pc
      BY <3>3, <1>1, ClerkProceeds DEF Steps
    <3>5. ~bill.id => age = "fresh"
      BY <2>2, <3>1, <1>0 DEF MayRepeat, InvoiceRows
    <3>6. ClerkKnows(c)'
      BY <2>1, <3>2, <3>3, <3>4, <3>5 DEF ClerkKnows
    <3>7. InvoiceRows'
      BY <1>0, <2>1, <3>2 DEF InvoiceRows
    <3> QED BY <1>0, <1>1, <1>2, <2>1, <3>2, <3>4, <3>6, <3>7, OneClerkMoves
  <2>3. CASE ~MayRepeat
    <3>1. bill' = bill /\ Proceed(c, "done")
      BY <1>3, <2>3 DEF BeginIssue
    <3>2. OthersStay(c) /\ clerk'[c].pc = "done"
      BY <3>1, <1>1, ClerkProceeds DEF Steps
    <3>3. ClerkKnows(c)' /\ InvoiceRows'
      BY <1>0, <2>1, <3>1, <3>2 DEF ClerkKnows, InvoiceRows
    <3> QED BY <1>0, <1>1, <1>2, <2>1, <3>1, <3>2, <3>3, OneClerkMoves
  <2> QED BY <2>2, <2>3
<1>4. CASE CreateInvoice(c)
  <2>1. UNCHANGED <<bill, age, texts>> /\ Proceed(c, "save") /\ clerk[c].pc = "create"
    BY <1>4 DEF CreateInvoice
  <2>2. OthersStay(c) /\ clerk'[c].pc = "save"
    BY <2>1, <1>1, ClerkProceeds DEF Steps
  <2>3. age # "forgotten" /\ ~bill.id
    BY <1>0, <2>1 DEF ClerkKnows
  <2>4. \/ made = 0 /\ made' = made + 1 /\ remote' = [NoRemote EXCEPT !.state = "draft"]
        \/ made # 0 /\ made' = made /\ remote' = remote
    BY <1>4, <2>3 DEF CreateInvoice
  <2>5. [NoRemote EXCEPT !.state = "draft"] \in Remotes /\ [NoRemote EXCEPT !.state = "draft"].state = "draft"
    BY DEF NoRemote, Remotes, RemoteStates
  <2>6. /\ remote' \in Remotes /\ made' \in 0..1 /\ remote'.state # "none"
        /\ remote' = remote \/ remote'.state = "draft"
    <3>1. CASE made = 0 /\ made' = made + 1 /\ remote' = [NoRemote EXCEPT !.state = "draft"]
      <4>1. made' \in 0..1
        BY <3>1
      <4>2. remote' \in Remotes /\ remote'.state = "draft"
        BY <3>1, <2>5
      <4> QED BY <4>1, <4>2
    <3>2. CASE made # 0 /\ made' = made /\ remote' = remote
      BY <3>2, <1>0, <1>1 DEF InvoiceRows
    <3> QED BY <2>4, <3>1, <3>2
  <2>7. ClerkKnows(c)' /\ InvoiceRows'
    BY <1>0, <2>1, <2>2, <2>3, <2>6 DEF ClerkKnows, InvoiceRows
  <2> QED BY <1>0, <1>1, <1>2, <2>1, <2>2, <2>6, <2>7, OneClerkMoves
<1>5. CASE SaveInvoiceId(c)
  <2>1. UNCHANGED <<age, remote, made, texts>> /\ Proceed(c, "list") /\ clerk[c].pc = "save"
    BY <1>5 DEF SaveInvoiceId
  <2>2. OthersStay(c) /\ clerk'[c].pc = "list"
    BY <2>1, <1>1, ClerkProceeds DEF Steps
  <2>3. bill' \in Bills /\ bill'.id /\ bill'.status = bill.status /\ bill'.sms = bill.sms
    BY <1>5, <1>1 DEF SaveInvoiceId, Bills
  <2>4. ClerkKnows(c)' /\ InvoiceRows'
    BY <1>0, <2>1, <2>2, <2>3 DEF ClerkKnows, InvoiceRows
  <2> QED BY <1>0, <1>1, <1>2, <2>1, <2>2, <2>3, <2>4, OneClerkMoves
<1>6. CASE ListLines(c)
  <2>1. UNCHANGED <<bill, age, remote, made, texts>> /\ clerk[c].pc = "list"
    BY <1>6 DEF ListLines
  <2>2. PICK pc \in {"line", "read"} :
          /\ clerk' = [clerk EXCEPT ![c].pc = pc, ![c].todo = Missing]
          /\ pc = "line" <=> remote.state = "draft"
    BY <1>6 DEF ListLines
  <2>3. OthersStay(c) /\ clerk'[c].pc = pc
    BY <2>2, <1>1, ZenonT(40) DEF OthersStay, ClerkRows, Missing, Steps
  <2>4. ClerkKnows(c)' /\ InvoiceRows'
    BY <1>0, <2>1, <2>2, <2>3 DEF ClerkKnows, InvoiceRows
  <2> QED BY <1>0, <1>1, <1>2, <2>1, <2>3, <2>4, OneClerkMoves
<1>7. CASE AddLine(c)
  <2>1. UNCHANGED <<bill, age, made, texts>> /\ clerk[c].pc = "line"
    BY <1>7 DEF AddLine
  <2>2. PICK i \in clerk[c].todo :
          /\ remote' = IF remote.on[i] = 0 \/ age = "forgotten" THEN [remote EXCEPT !.on[i] = @ + 1] ELSE remote
          /\ clerk' = [clerk EXCEPT ![c].todo = @ \ {i}]
    BY <1>7 DEF AddLine
  <2>3. OthersStay(c) /\ clerk'[c].pc = "line"
    BY <2>1, <2>2, <1>1 DEF OthersStay, ClerkRows
  <2>4. i \in Items
    BY <1>1 DEF ClerkRows
  <2>5. remote' \in Remotes /\ remote'.state = remote.state
    <3>1. [remote EXCEPT !.on[i] = @ + 1] \in Remotes /\ [remote EXCEPT !.on[i] = @ + 1].state = remote.state
      BY <1>1, <2>4 DEF Remotes
    <3> QED BY <2>2, <3>1, <1>1
  <2>6. remote.state = "draft" /\ bill.id
    BY <1>0, <2>1 DEF ClerkKnows
  <2>7. ClerkKnows(c)' /\ InvoiceRows'
    BY <1>0, <2>1, <2>3, <2>5, <2>6 DEF ClerkKnows, InvoiceRows
  <2> QED BY <1>0, <1>1, <1>2, <2>1, <2>3, <2>5, <2>7, OneClerkMoves
<1>8. CASE Finalize(c)
  <2>1. UNCHANGED <<bill, age, made, texts>> /\ clerk[c].pc = "line"
    BY <1>8 DEF Finalize
  <2>2. remote.state = "draft" /\ bill.id
    BY <1>0, <2>1 DEF ClerkKnows
  <2>3. PICK pc \in {"read", "done"} : Proceed(c, pc)
    BY <1>8 DEF Finalize
  <2>4. OthersStay(c) /\ clerk'[c].pc = pc
    BY <2>3, <1>1, ClerkProceeds DEF Steps
  <2>5. \/ remote' = remote
        \/ remote' = [remote EXCEPT !.state = "open"] /\ \A i \in Items : remote.on[i] = 1
    BY <1>8 DEF Finalize
  <2>6. /\ remote' \in Remotes /\ remote'.on = remote.on
        /\ remote'.state # remote.state => remote'.state = "open" /\ \A i \in Items : remote'.on[i] = 1
        /\ remote'.state # "none"
    BY <2>2, <2>5, <1>1 DEF Remotes, RemoteStates
  <2>7. ClerkKnows(c)' /\ InvoiceRows'
    BY <1>0, <2>1, <2>2, <2>3, <2>4, <2>6 DEF ClerkKnows, InvoiceRows
  <2> QED BY <1>0, <1>1, <1>2, <2>1, <2>4, <2>6, <2>7, OneClerkMoves
<1> QED BY <1>3, <1>4, <1>5, <1>6, <1>7, <1>8

LEMMA StatusSteps ==
    ASSUME InvoiceInv, NEW c \in Clerks,
           ReadInvoice(c) \/ WriteStatus(c) \/ BeginSync(c) \/ StopClerk(c)
    PROVE  InvoiceInv'
<1> USE DEF Atop
<1>0. InvoiceShape /\ InvoiceRows /\ ClerkKnows(c)
  BY DEF InvoiceInv
<1>1. /\ clerk \in [Clerks -> ClerkRows] /\ bill \in Bills /\ remote \in Remotes
      /\ age \in {"fresh", "old", "forgotten"} /\ made \in 0..1 /\ texts \in 0..1
  BY <1>0 DEF InvoiceShape
<1>2. \A d \in Clerks : d # c => Resting(d)
  BY <1>0, LockHeld DEF ReadInvoice, WriteStatus, BeginSync, StopClerk, Resting
<1>3. CASE ReadInvoice(c)
  <2>1. UNCHANGED <<bill, age, remote, made, texts>> /\ clerk[c].pc = "read"
    BY <1>3 DEF ReadInvoice
  <2>2. remote.state \in RemoteStates /\ remote.state # "none"
    BY <1>0, <1>1, <2>1 DEF ClerkKnows, InvoiceRows, Remotes
  <2>3. clerk' = [clerk EXCEPT ![c].pc = "status", ![c].saw = remote.state]
    BY <1>3 DEF ReadInvoice
  <2>4. OthersStay(c) /\ clerk'[c].pc = "status" /\ clerk'[c].saw = remote.state
    BY <1>1, <2>2, <2>3 DEF OthersStay, ClerkRows, Steps
  <2>5. ClerkKnows(c)' /\ InvoiceRows'
    BY <1>0, <2>1, <2>2, <2>4 DEF ClerkKnows, InvoiceRows, RemoteStates
  <2> QED BY <1>0, <1>1, <1>2, <2>1, <2>4, <2>5, OneClerkMoves
<1>4. CASE WriteStatus(c)
  <2>1. UNCHANGED <<age, remote, made, texts>> /\ clerk[c].pc = "status" /\ Proceed(c, "done")
    BY <1>4 DEF WriteStatus
  <2>2. OthersStay(c) /\ clerk'[c].pc = "done"
    BY <2>1, <1>1, ClerkProceeds DEF Steps
  <2>3. StatusOf(clerk[c].saw) \in {"ISSUING", "OPEN", "PAID", "VOID"}
    BY <1>0, <2>1 DEF ClerkKnows, StatusOf
  <2>4. /\ bill' \in Bills /\ bill'.id = bill.id /\ bill'.sms = bill.sms
        /\ bill'.status \in {"ISSUING", "OPEN", "PAID", "VOID"}
    BY <1>4, <1>1, <2>3 DEF WriteStatus, Bills
  <2>5. ClerkKnows(c)' /\ InvoiceRows'
    BY <1>0, <2>1, <2>2, <2>4 DEF ClerkKnows, InvoiceRows
  <2> QED BY <1>0, <1>1, <1>2, <2>1, <2>2, <2>4, <2>5, OneClerkMoves
<1>5. CASE BeginSync(c)
  <2>1. UNCHANGED <<bill, age, remote, made, texts>> /\ bill.id /\ Proceed(c, "read")
    BY <1>5 DEF BeginSync
  <2>2. OthersStay(c) /\ clerk'[c].pc = "read"
    BY <2>1, <1>1, ClerkProceeds DEF Steps
  <2>3. ClerkKnows(c)' /\ InvoiceRows'
    BY <1>0, <2>1, <2>2 DEF ClerkKnows, InvoiceRows
  <2> QED BY <1>0, <1>1, <1>2, <2>1, <2>2, <2>3, OneClerkMoves
<1>6. CASE StopClerk(c)
  <2>1. UNCHANGED <<bill, age, remote, made, texts>> /\ Proceed(c, "done")
    BY <1>6 DEF StopClerk
  <2>2. OthersStay(c) /\ clerk'[c].pc = "done"
    BY <2>1, <1>1, ClerkProceeds DEF Steps
  <2>3. ClerkKnows(c)' /\ InvoiceRows'
    BY <1>0, <2>1, <2>2 DEF ClerkKnows, InvoiceRows
  <2> QED BY <1>0, <1>1, <1>2, <2>1, <2>2, <2>3, OneClerkMoves
<1> QED BY <1>3, <1>4, <1>5, <1>6

LEMMA TextSteps ==
    ASSUME InvoiceInv, NEW c \in Clerks,
           BeginText(c) \/ ClaimText(c) \/ SendText(c) \/ RecordText(c) \/ FailText(c)
    PROVE  InvoiceInv'
<1> USE DEF Atop
<1>0. InvoiceShape /\ InvoiceRows /\ ClerkKnows(c)
  BY DEF InvoiceInv
<1>1. /\ clerk \in [Clerks -> ClerkRows] /\ bill \in Bills /\ remote \in Remotes
      /\ age \in {"fresh", "old", "forgotten"} /\ made \in 0..1 /\ texts \in 0..1
  BY <1>0 DEF InvoiceShape
<1>2. \A d \in Clerks : d # c => Resting(d)
  BY <1>0, LockHeld DEF BeginText, ClaimText, SendText, RecordText, FailText, Resting
<1>3. UNCHANGED <<age, remote, made>>
  BY DEF BeginText, ClaimText, SendText, RecordText, FailText
<1>4. CASE BeginText(c)
  <2>1. UNCHANGED <<bill, texts>> /\ Proceed(c, "claim")
    BY <1>4 DEF BeginText
  <2>2. OthersStay(c) /\ clerk'[c].pc = "claim"
    BY <2>1, <1>1, ClerkProceeds DEF Steps
  <2>3. ClerkKnows(c)' /\ InvoiceRows'
    BY <1>0, <1>3, <2>1, <2>2 DEF ClerkKnows, InvoiceRows
  <2> QED BY <1>0, <1>1, <1>2, <1>3, <2>1, <2>2, <2>3, OneClerkMoves
<1>5. CASE ClaimText(c)
  <2>1. texts' = texts
    BY <1>5 DEF ClaimText
  <2>2. CASE bill.sms = "NOT_SENT"
    <3>1. bill' = [bill EXCEPT !.sms = "SENDING"] /\ Proceed(c, "send")
      BY <1>5, <2>2 DEF ClaimText
    <3>2. bill' \in Bills /\ bill'.sms = "SENDING" /\ bill'.id = bill.id /\ bill'.status = bill.status
      BY <3>1, <1>1 DEF Bills
    <3>3. OthersStay(c) /\ clerk'[c].pc = "send"
      BY <3>1, <1>1, ClerkProceeds DEF Steps
    <3>4. ClerkKnows(c)' /\ InvoiceRows'
      BY <1>0, <1>3, <2>1, <2>2, <3>2, <3>3 DEF ClerkKnows, InvoiceRows
    <3> QED BY <1>0, <1>1, <1>2, <1>3, <2>1, <3>2, <3>3, <3>4, OneClerkMoves
  <2>3. CASE bill.sms # "NOT_SENT"
    <3>1. bill' = bill /\ Proceed(c, "done")
      BY <1>5, <2>3 DEF ClaimText
    <3>2. OthersStay(c) /\ clerk'[c].pc = "done"
      BY <3>1, <1>1, ClerkProceeds DEF Steps
    <3>3. ClerkKnows(c)' /\ InvoiceRows'
      BY <1>0, <1>3, <2>1, <3>1, <3>2 DEF ClerkKnows, InvoiceRows
    <3> QED BY <1>0, <1>1, <1>2, <1>3, <2>1, <3>1, <3>2, <3>3, OneClerkMoves
  <2> QED BY <2>2, <2>3
<1>6. CASE SendText(c)
  <2>1. bill' = bill /\ clerk[c].pc = "send" /\ bill.sms = "SENDING" /\ texts = 0
    BY <1>6, <1>0 DEF SendText, ClerkKnows
  <2>2. CASE clerk' = [clerk EXCEPT ![c].pc = "failed", ![c].saw = "refused"] /\ texts' = texts
    <3>1. OthersStay(c) /\ clerk'[c].pc = "failed" /\ clerk'[c].saw = "refused"
      BY <2>2, <1>1 DEF OthersStay, ClerkRows, Steps
    <3>2. ClerkKnows(c)' /\ InvoiceRows'
      BY <1>0, <1>3, <2>1, <2>2, <3>1 DEF ClerkKnows, InvoiceRows
    <3> QED BY <1>0, <1>1, <1>2, <1>3, <2>1, <2>2, <3>1, <3>2, OneClerkMoves
  <2>3. CASE Proceed(c, "sent") /\ texts' = texts + 1
    <3>1. OthersStay(c) /\ clerk'[c].pc = "sent"
      BY <2>3, <1>1, ClerkProceeds DEF Steps
    <3>2. ClerkKnows(c)' /\ InvoiceRows'
      BY <1>0, <1>3, <2>1, <2>3, <3>1 DEF ClerkKnows, InvoiceRows
    <3>3. texts' \in 0..1
      BY <2>1, <2>3
    <3> QED BY <1>0, <1>1, <1>2, <1>3, <2>1, <3>1, <3>2, <3>3, OneClerkMoves
  <2>4. CASE clerk' = [clerk EXCEPT ![c].pc = "failed", ![c].saw = "unknown"] /\ texts' \in {texts, texts + 1}
    <3>1. OthersStay(c) /\ clerk'[c].pc = "failed" /\ clerk'[c].saw = "unknown"
      BY <2>4, <1>1 DEF OthersStay, ClerkRows, Steps
    <3>2. ClerkKnows(c)' /\ InvoiceRows'
      BY <1>0, <1>3, <2>1, <3>1 DEF ClerkKnows, InvoiceRows
    <3>3. texts' \in 0..1
      BY <2>1, <2>4
    <3> QED BY <1>0, <1>1, <1>2, <1>3, <2>1, <3>1, <3>2, <3>3, OneClerkMoves
  <2> QED BY <1>6, <2>2, <2>3, <2>4 DEF SendText
<1>7. CASE RecordText(c)
  <2>1. texts' = texts /\ clerk[c].pc = "sent" /\ bill.sms # "NOT_SENT"
    BY <1>7, <1>0 DEF RecordText, ClerkKnows
  <2>2. CASE bill' = [bill EXCEPT !.sms = "SENT"] /\ Proceed(c, "done")
    <3>1. bill' \in Bills /\ bill'.sms = "SENT" /\ bill'.id = bill.id /\ bill'.status = bill.status
      BY <2>2, <1>1 DEF Bills
    <3>2. OthersStay(c) /\ clerk'[c].pc = "done"
      BY <2>2, <1>1, ClerkProceeds DEF Steps
    <3>3. ClerkKnows(c)' /\ InvoiceRows'
      BY <1>0, <1>3, <2>1, <3>1, <3>2 DEF ClerkKnows, InvoiceRows
    <3> QED BY <1>0, <1>1, <1>2, <1>3, <2>1, <3>1, <3>2, <3>3, OneClerkMoves
  <2>3. CASE clerk' = [clerk EXCEPT ![c].pc = "failed", ![c].saw = "unknown"] /\ bill' = bill
    <3>1. OthersStay(c) /\ clerk'[c].pc = "failed" /\ clerk'[c].saw = "unknown"
      BY <2>3, <1>1 DEF OthersStay, ClerkRows, Steps
    <3>2. ClerkKnows(c)' /\ InvoiceRows'
      BY <1>0, <1>3, <2>1, <2>3, <3>1 DEF ClerkKnows, InvoiceRows
    <3> QED BY <1>0, <1>1, <1>2, <1>3, <2>1, <2>3, <3>1, <3>2, OneClerkMoves
  <2> QED BY <1>7, <2>2, <2>3 DEF RecordText
<1>8. CASE FailText(c)
  <2>1. texts' = texts /\ clerk[c].pc = "failed" /\ Proceed(c, "done")
    BY <1>8 DEF FailText
  <2>2. OthersStay(c) /\ clerk'[c].pc = "done"
    BY <2>1, <1>1, ClerkProceeds DEF Steps
  <2>3. /\ bill' \in Bills /\ bill'.id = bill.id /\ bill'.status = bill.status
        /\ bill'.sms = SmsAfter(clerk[c].saw)
    BY <1>8, <1>1 DEF FailText, Bills, SmsAfter
  <2>4. bill'.sms = "NOT_SENT" => texts = 0
    BY <1>0, <2>1, <2>3 DEF ClerkKnows, SmsAfter
  <2>5. ClerkKnows(c)' /\ InvoiceRows'
    BY <1>0, <1>3, <2>1, <2>2, <2>3, <2>4 DEF ClerkKnows, InvoiceRows
  <2> QED BY <1>0, <1>1, <1>2, <1>3, <2>1, <2>2, <2>3, <2>5, OneClerkMoves
<1> QED BY <1>4, <1>5, <1>6, <1>7, <1>8

LEMMA InvoiceOutside ==
    ASSUME InvoiceInv, InvoiceSettled \/ DayPasses \/ UNCHANGED invoiceVars
    PROVE  InvoiceInv'
<1>0. InvoiceShape /\ InvoiceRows /\ \A c \in Clerks : ClerkKnows(c)
  BY DEF InvoiceInv
<1>1. CASE InvoiceSettled
  <2>1. PICK s \in {"paid", "void"} : remote' = [remote EXCEPT !.state = s]
    BY <1>1 DEF InvoiceSettled
  <2>2. UNCHANGED <<bill, age, made, clerk, texts>> /\ remote.state = "open"
    BY <1>1 DEF InvoiceSettled
  <2>3. remote' \in Remotes /\ remote'.state = s /\ remote'.on = remote.on
    BY <2>1, <1>0 DEF InvoiceShape, Remotes, RemoteStates
  <2>4. InvoiceShape' /\ InvoiceRows'
    BY <1>0, <2>2, <2>3 DEF InvoiceShape, InvoiceRows, Resting
  <2>5. \A c \in Clerks : ClerkKnows(c)'
    BY <1>0, <2>2, <2>3 DEF ClerkKnows
  <2> QED BY <2>4, <2>5 DEF InvoiceInv
<1>2. CASE DayPasses
  <2>1. /\ UNCHANGED <<bill, remote, made, clerk, texts>> /\ bill.status = "ISSUING"
        /\ age' \in {"old", "forgotten"}
        /\ age' = "forgotten" => \A c \in Clerks : clerk[c].pc # "create"
    BY <1>2, <1>0 DEF DayPasses, Atop, InvoiceShape
  <2>2. InvoiceShape' /\ InvoiceRows'
    BY <1>0, <2>1 DEF InvoiceShape, InvoiceRows, Resting
  <2>3. \A c \in Clerks : ClerkKnows(c)'
    BY <1>0, <2>1 DEF ClerkKnows
  <2> QED BY <2>2, <2>3 DEF InvoiceInv
<1>3. CASE UNCHANGED invoiceVars
  BY <1>0, <1>3 DEF invoiceVars, InvoiceInv, InvoiceShape, InvoiceRows, ClerkKnows, Resting
<1> QED BY <1>1, <1>2, <1>3

\* The client can be charged on one invoice, with every line on it once, and its link is
\* texted once at most, however often issuing and texting are repeated.
THEOREM InvoicedAndTextedOnce == InvoiceSpec => []InvoicesSafe
<1>1. InvoiceInit => InvoiceInv
  BY InvoiceStarts
<1>2. InvoiceInv /\ [InvoiceNext]_invoiceVars => InvoiceInv'
  BY InvoiceOutside, IssueSteps, StatusSteps, TextSteps DEF InvoiceNext, ClerkStep
<1>3. InvoiceInv => InvoicesSafe
  <2> SUFFICES ASSUME InvoiceInv PROVE InvoicesSafe
    OBVIOUS
  <2>0. InvoiceShape /\ InvoiceRows
    BY DEF InvoiceInv
  <2> DEFINE Busy == {c \in Clerks : clerk[c].pc \notin {"idle", "done"}}
  <2>1. Cardinality(Busy) <= 1
    <3>1. CASE Busy = {}
      BY <3>1, FS_EmptySet
    <3>2. CASE Busy # {}
      <4>1. PICK c \in Busy : TRUE
        BY <3>2
      <4>2. Busy = {c}
        BY <4>1, <2>0 DEF InvoiceShape, Resting
      <4>3. Cardinality({c}) = 1
        BY FS_Singleton
      <4> HIDE DEF Busy
      <4> QED BY <4>2, <4>3
    <3> QED BY <3>1, <3>2
  <2>2. /\ bill \in Bills /\ age \in {"fresh", "old", "forgotten"} /\ remote.state \in RemoteStates
        /\ \A c \in Clerks : clerk[c].pc \in Steps /\ clerk[c].todo \subseteq Items
    BY <2>0 DEF InvoiceShape, Remotes, ClerkRows
  <2>3. InvoiceTypeOK
    BY <2>0, <2>1, <2>2 DEF InvoiceTypeOK, InvoiceRows, Bills, RemoteStates
  <2>4. InvoicedOnce /\ TextedOnce
    BY <2>0 DEF InvoiceShape, InvoiceRows, InvoicedOnce, TextedOnce
  <2> QED BY <2>3, <2>4 DEF InvoicesSafe
<1> QED BY <1>1, <1>2, <1>3, PTL DEF InvoiceSpec

-----------------------------------------------------------------------------
(* The Square connection.                                                   *)

Aims == UNION {{p[c].at : c \in Clicks} : p \in ClickPlans}
ConnRows ==
    [merchant : Merchants \cup {"none"}, status : {"NONE", "CONNECTED", "DISCONNECTED"},
     location : Nat, token : Merchants \cup {"none"}, fresh : BOOLEAN]
MapRows ==
    [service : Aims \cup Nat, location : Nat, owner : Merchants \cup {"none"}, variation : Keys,
     by : {"hand", "import"}]
ClickRows ==
    [does : {"connect", "callback", "locate", "map", "unmap", "disconnect", "import", "search"},
     at : Aims, key : Keys,
     pc : {"start", "exchange", "store", "write", "list", "refresh", "renew", "insert", "asked", "done"},
     saw : ConnRows, doomed : SUBSET MapRows]

LinkShape ==
    /\ conn \in ConnRows /\ maps \in SUBSET MapRows /\ states \in SUBSET Keys
    /\ imported \in 0..LastImport /\ rowLock \in Clicks \cup {0}
    /\ logins \in [Keys -> Nat] /\ click \in [Clicks -> ClickRows]
    /\ \A c \in Clicks : click[c].does = "callback" => click[c].at \in Merchants
    /\ \A c, d \in Clicks :
         click[c].does = "connect" /\ click[d].does = "connect" /\ click[c].key = click[d].key => c = d
    /\ \A c \in Clicks : click[c].pc \in {"exchange", "store"} => click[c].does = "callback"

\* A callback that consumed the state and has yet to store its tokens.
Exchanging(c, k) == click[c].pc \in {"exchange", "store"} /\ click[c].key = k

\* A state is to come, or stored, or held by one callback, or led to one login.
StateOnce(k) ==
    /\ logins[k] <= 1
    /\ \A c, d \in Clicks : Exchanging(c, k) /\ Exchanging(d, k) => c = d
    /\ \A c \in Clicks : Exchanging(c, k) => k \notin states /\ logins[k] = 0
    /\ k \in states => logins[k] = 0
    /\ \A c \in Clicks : click[c].does = "connect" /\ click[c].pc = "start" /\ click[c].key = k
         => k \notin states /\ logins[k] = 0 /\ \A d \in Clicks : ~Exchanging(d, k)

LinkInv == LinkShape /\ (\A k \in Keys : StateOnce(k)) /\ ImportedOnce

LEMMA LinkStarts == ConnectionInit => LinkInv
<1> SUFFICES ASSUME ConnectionInit PROVE LinkInv
  OBVIOUS
<1>1. PICK p \in ClickPlans :
        click = [c \in Clicks |-> [does |-> p[c].does, at |-> p[c].at, key |-> p[c].key,
                                   pc |-> "start", saw |-> NoConnection, doomed |-> {}]]
  BY DEF ConnectionInit
<1>2. NoConnection \in ConnRows
  BY DEF NoConnection, ConnRows
<1>3. conn \in ConnRows
  <2>1. \A m \in Merchants :
          [merchant |-> m, status |-> "CONNECTED", location |-> 1, token |-> m, fresh |-> FALSE] \in ConnRows
    BY DEF ConnRows
  <2> QED BY <1>2, <2>1 DEF ConnectionInit
<1>4. \A c \in Clicks : /\ click[c].does = p[c].does /\ click[c].at = p[c].at
                        /\ click[c].key = p[c].key /\ click[c].pc = "start"
  BY <1>1
<1>5. /\ \A c \in Clicks : /\ p[c].does \in {"connect", "callback", "locate", "map", "unmap", "disconnect",
                                              "import", "search"}
                           /\ p[c].key \in Keys /\ p[c].at \in Aims
                           /\ p[c].does = "callback" => p[c].at \in Merchants
      /\ \A c, d \in Clicks : p[c].does = "connect" /\ p[d].does = "connect" /\ p[c].key = p[d].key => c = d
  <2>1. \A c \in Clicks : p[c].at \in Aims
    <3>1. {p[c].at : c \in Clicks} \in {{q[c].at : c \in Clicks} : q \in ClickPlans}
      BY Zenon
    <3>2. {p[c].at : c \in Clicks} \subseteq Aims
      BY <3>1, Zenon DEF Aims
    <3> QED BY <3>2
  <2>2. \A c \in Clicks : p[c].does \in {"connect", "callback", "locate", "map", "unmap", "disconnect",
                                         "import", "search"}
    BY ClickWishes
  <2>3. \A c \in Clicks : p[c].key \in Keys /\ (p[c].does = "callback" => p[c].at \in Merchants)
    BY ClickWishes
  <2>4. \A c, d \in Clicks : p[c].does = "connect" /\ p[d].does = "connect" /\ p[c].key = p[d].key => c = d
    BY ClickWishes
  <2> QED BY <2>1, <2>2, <2>3, <2>4
<1>6. click \in [Clicks -> ClickRows]
  <2> SUFFICES ASSUME NEW c \in Clicks
               PROVE  [does |-> p[c].does, at |-> p[c].at, key |-> p[c].key, pc |-> "start",
                       saw |-> NoConnection, doomed |-> {}] \in ClickRows
    BY <1>1
  <2> DEFINE does == p[c].does  at == p[c].at  key == p[c].key
  <2>1. /\ does \in {"connect", "callback", "locate", "map", "unmap", "disconnect", "import", "search"}
        /\ key \in Keys /\ at \in Aims
    BY <1>5
  <2> HIDE DEF does, at, key
  <2>2. [does |-> does, at |-> at, key |-> key, pc |-> "start", saw |-> NoConnection, doomed |-> {}] \in ClickRows
    BY <1>2, <2>1 DEF ClickRows
  <2> QED BY <2>2 DEF does, at, key
<1>7. LinkShape
  <2>1. logins \in [Keys -> Nat] /\ imported \in 0..LastImport /\ rowLock = 0
    BY ConnectionBounds DEF ConnectionInit
  <2>2. maps = {} /\ states = {}
    BY DEF ConnectionInit
  <2>3. maps \in SUBSET MapRows /\ states \in SUBSET Keys
    BY <2>2
  <2>4. \A c \in Clicks : click[c].does = "callback" => click[c].at \in Merchants
    BY <1>4, <1>5
  <2>5. \A c, d \in Clicks :
         click[c].does = "connect" /\ click[d].does = "connect" /\ click[c].key = click[d].key => c = d
    BY <1>4, <1>5
  <2> QED BY <1>3, <1>4, <1>6, <2>1, <2>3, <2>4, <2>5 DEF LinkShape
<1>8. \A k \in Keys : StateOnce(k)
  BY <1>4 DEF ConnectionInit, StateOnce, Exchanging
<1>9. ImportedOnce
  BY DEF ConnectionInit, ImportedOnce
<1> QED BY <1>7, <1>8, <1>9 DEF LinkInv

\* What a step of one request leaves of the requests.
ClickMoves(c, pc) ==
    /\ click' \in [Clicks -> ClickRows] /\ \A d \in Clicks : d # c => click'[d] = click[d]
    /\ click'[c].does = click[c].does /\ click'[c].at = click[c].at /\ click'[c].key = click[c].key
    /\ click'[c].pc = pc

LEMMA ClickGoes ==
    ASSUME click \in [Clicks -> ClickRows], NEW c \in Clicks,
           NEW pc \in {"write", "list", "refresh", "renew", "insert", "asked", "done", "exchange", "store"},
           GoTo(c, pc)
    PROVE  ClickMoves(c, pc)
BY DEF GoTo, ClickMoves, ClickRows

LEMMA ClickReads ==
    ASSUME click \in [Clicks -> ClickRows], conn \in ConnRows, NEW c \in Clicks,
           NEW pc \in {"write", "list", "refresh"}, ReadRow(c, pc)
    PROVE  ClickMoves(c, pc)
BY ZenonT(40) DEF ReadRow, ClickMoves, ClickRows

\* A step that takes no part in a sign-in.
LEMMA SignInKept ==
    ASSUME LinkInv, NEW c \in Clicks, NEW pc \in {"write", "list", "refresh", "renew", "insert", "asked", "done"},
           ClickMoves(c, pc), UNCHANGED logins, states' = states
    PROVE  \A k \in Keys : StateOnce(k)'
BY DEF LinkInv, LinkShape, StateOnce, Exchanging, ClickMoves

LEMMA ShapeKept ==
    ASSUME LinkInv, NEW c \in Clicks, NEW pc, ClickMoves(c, pc),
           pc \in {"exchange", "store"} => click[c].does = "callback",
           conn' \in ConnRows, maps' \in SUBSET MapRows, states' \in SUBSET Keys,
           imported' \in 0..LastImport, rowLock' \in Clicks \cup {0}, logins' \in [Keys -> Nat]
    PROVE  LinkShape'
BY DEF LinkInv, LinkShape, ClickMoves

\* Fewer imported mappings are still imported once.
LEMMA ImportsKept ==
    ASSUME ImportedOnce, {m \in maps' : m.by = "import"} \subseteq maps
    PROVE  ImportedOnce'
BY DEF ImportedOnce

LEMMA SignInSteps ==
    ASSUME LinkInv, NEW c \in Clicks, StartSignIn(c) \/ UseState(c) \/ DropMappings(c) \/ StoreTokens(c)
    PROVE  LinkInv'
<1> USE DEF ClickAt
<1>1. LinkShape /\ (\A k \in Keys : StateOnce(k)) /\ ImportedOnce
  BY DEF LinkInv
<1>2. /\ click \in [Clicks -> ClickRows] /\ conn \in ConnRows /\ maps \in SUBSET MapRows
      /\ states \in SUBSET Keys /\ imported \in 0..LastImport /\ rowLock \in Clicks \cup {0}
      /\ logins \in [Keys -> Nat] /\ click[c].key \in Keys /\ click[c] \in ClickRows
  BY <1>1 DEF LinkShape, ClickRows
<1>3. CASE StartSignIn(c)
  <2>1. /\ click[c].does = "connect" /\ click[c].pc = "start" /\ states' = states \cup {click[c].key}
        /\ UNCHANGED <<conn, maps, logins, imported, rowLock>> /\ GoTo(c, "done")
    BY <1>3 DEF StartSignIn
  <2>2. ClickMoves(c, "done")
    BY <1>2, <2>1, ClickGoes
  <2>3. states' \in SUBSET Keys
    BY <1>2, <2>1
  <2>4. LinkShape'
    BY <1>2, <2>1, <2>2, <2>3, ShapeKept
  <2>5. \A d \in Clicks : d # c /\ click[d].does = "connect" => click[d].key # click[c].key
    BY <1>1, <2>1 DEF LinkShape
  <2>6. \A k \in Keys : StateOnce(k)'
    BY <1>1, <2>1, <2>2, <2>5 DEF StateOnce, Exchanging, ClickMoves
  <2>7. ImportedOnce'
    BY <1>1, <2>1 DEF ImportedOnce
  <2> QED BY <2>4, <2>6, <2>7 DEF LinkInv
<1>4. CASE UseState(c)
  <2>1. /\ click[c].does = "callback" /\ click[c].pc = "start"
        /\ UNCHANGED <<conn, maps, logins, imported, rowLock>>
    BY <1>4 DEF UseState
  <2>2. PICK pc \in {"exchange", "done"} :
          /\ GoTo(c, pc) /\ states' \in SUBSET states
          /\ pc = "exchange" => click[c].key \in states /\ click[c].key \notin states'
    BY <1>4 DEF UseState, Consumed
  <2>3. ClickMoves(c, pc)
    BY <1>2, <2>2, ClickGoes
  <2>4. LinkShape'
    <3>1. states' \in SUBSET Keys
      BY <1>2, <2>2
    <3> QED BY <1>2, <2>1, <2>3, <3>1, ShapeKept
  <2>5. \A k \in Keys : StateOnce(k)'
    <3> SUFFICES ASSUME NEW k \in Keys PROVE StateOnce(k)'
      OBVIOUS
    <3>1. StateOnce(k)
      BY <1>1
    <3>2. CASE pc = "done" \/ click[c].key # k
      BY <2>1, <2>2, <2>3, <3>1, <3>2 DEF StateOnce, Exchanging, ClickMoves
    <3>3. CASE pc = "exchange" /\ click[c].key = k
      <4>1. k \in states /\ k \notin states' /\ logins[k] = 0 /\ \A d \in Clicks : ~Exchanging(d, k)
        BY <2>2, <3>1, <3>3 DEF StateOnce
      <4>2. \A d \in Clicks : click[d].does = "connect" /\ click[d].pc = "start" => click[d].key # k
        BY <3>1, <4>1 DEF StateOnce
      <4> QED BY <2>1, <2>3, <3>3, <4>1, <4>2 DEF StateOnce, Exchanging, ClickMoves
    <3> QED BY <3>2, <3>3
  <2>6. ImportedOnce'
    BY <1>1, <2>1 DEF ImportedOnce
  <2> QED BY <2>4, <2>5, <2>6 DEF LinkInv
<1>5. CASE DropMappings(c)
  <2>1. /\ click[c].does = "callback" /\ click[c].pc = "exchange"
        /\ UNCHANGED <<conn, maps, states, logins, imported, rowLock>>
    BY <1>5 DEF DropMappings
  <2>2. PICK gone \in SUBSET MapRows : click' = [click EXCEPT ![c].pc = "store", ![c].doomed = gone]
    BY <1>2, <1>5 DEF DropMappings
  <2>3. ClickMoves(c, "store")
    BY <1>2, <2>2 DEF ClickMoves, ClickRows
  <2>4. LinkShape'
    BY <1>2, <2>1, <2>3, ShapeKept
  <2>5. \A k \in Keys : StateOnce(k)'
    BY <1>1, <2>1, <2>3 DEF StateOnce, Exchanging, ClickMoves
  <2>6. ImportedOnce'
    BY <1>1, <2>1 DEF ImportedOnce
  <2> QED BY <2>4, <2>5, <2>6 DEF LinkInv
<1>6. CASE StoreTokens(c)
  <2>1. /\ click[c].does = "callback" /\ click[c].pc = "store" /\ maps' = maps \ click[c].doomed
        /\ UNCHANGED <<states, imported, rowLock>> /\ GoTo(c, "done")
        /\ logins' = [logins EXCEPT ![click[c].key] = @ + 1]
    BY <1>6 DEF StoreTokens
  <2>2. ClickMoves(c, "done")
    BY <1>2, <2>1, ClickGoes
  <2>3. click[c].at \in Merchants
    BY <1>1, <2>1 DEF LinkShape
  <2>4. conn' \in ConnRows
    <3> DEFINE at == click[c].at
    <3>1. conn' = [conn EXCEPT !.merchant = at, !.token = at, !.status = "CONNECTED", !.fresh = TRUE]
      BY <1>6 DEF StoreTokens
    <3>2. at \in Merchants
      BY <2>3
    <3> HIDE DEF at
    <3> QED BY <1>2, <3>1, <3>2 DEF ConnRows
  <2>5. LinkShape'
    <3>1. maps' \in SUBSET MapRows /\ logins' \in [Keys -> Nat]
      BY <1>2, <2>1
    <3> QED BY <1>2, <2>1, <2>2, <2>4, <3>1, ShapeKept
  <2>6. \A k \in Keys : StateOnce(k)'
    <3> SUFFICES ASSUME NEW k \in Keys PROVE StateOnce(k)'
      OBVIOUS
    <3>1. StateOnce(k) /\ logins[k] \in Nat
      BY <1>1, <1>2
    <3>2. CASE click[c].key # k
      <4>1. logins'[k] = logins[k]
        BY <1>2, <2>1, <3>2
      <4> QED BY <2>1, <2>2, <3>1, <3>2, <4>1 DEF StateOnce, Exchanging, ClickMoves
    <3>3. CASE click[c].key = k
      <4>1. Exchanging(c, k) /\ logins[k] = 0 /\ k \notin states
        BY <2>1, <3>1, <3>3 DEF StateOnce, Exchanging
      <4>2. \A d \in Clicks : Exchanging(d, k) => d = c
        BY <3>1, <4>1 DEF StateOnce
      <4>3. \A d \in Clicks : click[d].does = "connect" /\ click[d].pc = "start" => click[d].key # k
        BY <3>1, <4>1 DEF StateOnce
      <4>4. logins'[k] = 1
        BY <1>2, <2>1, <3>3, <4>1
      <4>5. \A d \in Clicks : ~Exchanging(d, k)'
        BY <2>2, <4>2 DEF Exchanging, ClickMoves
      <4>6. \A d \in Clicks : click'[d].does = "connect" /\ click'[d].pc = "start" => click'[d].key # k
        BY <2>2, <4>3 DEF ClickMoves
      <4> QED BY <2>1, <4>1, <4>4, <4>5, <4>6 DEF StateOnce
    <3> QED BY <3>2, <3>3
  <2>7. ImportedOnce'
    BY <1>1, <2>1, ImportsKept
  <2> QED BY <2>5, <2>6, <2>7 DEF LinkInv
<1> QED BY <1>3, <1>4, <1>5, <1>6

\* A step that takes no part in a sign-in and imports nothing.
LEMMA PlainStep ==
    ASSUME LinkInv, NEW c \in Clicks, NEW pc \in {"write", "list", "refresh", "renew", "insert", "asked", "done"},
           ClickMoves(c, pc), UNCHANGED <<states, logins, imported>>,
           conn' \in ConnRows, maps' \in SUBSET MapRows, rowLock' \in Clicks \cup {0},
           {m \in maps' : m.by = "import"} \subseteq maps
    PROVE  LinkInv'
<1>1. \A k \in Keys : StateOnce(k)'
  BY SignInKept
<1>2. states' \in SUBSET Keys /\ imported' \in 0..LastImport /\ logins' \in [Keys -> Nat]
  BY DEF LinkInv, LinkShape
<1>3. LinkShape'
  BY <1>2, ShapeKept
<1>4. ImportedOnce'
  BY ImportsKept DEF LinkInv
<1> QED BY <1>1, <1>3, <1>4 DEF LinkInv

LEMMA SettingSteps ==
    ASSUME LinkInv, NEW c \in Clicks,
           \/ ReadConnection(c) \/ Refresh(c) \/ StoreRefreshed(c) \/ ListSquare(c)
           \/ Locate(c) \/ Disconnect(c) \/ SaveMapping(c) \/ RemoveMapping(c) \/ LockRow(c) \/ Search(c)
    PROVE  LinkInv'
<1> USE DEF ClickAt
<1>1. /\ click \in [Clicks -> ClickRows] /\ conn \in ConnRows /\ maps \in SUBSET MapRows
      /\ rowLock \in Clicks \cup {0} /\ click[c] \in ClickRows
      /\ {m \in maps : m.by = "import"} \subseteq maps
  BY DEF LinkInv, LinkShape
<1>2. click[c].key \in Nat /\ click[c].key \in Keys /\ click[c].at \in Aims /\ click[c].saw \in ConnRows
  BY <1>1 DEF ClickRows, Keys
<1>3. CASE ReadConnection(c)
  <2>1. UNCHANGED <<conn, maps, states, logins, imported, rowLock>>
    BY <1>3 DEF ReadConnection
  <2>2. \/ GoTo(c, "done")
        \/ \E pc \in {"write", "list", "refresh"} : ReadRow(c, pc)
    BY <1>3 DEF ReadConnection
  <2>3. \E pc \in {"write", "list", "refresh", "done"} : ClickMoves(c, pc)
    BY <1>1, <2>2, ClickGoes, ClickReads
  <2> QED BY <1>1, <2>1, <2>3, PlainStep
<1>4. CASE Refresh(c)
  <2>1. UNCHANGED <<conn, maps, states, logins, imported, rowLock>>
    BY <1>4 DEF Refresh
  <2>2. \E pc \in {"renew", "done"} : ClickMoves(c, pc)
    BY <1>1, <1>4, ClickGoes DEF Refresh
  <2> QED BY <1>1, <2>1, <2>2, PlainStep
<1>5. CASE StoreRefreshed(c)
  <2>1. UNCHANGED <<maps, states, logins, imported, rowLock>> /\ ClickMoves(c, "list")
    BY <1>1, <1>5, ClickGoes DEF StoreRefreshed
  <2>2. conn' \in ConnRows
    <3> DEFINE token == click[c].saw.token
    <3>1. conn' = [conn EXCEPT !.token = token, !.fresh = TRUE]
      BY <1>5 DEF StoreRefreshed
    <3>2. token \in Merchants \cup {"none"}
      BY <1>2 DEF ConnRows
    <3> HIDE DEF token
    <3> QED BY <1>1, <3>1, <3>2 DEF ConnRows
  <2> QED BY <1>1, <2>1, <2>2, PlainStep
<1>6. CASE ListSquare(c)
  <2>1. UNCHANGED <<conn, maps, states, logins, imported, rowLock>>
    BY <1>6 DEF ListSquare
  <2>2. \E pc \in {"write", "done"} : GoTo(c, pc)
    BY <1>6 DEF ListSquare
  <2>3. \E pc \in {"write", "done"} : ClickMoves(c, pc)
    BY <1>1, <2>2, ClickGoes
  <2> QED BY <1>1, <2>1, <2>3, PlainStep
<1>7. CASE Locate(c)
  <2>1. UNCHANGED <<maps, states, logins, imported, rowLock>> /\ ClickMoves(c, "done")
    BY <1>1, <1>7, ClickGoes DEF Locate
  <2>2. conn' \in ConnRows
    <3> DEFINE key == click[c].key
    <3>1. conn' = [conn EXCEPT !.location = key]
      BY <1>7 DEF Locate
    <3>2. key \in Nat
      BY <1>2
    <3> HIDE DEF key
    <3> QED BY <1>1, <3>1, <3>2 DEF ConnRows
  <2> QED BY <1>1, <2>1, <2>2, PlainStep
<1>8. CASE Disconnect(c)
  <2>1. UNCHANGED <<maps, states, logins, imported, rowLock>> /\ ClickMoves(c, "done")
    BY <1>1, <1>8, ClickGoes DEF Disconnect
  <2>2. conn' \in ConnRows
    BY <1>1, <1>8 DEF Disconnect, ConnRows
  <2> QED BY <1>1, <2>1, <2>2, PlainStep
<1>9. CASE SaveMapping(c)
  <2>1. UNCHANGED <<conn, states, logins, imported, rowLock>> /\ ClickMoves(c, "done")
    BY <1>1, <1>9, ClickGoes DEF SaveMapping
  <2> DEFINE new == Mapping(click[c].at, click[c].saw.location, click[c].saw.token, click[c].key, "hand")
  <2>2. new \in MapRows /\ new.by = "hand"
    <3> DEFINE at == click[c].at  location == click[c].saw.location  token == click[c].saw.token  key == click[c].key
    <3>1. at \in Aims /\ location \in Nat /\ token \in Merchants \cup {"none"} /\ key \in Keys
      BY <1>2 DEF ConnRows
    <3> HIDE DEF at, location, token, key
    <3>2. /\ Mapping(at, location, token, key, "hand") \in MapRows
          /\ Mapping(at, location, token, key, "hand").by = "hand"
      BY <3>1 DEF Mapping, MapRows
    <3> QED BY <3>2 DEF at, location, token, key
  <2>3. maps' \subseteq maps \cup {new}
    BY <1>9 DEF SaveMapping
  <2> HIDE DEF new
  <2>4. maps' \in SUBSET MapRows /\ {m \in maps' : m.by = "import"} \subseteq maps
    BY <1>1, <2>2, <2>3
  <2> QED BY <1>1, <2>1, <2>4, PlainStep
<1>10. CASE RemoveMapping(c)
  <2>1. UNCHANGED <<conn, states, logins, imported, rowLock>> /\ ClickMoves(c, "done")
    BY <1>1, <1>10, ClickGoes DEF RemoveMapping
  <2>2. maps' \subseteq maps
    BY <1>10 DEF RemoveMapping
  <2>3. maps' \in SUBSET MapRows /\ {m \in maps' : m.by = "import"} \subseteq maps
    BY <1>1, <2>2
  <2> QED BY <1>1, <2>1, <2>3, PlainStep
<1>11. CASE LockRow(c)
  <2>1. UNCHANGED <<conn, maps, states, logins, imported>>
    BY <1>11 DEF LockRow
  <2>2. \E pc \in {"insert", "done"} : GoTo(c, pc) /\ rowLock' \in {c, rowLock}
    BY <1>11 DEF LockRow
  <2>3. \E pc \in {"insert", "done"} : ClickMoves(c, pc) /\ rowLock' \in Clicks \cup {0}
    BY <1>1, <2>2, ClickGoes
  <2> QED BY <1>1, <2>1, <2>3, PlainStep
<1>12. CASE Search(c)
  <2>1. UNCHANGED <<conn, maps, states, logins, imported, rowLock>>
    BY <1>12 DEF Search
  <2>2. \E pc \in {"asked", "done"} : GoTo(c, pc)
    BY <1>12 DEF Search
  <2>3. \E pc \in {"asked", "done"} : ClickMoves(c, pc)
    BY <1>1, <2>2, ClickGoes
  <2> QED BY <1>1, <2>1, <2>3, PlainStep
<1> QED BY <1>3, <1>4, <1>5, <1>6, <1>7, <1>8, <1>9, <1>10, <1>11, <1>12

LEMMA ImportStep ==
    ASSUME LinkInv, NEW c \in Clicks, InsertImported(c)
    PROVE  LinkInv'
<1> DEFINE new == Mapping(100 + imported, click[c].saw.location, click[c].saw.token, click[c].key, "import")
<1>1. /\ click \in [Clicks -> ClickRows] /\ conn \in ConnRows /\ maps \in SUBSET MapRows
      /\ states \in SUBSET Keys /\ logins \in [Keys -> Nat]
      /\ imported \in 0..LastImport /\ click[c] \in ClickRows /\ ImportedOnce
  BY DEF LinkInv, LinkShape
<1>2. ClickMoves(c, "done") /\ UNCHANGED <<conn, states, logins>> /\ rowLock' = 0 /\ imported < LastImport
  BY <1>1, ClickGoes DEF InsertImported
<1>3. \/ maps' = maps /\ imported' = imported + Cardinality({})
      \/ /\ ~Mapped(click[c].saw.token, click[c].key)
         /\ maps' = maps \cup {new} /\ imported' = imported + Cardinality({new})
  BY DEF InsertImported
<1>4. imported' \in 0..LastImport
  <2>1. Cardinality({}) = 0 /\ Cardinality({new}) = 1
    BY FS_EmptySet, FS_Singleton
  <2>2. imported' = imported \/ imported' = imported + 1
    <3> HIDE DEF new
    <3> QED BY <1>1, <1>3, <2>1
  <2> QED BY <1>1, <1>2, <2>2, ConnectionBounds
<1>5. new \in MapRows /\ new.owner = click[c].saw.token /\ new.variation = click[c].key
  <2> DEFINE n == 100 + imported  location == click[c].saw.location
             token == click[c].saw.token  key == click[c].key
  <2>1. n \in Nat /\ location \in Nat /\ token \in Merchants \cup {"none"} /\ key \in Keys
    BY <1>1 DEF ClickRows, ConnRows
  <2> HIDE DEF n, location, token, key
  <2>2. /\ Mapping(n, location, token, key, "import") \in MapRows
        /\ Mapping(n, location, token, key, "import").owner = token
        /\ Mapping(n, location, token, key, "import").variation = key
    BY <2>1 DEF Mapping, MapRows
  <2> QED BY <2>2 DEF n, location, token, key
<1>6. maps' \in SUBSET MapRows
  <2> HIDE DEF new
  <2> QED BY <1>1, <1>3, <1>5
<1>7. LinkShape'
  BY <1>1, <1>2, <1>4, <1>6, ShapeKept
<1>8. \A k \in Keys : StateOnce(k)'
  BY <1>2, SignInKept
<1>9. ImportedOnce'
  <2> HIDE DEF new
  <2>1. CASE maps' = maps
    BY <1>1, <2>1 DEF ImportedOnce
  <2>2. CASE ~Mapped(click[c].saw.token, click[c].key) /\ maps' = maps \cup {new}
    <3>1. \A m \in maps : m.owner # new.owner \/ m.variation # new.variation
      BY <1>5, <2>2 DEF Mapped
    <3> QED BY <1>1, <2>2, <3>1 DEF ImportedOnce
  <2> QED BY <1>3, <2>1, <2>2
<1> QED BY <1>7, <1>8, <1>9 DEF LinkInv

LEMMA TimePasses ==
    ASSUME LinkInv, StateExpires \/ TokenExpires \/ UNCHANGED cvars
    PROVE  LinkInv'
<1>1. CASE StateExpires
  <2>1. states' \in SUBSET states /\ UNCHANGED <<conn, maps, logins, imported, rowLock, click>>
    BY <1>1 DEF StateExpires
  <2> QED BY <2>1 DEF LinkInv, LinkShape, StateOnce, Exchanging, ImportedOnce
<1>2. CASE TokenExpires
  <2>1. UNCHANGED <<maps, states, logins, imported, rowLock, click>>
    BY <1>2 DEF TokenExpires
  <2>2. conn' \in ConnRows
    BY <1>2 DEF TokenExpires, LinkInv, LinkShape, ConnRows
  <2> QED BY <2>1, <2>2 DEF LinkInv, LinkShape, StateOnce, Exchanging, ImportedOnce
<1>3. CASE UNCHANGED cvars
  BY <1>3 DEF cvars, LinkInv, LinkShape, StateOnce, Exchanging, ImportedOnce
<1> QED BY <1>1, <1>2, <1>3

\* A redirect from Square stores its tokens once, and a Square service becomes one Maia
\* service, however often and at once they are repeated.
THEOREM OneSignInOneImport == ConnectionSpec => []SquareLinkSafe
<1>1. ConnectionInit => LinkInv
  BY LinkStarts
<1>2. LinkInv /\ [ConnectionNext]_cvars => LinkInv'
  BY SignInSteps, SettingSteps, ImportStep, TimePasses DEF ConnectionNext, ClickStep
<1>3. LinkInv => SquareLinkSafe
  BY DEF LinkInv, LinkShape, ConnRows, StateOnce, SquareLinkSafe, ConnectionTypeOK, SignInOnce
<1> QED BY <1>1, <1>2, <1>3, PTL DEF ConnectionSpec

(***************************************************************************)
(* The consent forms of one appointment.                                   *)
(***************************************************************************)
LinkStatuses == Final \cup {"PENDING", "SENT", "LINK_CREATED", "DELIVERY_FAILED"}
HandSteps == {"start", "texting", "texted", "failed", "recorded", "signing", "deciding", "completing", "done"}
HandNames == UNION {{p[h].form : h \in FormHands} : p \in FormPlans}
HandDoes == {"send", "copy", "assistant", "sign", "complete", "review", "void", "jotform", "edit"}
HandRows == [does : HandDoes, link : Nat, form : HandNames, pc : HandSteps]
LinkRows == [form : FormIds, status : LinkStatuses, delivered : BOOLEAN,
             submission : HandNames \cup {"none"}, auto : BOOLEAN]

\* A form says for whom it is, and its priority is that of the request's schema.
IsForm(r) == r \in [provider : {"MAIA", "JOTFORM", "CUSTOM"}, artist : {r.artist},
                    service : {r.service}, audience : {"ANY", "ADULT", "MINOR"}, rank : 0 .. 1000]

FormShape ==
    /\ forms = [f \in FormIds |-> forms[f]] /\ \A f \in FormIds : IsForm(forms[f])
    /\ active \subseteq FormIds /\ visit \in {"open", "closed"}
    /\ reminder \in {"none", "due", "cancelled"}
    /\ links \in Seq(LinkRows) /\ Len(links) <= LinkCount
    /\ overwrote \subseteq DOMAIN links
    /\ signed \in [1 .. LinkCount -> Nat]
    /\ formHand \in [FormHands -> HandRows]
    /\ \A h \in FormHands : formHand[h].does = "edit" => formHand[h].form \in FormIds

\* What a process knows of the link it has read: the form behind it keeps its provider,
\* and a signature stays.
HandKnows(h) ==
    /\ formHand[h].pc \notin {"start", "done"} => LinkOf(h) \in DOMAIN links
    /\ formHand[h].pc = "deciding" =>
           /\ formHand[h].does \in {"complete", "review", "void"}
           /\ formHand[h].does = "complete" => ~Hosted(LinkOf(h))
           /\ formHand[h].does = "review" /\ Hosted(LinkOf(h)) => signed[LinkOf(h)] >= 1
    /\ formHand[h].pc = "completing" => ~Hosted(LinkOf(h))

\* A signed link is over, unless a sender wrote over its status.
LinkHolds(a) ==
    /\ signed[a] >= 1 /\ a \notin overwrote => links[a].status \in Final
    /\ a \notin overwrote => signed[a] <= 1
    /\ Hosted(a) /\ links[a].status \in {"COMPLETED", "REVIEWED"} => signed[a] >= 1

FormInv ==
    /\ FormShape
    /\ \A h \in FormHands : HandKnows(h)
    /\ \A a \in DOMAIN links : LinkHolds(a)
    /\ \A a \in 1 .. LinkCount : a \notin DOMAIN links => signed[a] = 0

LEMMA FormsStart == FormInit => FormInv
<1> SUFFICES ASSUME FormInit PROVE FormInv
  OBVIOUS
<1>1. PICK p \in FormPlans :
        formHand = [h \in FormHands |-> [does |-> p[h].does, link |-> p[h].link,
                                         form |-> p[h].form, pc |-> "start"]]
  BY DEF FormInit
<1>2. \A h \in FormHands : /\ p[h].does \in HandDoes /\ p[h].link \in Nat
                           /\ p[h].does = "edit" => p[h].form \in FormIds
  BY FormBounds DEF HandDoes
<1>3. \A h \in FormHands : p[h].form \in HandNames
  <2>1. {p[h].form : h \in FormHands} \in {{q[h].form : h \in FormHands} : q \in FormPlans}
    BY Zenon
  <2>2. {p[h].form : h \in FormHands} \subseteq HandNames
    BY <2>1, Zenon DEF HandNames
  <2> QED BY <2>2
<1>4. \A h \in FormHands : /\ formHand[h] = [does |-> p[h].does, link |-> p[h].link,
                                             form |-> p[h].form, pc |-> "start"]
                           /\ formHand[h] \in HandRows
  BY <1>1, <1>2, <1>3 DEF HandRows, HandSteps
<1>5. formHand \in [FormHands -> HandRows]
  BY <1>1, <1>4
<1>6. \A h \in FormHands : /\ formHand[h].pc = "start"
                           /\ formHand[h].does = "edit" => formHand[h].form \in FormIds
  <2>1. \A h \in FormHands : /\ formHand[h].pc = "start" /\ formHand[h].does = p[h].does
                             /\ formHand[h].form = p[h].form
    BY <1>1
  <2> QED BY <1>2, <2>1
<1>7. forms = [f \in FormIds |-> forms[f]] /\ \A f \in FormIds : IsForm(forms[f])
  <2>1. forms \in FormSets
    BY DEF FormInit
  <2>2. \A f \in FormIds : IsForm(forms[f])
    BY <2>1, FormBounds DEF IsForm
  <2>3. \A s \in FormSets : s = [f \in FormIds |-> s[f]]
    BY FormBounds
  <2> QED BY <2>1, <2>2, <2>3
<1>8. links = <<>> /\ links \in Seq(LinkRows) /\ Len(links) = 0 /\ DOMAIN links = {}
  BY DEF FormInit
<1>9. signed \in [1 .. LinkCount -> Nat] /\ \A a \in 1 .. LinkCount : signed[a] = 0
  BY DEF FormInit
<1>10. FormShape
  BY <1>5, <1>6, <1>7, <1>8, <1>9, FormBounds DEF FormShape, FormInit
<1>11. \A h \in FormHands : HandKnows(h)
  BY <1>6 DEF HandKnows
<1> QED BY <1>8, <1>9, <1>10, <1>11 DEF FormInv

LEMMA HandMoves ==
    ASSUME FormShape, NEW h \in FormHands, NEW pc \in HandSteps, Finish(h, pc)
    PROVE  /\ formHand' \in [FormHands -> HandRows]
           /\ formHand'[h].pc = pc /\ formHand'[h].does = formHand[h].does
           /\ formHand'[h].link = formHand[h].link /\ formHand'[h].form = formHand[h].form
           /\ \A u \in FormHands : u # h => formHand'[u] = formHand[u]
BY DEF FormShape, HandRows, Finish

LEMMA LinksTyped ==
    ASSUME FormShape
    PROVE  links \in Seq(LinkRows)
BY DEF FormShape

LEMMA LinkRestated ==
    ASSUME FormShape, NEW a \in DOMAIN links, NEW s \in LinkStatuses,
           links' = [links EXCEPT ![a].status = s]
    PROVE  /\ links' \in Seq(LinkRows) /\ Len(links') = Len(links) /\ DOMAIN links' = DOMAIN links
           /\ links'[a].status = s
           /\ \A b \in DOMAIN links : links'[b].form = links[b].form /\ links'[b].auto = links[b].auto
           /\ \A b \in DOMAIN links : b # a => links'[b] = links[b]
<1> DEFINE row == [links[a] EXCEPT !.status = s]
<1>1. \A b \in DOMAIN links : links[b] \in LinkRows
  BY DEF FormShape
<1>2. row \in LinkRows /\ row.status = s /\ row.form = links[a].form /\ row.auto = links[a].auto
  BY <1>1 DEF LinkRows
<1>3. links' = [links EXCEPT ![a] = row]
  OBVIOUS
<1> HIDE DEF row
<1>4. /\ links' \in Seq(LinkRows) /\ Len(links') = Len(links) /\ DOMAIN links' = DOMAIN links
      /\ links'[a] = row /\ \A b \in DOMAIN links : b # a => links'[b] = links[b]
  BY <1>2, <1>3, LinksTyped
<1> QED BY <1>2, <1>4

\* A step leaves the links that were issued, their forms' providers and the signatures.
LinksGo ==
    /\ DOMAIN links \subseteq DOMAIN links'
    /\ \A a \in DOMAIN links : links'[a].form = links[a].form /\ signed'[a] >= signed[a]
    /\ \A f \in FormIds : forms'[f].provider = forms[f].provider

LEMMA OthersKnow ==
    ASSUME FormInv, NEW h \in FormHands, LinksGo, signed' \in [1 .. LinkCount -> Nat],
           \A u \in FormHands : u # h => formHand'[u] = formHand[u], HandKnows(h)'
    PROVE  \A u \in FormHands : HandKnows(u)'
<1> SUFFICES ASSUME NEW u \in FormHands, u # h PROVE HandKnows(u)'
  OBVIOUS
<1>1. HandKnows(u) /\ formHand'[u] = formHand[u]
  BY DEF FormInv
<1> DEFINE a == formHand[u].link
<1>2. a \in DOMAIN links =>
        /\ links[a].form \in FormIds /\ a \in 1 .. LinkCount
        /\ a \in DOMAIN links' /\ links'[a].form = links[a].form /\ signed'[a] >= signed[a]
  <2> SUFFICES ASSUME a \in DOMAIN links
               PROVE  links[a].form \in FormIds /\ a \in 1 .. LinkCount
    BY DEF LinksGo
  <2>1. links \in Seq(LinkRows) /\ Len(links) \in Nat /\ Len(links) <= LinkCount /\ LinkCount \in Nat
    BY FormBounds DEF FormInv, FormShape
  <2>2. links[a] \in LinkRows /\ a \in 1 .. Len(links)
    BY <2>1
  <2> HIDE DEF a
  <2>3. links[a].form \in FormIds
    BY <2>2 DEF LinkRows
  <2> QED BY <2>1, <2>2, <2>3
<1>3. a \in DOMAIN links => Hosted(a)' = Hosted(a)
  BY <1>2 DEF Hosted, LinksGo
<1>4. a \in DOMAIN links => signed[a] \in Nat /\ signed'[a] \in Nat
  BY <1>2 DEF FormInv, FormShape
<1> HIDE DEF a
<1>5. (formHand[u].pc \notin {"start", "done"} => a \in DOMAIN links)
      /\ (formHand[u].pc = "deciding" =>
           /\ formHand[u].does \in {"complete", "review", "void"}
           /\ formHand[u].does = "complete" => ~Hosted(a)
           /\ formHand[u].does = "review" /\ Hosted(a) => signed[a] >= 1)
      /\ (formHand[u].pc = "completing" => ~Hosted(a))
  BY <1>1 DEF HandKnows, LinkOf, a
<1>6. (formHand[u].pc \notin {"start", "done"} => a \in DOMAIN links')
      /\ (formHand[u].pc = "deciding" =>
           /\ formHand[u].does \in {"complete", "review", "void"}
           /\ formHand[u].does = "complete" => ~Hosted(a)'
           /\ formHand[u].does = "review" /\ Hosted(a)' => signed'[a] >= 1)
      /\ (formHand[u].pc = "completing" => ~Hosted(a)')
  BY <1>2, <1>3, <1>4, <1>5
<1> QED BY <1>1, <1>6 DEF HandKnows, LinkOf, Hosted, a

LEMMA FormsKept ==
    ASSUME FormInv, NEW h \in FormHands, LinksGo, FormShape', HandKnows(h)',
           \A u \in FormHands : u # h => formHand'[u] = formHand[u],
           \A a \in DOMAIN links' : LinkHolds(a)',
           \A a \in 1 .. LinkCount : a \notin DOMAIN links' => signed'[a] = 0
    PROVE  FormInv'
<1>1. signed' \in [1 .. LinkCount -> Nat]
  BY DEF FormShape
<1>2. \A u \in FormHands : HandKnows(u)'
  BY <1>1, OthersKnow
<1> QED BY <1>2 DEF FormInv

\* What a step leaves that concerns the link a only.
OneLink(a) ==
    /\ UNCHANGED <<forms, active, visit>>
    /\ DOMAIN links' = DOMAIN links /\ links' \in Seq(LinkRows) /\ Len(links') = Len(links)
    /\ \A b \in DOMAIN links : links'[b].form = links[b].form
    /\ \A b \in DOMAIN links : b # a => links'[b] = links[b]
    /\ signed' \in [1 .. LinkCount -> Nat] /\ signed'[a] >= signed[a]
    /\ \A b \in 1 .. LinkCount : b # a => signed'[b] = signed[b]
    /\ overwrote \subseteq overwrote' /\ overwrote' \subseteq overwrote \cup {a}

LEMMA OneLinkKept ==
    ASSUME FormInv, NEW h \in FormHands, NEW pc \in HandSteps, Finish(h, pc),
           NEW a \in DOMAIN links, OneLink(a), reminder' \in {"none", "due", "cancelled"},
           LinkHolds(a)', HandKnows(h)'
    PROVE  FormInv'
<1>1. a \in 1 .. LinkCount /\ \A b \in DOMAIN links : b \in 1 .. LinkCount
  BY FormBounds DEF FormInv, FormShape
<1>2. /\ formHand' \in [FormHands -> HandRows]
      /\ formHand'[h].does = formHand[h].does /\ formHand'[h].form = formHand[h].form
      /\ \A u \in FormHands : u # h => formHand'[u] = formHand[u]
  BY HandMoves DEF FormInv
<1>3. FormShape'
  <2>1. \A u \in FormHands : formHand'[u].does = "edit" => formHand'[u].form \in FormIds
    BY <1>2 DEF FormInv, FormShape
  <2>2. overwrote' \subseteq DOMAIN links'
    BY DEF FormInv, FormShape, OneLink
  <2> QED BY <1>2, <2>1, <2>2 DEF FormInv, FormShape, OneLink
<1>4. \A b \in DOMAIN links : signed'[b] >= signed[b]
  <2> SUFFICES ASSUME NEW b \in DOMAIN links PROVE signed'[b] >= signed[b]
    OBVIOUS
  <2>1. b # a => signed'[b] = signed[b] /\ signed[b] \in Nat
    BY <1>1 DEF OneLink, FormInv, FormShape
  <2> QED BY <2>1 DEF OneLink
<1>5. LinksGo
  BY <1>4 DEF LinksGo, OneLink
<1>6. \A b \in DOMAIN links : b # a => LinkHolds(b)'
  <2> SUFFICES ASSUME NEW b \in DOMAIN links, b # a PROVE LinkHolds(b)'
    OBVIOUS
  <2>1. LinkHolds(b) /\ links'[b] = links[b] /\ signed'[b] = signed[b] /\ forms' = forms
    BY <1>1 DEF FormInv, OneLink
  <2>2. b \in overwrote' <=> b \in overwrote
    BY DEF OneLink
  <2> QED BY <2>1, <2>2 DEF LinkHolds, Hosted
<1>7. \A b \in 1 .. LinkCount : b \notin DOMAIN links' => signed'[b] = 0
  BY DEF FormInv, OneLink
<1>8. \A b \in DOMAIN links' : LinkHolds(b)'
  BY <1>6 DEF OneLink
<1> QED BY <1>2, <1>3, <1>5, <1>7, <1>8, FormsKept

\* A step that reads only.
LEMMA ReadingKept ==
    ASSUME FormInv, NEW h \in FormHands, NEW pc \in HandSteps, Finish(h, pc),
           UNCHANGED <<forms, active, visit, links, signed, overwrote>>,
           reminder' \in {"none", "due", "cancelled"}, HandKnows(h)'
    PROVE  FormInv'
<1>1. /\ formHand' \in [FormHands -> HandRows]
      /\ formHand'[h].does = formHand[h].does /\ formHand'[h].form = formHand[h].form
      /\ \A u \in FormHands : u # h => formHand'[u] = formHand[u]
  BY HandMoves DEF FormInv
<1>2. \A u \in FormHands : formHand'[u].does = "edit" => formHand'[u].form \in FormIds
  BY <1>1 DEF FormInv, FormShape
<1>3. FormShape'
  BY <1>1, <1>2 DEF FormInv, FormShape
<1>4. \A a \in DOMAIN links : signed[a] \in Nat
  <2> SUFFICES ASSUME NEW a \in DOMAIN links PROVE signed[a] \in Nat
    OBVIOUS
  <2>1. a \in 1 .. LinkCount
    BY FormBounds DEF FormInv, FormShape
  <2> QED BY <2>1 DEF FormInv, FormShape
<1>5. LinksGo
  BY <1>4 DEF LinksGo
<1>6. \A a \in DOMAIN links' : LinkHolds(a)'
  BY DEF FormInv, LinkHolds, Hosted
<1>7. \A a \in 1 .. LinkCount : a \notin DOMAIN links' => signed'[a] = 0
  BY DEF FormInv
<1> QED BY <1>1, <1>3, <1>5, <1>6, <1>7, FormsKept

LEMMA FormReads ==
    ASSUME FormInv, NEW h \in FormHands,
           OpenForm(h) \/ ReadLink(h) \/ CheckSubmission(h) \/ QueueReminder(h)
    PROVE  FormInv'
<1> DEFINE a == LinkOf(h)
<1>1. HandKnows(h)
  BY DEF FormInv
<1>2. reminder \in {"none", "due", "cancelled"}
  BY DEF FormInv, FormShape
<1>3. UNCHANGED <<forms, active, visit, links, signed, overwrote>>
  BY DEF OpenForm, ReadLink, CheckSubmission, QueueReminder
<1>4. ASSUME NEW pc \in HandSteps, Finish(h, pc)
      PROVE  formHand'[h].pc = pc /\ LinkOf(h)' = a /\ formHand'[h].does = formHand[h].does
  BY <1>4, HandMoves DEF FormInv, LinkOf
<1> HIDE DEF a
<1>5. CASE OpenForm(h)
  <2>1. PICK pc \in {"signing", "done"} : Finish(h, pc) /\ a \in DOMAIN links
    BY <1>5 DEF OpenForm, Out, a
  <2>2. pc \in HandSteps
    BY DEF HandSteps
  <2>3. HandKnows(h)'
    BY <2>1, <2>2, <1>3, <1>4 DEF HandKnows
  <2>4. reminder' = reminder
    BY <1>5 DEF OpenForm
  <2> QED BY <2>1, <2>2, <2>3, <2>4, <1>2, <1>3, ReadingKept
<1>6. CASE ReadLink(h)
  <2>1. /\ a \in DOMAIN links /\ formHand[h].does \in {"complete", "review", "void"}
        /\ Finish(h, IF \/ formHand[h].does = "complete" /\ ~MayComplete(a)
                        \/ formHand[h].does = "review" /\ links[a].status \notin {"COMPLETED", "REVIEWED"}
                     THEN "done" ELSE "deciding")
    BY <1>6 DEF ReadLink, Doing, a
  <2>2. PICK pc \in {"deciding", "done"} :
          /\ Finish(h, pc)
          /\ pc = "deciding" =>
                /\ formHand[h].does = "complete" => ~Hosted(a)
                /\ formHand[h].does = "review" => links[a].status \in {"COMPLETED", "REVIEWED"}
    BY <2>1 DEF MayComplete
  <2>3. pc \in HandSteps
    BY DEF HandSteps
  <2>4. LinkHolds(a)
    BY <2>1 DEF FormInv
  <2>5. pc = "deciding" /\ formHand[h].does = "review" /\ Hosted(a) => signed[a] >= 1
    BY <2>2, <2>4 DEF LinkHolds
  <2>6. HandKnows(h)'
    BY <2>1, <2>2, <2>3, <2>5, <1>3, <1>4 DEF HandKnows, Hosted
  <2>7. reminder' = reminder
    BY <1>6 DEF ReadLink
  <2> QED BY <2>2, <2>3, <2>6, <2>7, <1>2, <1>3, ReadingKept
<1>7. CASE CheckSubmission(h)
  <2>1. /\ a \in DOMAIN links
        /\ Finish(h, IF \/ forms[links[a].form].provider # "JOTFORM"
                        \/ links[a].status = "COMPLETED" /\ links[a].submission = formHand[h].form
                     THEN "done" ELSE "completing")
    BY <1>7 DEF CheckSubmission, Out, a
  <2>2. PICK pc \in {"completing", "done"} : Finish(h, pc) /\ (pc = "completing" => ~Hosted(a))
    BY <2>1 DEF Hosted
  <2>3. pc \in HandSteps
    BY DEF HandSteps
  <2>4. HandKnows(h)'
    BY <2>1, <2>2, <2>3, <1>3, <1>4 DEF HandKnows, Hosted
  <2>5. reminder' = reminder
    BY <1>7 DEF CheckSubmission
  <2> QED BY <2>2, <2>3, <2>4, <2>5, <1>2, <1>3, ReadingKept
<1>8. CASE QueueReminder(h)
  <2>1. Finish(h, "done") /\ reminder' \in {reminder, "due"}
    BY <1>8 DEF QueueReminder
  <2>2. "done" \in HandSteps
    BY DEF HandSteps
  <2>3. HandKnows(h)'
    BY <2>1, <2>2, <1>4 DEF HandKnows
  <2> QED BY <2>1, <2>2, <2>3, <1>2, <1>3, ReadingKept
<1> QED BY <1>5, <1>6, <1>7, <1>8

\* The status of one link is written, and no signature is stored.
LEMMA RestatedKept ==
    ASSUME FormInv, NEW h \in FormHands, NEW pc \in HandSteps, Finish(h, pc),
           pc = "deciding" => FALSE, pc = "completing" => FALSE,
           NEW s \in LinkStatuses, LinkOf(h) \in DOMAIN links,
           links' \in Seq(LinkRows), Len(links') = Len(links), DOMAIN links' = DOMAIN links,
           links'[LinkOf(h)].status = s,
           \A b \in DOMAIN links : links'[b].form = links[b].form,
           \A b \in DOMAIN links : b # LinkOf(h) => links'[b] = links[b],
           UNCHANGED <<forms, active, visit, signed>>,
           overwrote \subseteq overwrote', overwrote' \subseteq overwrote \cup {LinkOf(h)},
           reminder' \in {"none", "due", "cancelled"},
           s \in Final \/ links[LinkOf(h)].status \notin Final \/ LinkOf(h) \in overwrote',
           s \in {"COMPLETED", "REVIEWED"} /\ Hosted(LinkOf(h)) => signed[LinkOf(h)] >= 1
    PROVE  FormInv'
<1>0. PICK a \in DOMAIN links : a = LinkOf(h)
  OBVIOUS
<1>1. a \in 1 .. LinkCount /\ signed[a] \in Nat
  BY FormBounds DEF FormInv, FormShape
<1>2. LinkHolds(a)
  BY DEF FormInv
<1>3. links'[a].form = links[a].form /\ links'[a].status = s /\ forms' = forms /\ signed' = signed
  BY <1>0
<1>4. LinkHolds(a)'
  BY <1>0, <1>1, <1>2, <1>3 DEF LinkHolds, Hosted
<1>5. OneLink(a)
  BY <1>0, <1>1 DEF OneLink, FormInv, FormShape
<1>6. HandKnows(h)'
  <2>1. formHand'[h].pc = pc /\ LinkOf(h)' = a
    BY <1>0, HandMoves DEF FormInv, LinkOf
  <2> QED BY <2>1 DEF HandKnows
<1> QED BY <1>4, <1>5, <1>6, OneLinkKept

LEMMA LinkReplaced ==
    ASSUME FormShape, NEW a \in DOMAIN links, NEW new \in LinkRows, new.form = links[a].form,
           links' = [links EXCEPT ![a] = new]
    PROVE  /\ links' \in Seq(LinkRows) /\ Len(links') = Len(links) /\ DOMAIN links' = DOMAIN links
           /\ links'[a].status = new.status
           /\ \A b \in DOMAIN links : links'[b].form = links[b].form
           /\ \A b \in DOMAIN links : b # a => links'[b] = links[b]
<1>1. /\ links' \in Seq(LinkRows) /\ Len(links') = Len(links) /\ DOMAIN links' = DOMAIN links
      /\ links'[a] = new /\ \A b \in DOMAIN links : b # a => links'[b] = links[b]
  BY DEF FormShape
<1> QED BY <1>1

LEMMA SenderWrites ==
    ASSUME FormInv, NEW h \in FormHands, TextLink(h) \/ RecordSent(h) \/ NoteFailure(h)
    PROVE  FormInv'
<1>0. PICK a \in DOMAIN links : a = LinkOf(h)
  BY DEF FormInv, HandKnows, TextLink, RecordSent, NoteFailure, Doing
<1>1. /\ links[a] \in LinkRows /\ FormShape /\ LinkHolds(a) /\ links[a].status \in LinkStatuses
      /\ reminder \in {"none", "due", "cancelled"}
  <2>1. links \in Seq(LinkRows)
    BY DEF FormInv, FormShape
  <2>2. links[a] \in LinkRows
    BY <2>1
  <2> QED BY <2>2 DEF FormInv, FormShape, LinkRows
<1>2. UNCHANGED <<forms, active, visit, signed, reminder>>
  BY DEF TextLink, RecordSent, NoteFailure
<1>3. CASE TextLink(h)
  <2>1. CASE links' = [links EXCEPT ![LinkOf(h)].delivered = TRUE] /\ Finish(h, "texted")
    <3> DEFINE new == [links[a] EXCEPT !.delivered = TRUE]
    <3>1. new \in LinkRows /\ new.form = links[a].form /\ new.status = links[a].status
      BY <1>1 DEF LinkRows
    <3>2. links' = [links EXCEPT ![a] = new] /\ overwrote' = overwrote
      BY <1>0, <1>3, <2>1 DEF TextLink
    <3> HIDE DEF new
    <3>3. /\ links' \in Seq(LinkRows) /\ Len(links') = Len(links) /\ DOMAIN links' = DOMAIN links
          /\ links'[a].status = links[a].status
          /\ \A b \in DOMAIN links : links'[b].form = links[b].form
          /\ \A b \in DOMAIN links : b # a => links'[b] = links[b]
      BY <1>1, <3>1, <3>2, LinkReplaced
    <3>4. links[a].status \in {"COMPLETED", "REVIEWED"} /\ Hosted(a) => signed[a] >= 1
      BY <1>1 DEF LinkHolds
    <3>5. "texted" \in HandSteps
      BY DEF HandSteps
    <3> QED BY <1>0, <1>1, <1>2, <2>1, <3>2, <3>3, <3>4, <3>5, RestatedKept
  <2>2. CASE UNCHANGED links /\ Finish(h, "failed")
    <3>1. HandKnows(h)' /\ "failed" \in HandSteps /\ UNCHANGED <<forms, active, visit, links, signed, overwrote>>
      <4>1. "failed" \in HandSteps
        BY DEF HandSteps
      <4>2. formHand'[h].pc = "failed" /\ LinkOf(h)' = a
        BY <1>0, <1>1, <2>2, <4>1, HandMoves DEF LinkOf
      <4>3. UNCHANGED <<forms, active, visit, links, signed, overwrote>>
        BY <1>3, <2>2 DEF TextLink
      <4> QED BY <4>1, <4>2, <4>3 DEF HandKnows
    <3> QED BY <3>1, <2>2, <1>1, <1>2, ReadingKept
  <2> QED BY <1>3, <2>1, <2>2 DEF TextLink
<1>4. ASSUME NEW s \in {"SENT", "DELIVERY_FAILED"}, NEW pc \in {"recorded", "done"}, SetStatus(h, s), Finish(h, pc)
      PROVE  FormInv'
  <2>1. /\ links' = [links EXCEPT ![a].status = s]
        /\ overwrote' = IF links[a].status \in Final THEN overwrote \cup {a} ELSE overwrote
    BY <1>0, <1>4 DEF SetStatus
  <2>2. s \in LinkStatuses /\ s \notin Final /\ pc \in HandSteps
    BY DEF LinkStatuses, HandSteps, Final
  <2>3. /\ links' \in Seq(LinkRows) /\ Len(links') = Len(links) /\ DOMAIN links' = DOMAIN links
        /\ links'[a].status = s
        /\ \A b \in DOMAIN links : links'[b].form = links[b].form
        /\ \A b \in DOMAIN links : b # a => links'[b] = links[b]
    BY <1>1, <2>1, <2>2, LinkRestated
  <2> QED BY <1>0, <1>1, <1>2, <1>4, <2>1, <2>2, <2>3, RestatedKept
<1> QED BY <1>3, <1>4 DEF TextLink, RecordSent, NoteFailure

LEMMA DecisionsKept ==
    ASSUME FormInv, NEW h \in FormHands, DecideLink(h) \/ CompleteSubmission(h)
    PROVE  FormInv'
<1>0. PICK a \in DOMAIN links : a = LinkOf(h)
  BY DEF FormInv, HandKnows, DecideLink, CompleteSubmission, Doing
<1>1. /\ links[a] \in LinkRows /\ FormShape /\ HandKnows(h) /\ formHand[h].form \in HandNames
  <2>1. links \in Seq(LinkRows) /\ formHand[h] \in HandRows
    BY DEF FormInv, FormShape
  <2>2. links[a] \in LinkRows
    BY <2>1
  <2> QED BY <2>1, <2>2 DEF FormInv, HandRows
<1>2. /\ UNCHANGED <<forms, active, visit, signed, overwrote>> /\ Finish(h, "done")
      /\ reminder' \in {"none", "due", "cancelled"} /\ "done" \in HandSteps
  BY <1>1 DEF DecideLink, CompleteSubmission, DropReminder, HandSteps, FormShape
<1>3. PICK new \in LinkRows :
        /\ links' = [links EXCEPT ![a] = new] /\ new.form = links[a].form /\ new.status \in Final
        /\ new.status \in {"COMPLETED", "REVIEWED"} /\ Hosted(a) => signed[a] >= 1
  <2>1. CASE DecideLink(h)
    <3> DEFINE s == CASE formHand[h].does = "void" -> "VOID"
                      [] formHand[h].does = "review" -> "REVIEWED"
                      [] OTHER -> "COMPLETED"
               new == [links[a] EXCEPT !.status = s]
    <3>1. links' = [links EXCEPT ![a] = new]
      BY <1>0, <2>1 DEF DecideLink
    <3>2. formHand[h].does \in {"complete", "review", "void"} /\ formHand[h].pc = "deciding"
      BY <2>1 DEF DecideLink, Doing
    <3>3. /\ s \in {"VOID", "REVIEWED", "COMPLETED"}
          /\ s = "REVIEWED" => formHand[h].does = "review"
          /\ s = "COMPLETED" => formHand[h].does = "complete"
      BY <3>2
    <3> HIDE DEF s
    <3>4. s \in Final /\ s \in LinkStatuses
      BY <3>3 DEF Final, LinkStatuses
    <3>5. new \in LinkRows /\ new.form = links[a].form /\ new.status = s
      BY <1>1, <3>4 DEF LinkRows
    <3>6. s \in {"COMPLETED", "REVIEWED"} /\ Hosted(a) => signed[a] >= 1
      BY <1>0, <1>1, <3>2, <3>3 DEF HandKnows
    <3> HIDE DEF new
    <3> QED BY <3>1, <3>4, <3>5, <3>6
  <2>2. CASE CompleteSubmission(h)
    <3> DEFINE new == [links[a] EXCEPT !.status = "COMPLETED", !.submission = formHand[h].form]
    <3>1. links' = [links EXCEPT ![a] = new]
      BY <1>0, <2>2 DEF CompleteSubmission
    <3>2. "COMPLETED" \in Final /\ "COMPLETED" \in LinkStatuses
      BY DEF Final, LinkStatuses
    <3>3. new \in LinkRows /\ new.form = links[a].form /\ new.status = "COMPLETED"
      BY <1>1, <3>2 DEF LinkRows
    <3>4. ~Hosted(a)
      BY <1>0, <1>1, <2>2 DEF HandKnows, CompleteSubmission, Doing
    <3> HIDE DEF new
    <3> QED BY <3>1, <3>2, <3>3, <3>4
  <2> QED BY <2>1, <2>2
<1>4. /\ links' \in Seq(LinkRows) /\ Len(links') = Len(links) /\ DOMAIN links' = DOMAIN links
      /\ links'[a].status = new.status
      /\ \A b \in DOMAIN links : links'[b].form = links[b].form
      /\ \A b \in DOMAIN links : b # a => links'[b] = links[b]
  BY <1>1, <1>3, LinkReplaced
<1>5. new.status \in LinkStatuses
  BY <1>3 DEF LinkStatuses
<1> QED BY <1>0, <1>2, <1>3, <1>4, <1>5, RestatedKept

LEMMA SigningKept ==
    ASSUME FormInv, NEW h \in FormHands, StoreSignature(h)
    PROVE  FormInv'
<1>0. PICK a \in DOMAIN links : a = LinkOf(h)
  BY DEF FormInv, HandKnows, StoreSignature, Doing
<1>1. /\ FormShape /\ LinkHolds(a) /\ reminder \in {"none", "due", "cancelled"}
      /\ a \in 1 .. LinkCount /\ signed \in [1 .. LinkCount -> Nat] /\ signed[a] \in Nat
  BY FormBounds DEF FormInv, FormShape
<1>2. Finish(h, "done") /\ "done" \in HandSteps /\ UNCHANGED <<forms, active, visit, overwrote>>
  BY DEF StoreSignature, HandSteps
<1>3. HandKnows(h)'
  BY <1>1, <1>2, HandMoves DEF HandKnows
<1>4. CASE StillUnsigned(a)
  <2>1. /\ signed' = [signed EXCEPT ![a] = signed[a] + 1]
        /\ links' = [links EXCEPT ![a].status = "COMPLETED"]
        /\ reminder' \in {"none", "due", "cancelled"}
    BY <1>0, <1>1, <1>4 DEF StoreSignature, DropReminder
  <2>2. "COMPLETED" \in LinkStatuses /\ "COMPLETED" \in Final
    BY DEF LinkStatuses, Final
  <2>3. /\ links' \in Seq(LinkRows) /\ Len(links') = Len(links) /\ DOMAIN links' = DOMAIN links
        /\ links'[a].status = "COMPLETED"
        /\ \A b \in DOMAIN links : links'[b].form = links[b].form
        /\ \A b \in DOMAIN links : b # a => links'[b] = links[b]
    BY <1>1, <2>1, <2>2, LinkRestated
  <2>4. links[a].status \notin Final
    BY <1>4 DEF StillUnsigned, Open, Final
  <2>5. a \notin overwrote => signed[a] = 0
    BY <1>1, <2>4 DEF LinkHolds
  <2>6. /\ signed' \in [1 .. LinkCount -> Nat] /\ signed'[a] = signed[a] + 1
        /\ \A b \in 1 .. LinkCount : b # a => signed'[b] = signed[b]
    BY <1>1, <2>1
  <2>7. LinkHolds(a)'
    BY <1>1, <1>2, <2>2, <2>3, <2>5, <2>6 DEF LinkHolds
  <2>8. OneLink(a)
    BY <1>1, <1>2, <2>3, <2>6 DEF OneLink
  <2> QED BY <1>2, <1>3, <2>1, <2>7, <2>8, OneLinkKept
<1>5. CASE ~StillUnsigned(a)
  <2>1. UNCHANGED <<forms, active, visit, links, signed, overwrote>> /\ reminder' = reminder
    BY <1>0, <1>2, <1>5 DEF StoreSignature
  <2> QED BY <1>1, <1>2, <1>3, <2>1, ReadingKept
<1> QED BY <1>4, <1>5

\* What issuing a link does: one link more, to a form that may be picked.
Issued(h, f, new) ==
    /\ Len(links) < LinkCount /\ f \in Pickable(h)
    /\ links' = Append(links, new) /\ new.form = f /\ new.auto = (formHand[h].form = "auto")
    /\ new \in LinkRows /\ new.status \in {"PENDING", "LINK_CREATED"}
    /\ formHand[h].pc = "start" /\ formHand[h].does \in {"send", "copy", "assistant"}
    /\ \E pc \in {"texting", "done"} :
           formHand' = [formHand EXCEPT ![h].pc = pc, ![h].link = Len(links) + 1]
    /\ UNCHANGED <<forms, active, visit, signed, reminder, overwrote>>

LEMMA IssueIsIssued ==
    ASSUME FormInv, NEW h \in FormHands, IssueAndText(h) \/ CopyLink(h) \/ AssistantLink(h)
    PROVE  \E f \in FormIds, new \in LinkRows : Issued(h, f, new)
<1>1. PICK how \in {"send", "copy", "assistant"}, status \in {"PENDING", "LINK_CREATED"}, next \in {"texting", "done"} :
        Issue(h, how, status, next)
  BY DEF IssueAndText, CopyLink, AssistantLink
<1>2. PICK f \in Pickable(h) :
        /\ links' = Append(links, [form |-> f, status |-> status, delivered |-> how # "send",
                                   submission |-> "none", auto |-> formHand[h].form = "auto"])
        /\ formHand' = [formHand EXCEPT ![h].pc = next, ![h].link = Len(links) + 1]
  BY <1>1 DEF Issue
<1>3. f \in FormIds
  BY <1>2 DEF Pickable, Best, FormInv, FormShape
<1> DEFINE new == [form |-> f, status |-> status, delivered |-> how # "send",
                   submission |-> "none", auto |-> formHand[h].form = "auto"]
<1>4. new.form = f /\ new.auto = (formHand[h].form = "auto") /\ new \in LinkRows
      /\ new.status \in {"PENDING", "LINK_CREATED"}
  BY <1>3 DEF LinkRows, LinkStatuses
<1>5. links' = Append(links, new)
  BY <1>2
<1>6. /\ Len(links) < LinkCount /\ formHand[h].pc = "start" /\ formHand[h].does \in {"send", "copy", "assistant"}
      /\ UNCHANGED <<forms, active, visit, signed, reminder, overwrote>>
  BY <1>1 DEF Issue, Doing
<1> HIDE DEF new
<1>7. Issued(h, f, new)
  BY <1>2, <1>4, <1>5, <1>6 DEF Issued
<1> QED BY <1>3, <1>4, <1>7

LEMMA IssuedKept ==
    ASSUME FormInv, NEW h \in FormHands, NEW f \in FormIds, NEW new \in LinkRows, Issued(h, f, new)
    PROVE  FormInv'
<1> DEFINE n == Len(links) + 1
<1>1. /\ links \in Seq(LinkRows) /\ Len(links) \in Nat /\ n \in 1 .. LinkCount
      /\ DOMAIN links = 1 .. Len(links) /\ n \in Nat
  BY FormBounds DEF FormInv, FormShape, Issued
<1>2. /\ links' \in Seq(LinkRows) /\ Len(links') = n /\ DOMAIN links' = 1 .. n
      /\ links'[n] = new /\ \A a \in DOMAIN links : links'[a] = links[a]
  BY <1>1 DEF Issued
<1>3. DOMAIN links' = DOMAIN links \cup {n} /\ n \notin DOMAIN links
  BY <1>1, <1>2
<1>4. UNCHANGED <<forms, active, visit, signed, reminder, overwrote>>
  BY DEF Issued
<1> DEFINE row(pc) == [formHand[h] EXCEPT !.pc = pc, !.link = n]
<1>5. PICK pc \in {"texting", "done"} : formHand' = [formHand EXCEPT ![h] = row(pc)]
  BY DEF Issued
<1>6. /\ row(pc) \in HandRows /\ row(pc).pc = pc /\ row(pc).link = n
      /\ row(pc).does = formHand[h].does
  <2>1. formHand[h] \in HandRows
    BY DEF FormInv, FormShape
  <2>2. pc \in HandSteps
    BY DEF HandSteps
  <2> QED BY <1>1, <2>1, <2>2 DEF HandRows
<1> HIDE DEF row, n
<1>7. /\ formHand' \in [FormHands -> HandRows] /\ formHand'[h] = row(pc)
      /\ \A u \in FormHands : u # h => formHand'[u] = formHand[u]
  BY <1>5, <1>6 DEF FormInv, FormShape
<1>8. \A u \in FormHands : formHand'[u].does = "edit" => formHand'[u].form \in FormIds
  <2>1. formHand'[h].does # "edit"
    BY <1>6, <1>7 DEF Issued
  <2> QED BY <1>7, <2>1 DEF FormInv, FormShape
<1>9. FormShape'
  <2>1. Len(links') <= LinkCount
    BY <1>1, <1>2, FormBounds
  <2>2. overwrote' \subseteq DOMAIN links'
    BY <1>3, <1>4 DEF FormInv, FormShape
  <2> QED BY <1>2, <1>4, <1>7, <1>8, <2>1, <2>2 DEF FormInv, FormShape
<1>10. LinksGo
  <2>1. \A a \in DOMAIN links : signed[a] \in Nat
    <3> SUFFICES ASSUME NEW a \in DOMAIN links PROVE signed[a] \in Nat
      OBVIOUS
    <3>1. a \in 1 .. LinkCount
      BY FormBounds DEF FormInv, FormShape
    <3> QED BY <3>1 DEF FormInv, FormShape
  <2> QED BY <1>2, <1>3, <1>4, <2>1 DEF LinksGo
<1>11. HandKnows(h)'
  BY <1>3, <1>6, <1>7 DEF HandKnows, LinkOf
<1>12. ASSUME NEW a \in DOMAIN links' PROVE LinkHolds(a)'
  <2>1. CASE a \in DOMAIN links
    <3>1. LinkHolds(a) /\ links'[a] = links[a]
      BY <1>2, <2>1 DEF FormInv
    <3> QED BY <1>4, <3>1 DEF LinkHolds, Hosted
  <2>2. CASE a = n
    <3>1. signed'[a] = 0
      BY <1>1, <1>3, <1>4, <2>2 DEF FormInv
    <3>2. links'[a].status \notin {"COMPLETED", "REVIEWED"}
      BY <1>2, <2>2 DEF Issued
    <3> QED BY <3>1, <3>2 DEF LinkHolds
  <2> QED BY <1>3, <2>1, <2>2
<1>13. \A a \in 1 .. LinkCount : a \notin DOMAIN links' => signed'[a] = 0
  BY <1>3, <1>4 DEF FormInv
<1> QED BY <1>7, <1>9, <1>10, <1>11, <1>12, <1>13, FormsKept

LEMMA EditKept ==
    ASSUME FormInv, NEW h \in FormHands, EditForm(h)
    PROVE  FormInv'
<1> DEFINE e == formHand[h].form
<1>1. PICK changed \in FormSets :
        forms' = [forms EXCEPT ![e] = [changed[e] EXCEPT !.provider = forms[e].provider]]
  BY DEF EditForm
<1>2. e \in FormIds
  BY DEF EditForm, Doing, FormInv, FormShape
<1> HIDE DEF e
<1> DEFINE row == [changed[e] EXCEPT !.provider = forms[e].provider]
<1>3. IsForm(row) /\ row.provider = forms[e].provider
  <2>1. IsForm(changed[e])
    BY <1>2, FormBounds DEF IsForm
  <2>2. forms[e].provider \in {"MAIA", "JOTFORM", "CUSTOM"}
    BY <1>2 DEF FormInv, FormShape, IsForm
  <2> QED BY <2>1, <2>2 DEF IsForm
<1>4. forms' = [forms EXCEPT ![e] = row] /\ forms = [f \in FormIds |-> forms[f]]
  BY <1>1 DEF FormInv, FormShape
<1> HIDE DEF row
<1>5. /\ forms' = [f \in FormIds |-> forms'[f]] /\ forms'[e] = row
      /\ \A f \in FormIds : f # e => forms'[f] = forms[f]
  BY <1>2, <1>4
<1>6. /\ \A f \in FormIds : IsForm(forms'[f])
      /\ \A f \in FormIds : forms'[f].provider = forms[f].provider
  <2>1. \A f \in FormIds : IsForm(forms[f])
    BY DEF FormInv, FormShape
  <2> QED BY <1>3, <1>5, <2>1
<1>7. UNCHANGED <<visit, links, signed, reminder, overwrote>> /\ Finish(h, "done") /\ active' \subseteq FormIds
  BY <1>2 DEF EditForm, FormInv, FormShape, e
<1>8. "done" \in HandSteps
  BY DEF HandSteps
<1>9. /\ formHand' \in [FormHands -> HandRows] /\ formHand'[h].pc = "done"
      /\ formHand'[h].does = formHand[h].does /\ formHand'[h].form = formHand[h].form
      /\ \A u \in FormHands : u # h => formHand'[u] = formHand[u]
  BY <1>7, <1>8, HandMoves DEF FormInv
<1>10. \A u \in FormHands : formHand'[u].does = "edit" => formHand'[u].form \in FormIds
  BY <1>9 DEF FormInv, FormShape
<1>11. FormShape'
  <2>1. \A f \in FormIds : IsForm(forms[f])'
    BY <1>6 DEF IsForm
  <2> QED BY <1>5, <1>7, <1>9, <1>10, <2>1 DEF FormInv, FormShape
<1>12. \A a \in DOMAIN links : signed[a] \in Nat /\ links[a].form \in FormIds
  <2> SUFFICES ASSUME NEW a \in DOMAIN links PROVE signed[a] \in Nat /\ links[a].form \in FormIds
    OBVIOUS
  <2>1. a \in 1 .. LinkCount /\ links \in Seq(LinkRows)
    BY FormBounds DEF FormInv, FormShape
  <2>2. links[a] \in LinkRows
    BY <2>1
  <2> QED BY <2>1, <2>2 DEF FormInv, FormShape, LinkRows
<1>13. LinksGo
  BY <1>6, <1>7, <1>12 DEF LinksGo
<1>14. ASSUME NEW a \in DOMAIN links' PROVE LinkHolds(a)'
  <2>1. a \in DOMAIN links /\ LinkHolds(a) /\ forms'[links[a].form].provider = forms[links[a].form].provider
    BY <1>6, <1>7, <1>12 DEF FormInv
  <2> QED BY <1>7, <2>1 DEF LinkHolds, Hosted
<1>15. HandKnows(h)'
  BY <1>9 DEF HandKnows
<1>16. \A a \in 1 .. LinkCount : a \notin DOMAIN links' => signed'[a] = 0
  BY <1>7 DEF FormInv
<1> QED BY <1>9, <1>11, <1>13, <1>14, <1>15, <1>16, FormsKept

LEMMA FormStepKept ==
    ASSUME FormInv, [FormNext]_fvars
    PROVE  FormInv'
<1>1. CASE VisitEnds \/ UNCHANGED fvars
  <2>1. UNCHANGED <<forms, active, links, signed, reminder, formHand, overwrote>> /\ visit' \in {"open", "closed"}
    BY <1>1 DEF VisitEnds, fvars, FormInv, FormShape
  <2>2. FormShape'
    BY <2>1 DEF FormInv, FormShape, IsForm
  <2>3. \A h \in FormHands : HandKnows(h)'
    BY <2>1 DEF FormInv, HandKnows, LinkOf, Hosted
  <2>4. \A a \in DOMAIN links : LinkHolds(a)'
    BY <2>1 DEF FormInv, LinkHolds, Hosted
  <2> QED BY <2>1, <2>2, <2>3, <2>4 DEF FormInv
<1>2. ASSUME NEW h \in FormHands, FormStep(h) PROVE FormInv'
  <2>1. CASE IssueAndText(h) \/ CopyLink(h) \/ AssistantLink(h)
    BY <2>1, IssueIsIssued, IssuedKept
  <2>2. CASE TextLink(h) \/ RecordSent(h) \/ NoteFailure(h)
    BY <2>2, SenderWrites
  <2>3. CASE OpenForm(h) \/ ReadLink(h) \/ CheckSubmission(h) \/ QueueReminder(h)
    BY <2>3, FormReads
  <2>4. CASE DecideLink(h) \/ CompleteSubmission(h)
    BY <2>4, DecisionsKept
  <2> QED BY <1>2, <2>1, <2>2, <2>3, <2>4, SigningKept, EditKept DEF FormStep
<1> QED BY <1>1, <1>2 DEF FormNext

\* The points of a form: for its service, its artist and its audience, less its priority.
Rated(f, one, two, three, four) ==
    /\ Narrow(f) = <<one, two, three, 1000 - four>>
    /\ Score(f) = 1000 * (100 * one + 20 * two + 10 * three) - four

LEMMA PointsGiven ==
    ASSUME NEW p \in BOOLEAN
    PROVE  /\ If(p, 1) \in Int /\ 0 <= If(p, 1) /\ If(p, 1) <= 1
           /\ If(p, 100) = 100 * If(p, 1) /\ If(p, 20) = 20 * If(p, 1) /\ If(p, 10) = 10 * If(p, 1)
<1>1. CASE p
  BY <1>1 DEF If
<1>2. CASE ~p
  BY <1>2 DEF If
<1> QED BY <1>1, <1>2

LEMMA FormIsRated ==
    ASSUME NEW f, IsForm(forms[f])
    PROVE  \E one, two, three, four \in Int :
               /\ Rated(f, one, two, three, four) /\ 0 <= four /\ four <= 1000
               /\ 0 <= one /\ one <= 1 /\ 0 <= two /\ two <= 1 /\ 0 <= three /\ three <= 1
<1> DEFINE one == If(forms[f].service # "any", 1)
           two == If(forms[f].artist # "any", 1)
           three == If(forms[f].audience # "ANY", 1)
           four == forms[f].rank
<1>1. four \in Int /\ 0 <= four /\ four <= 1000
  <2>1. four \in 0 .. 1000
    BY SMTT(30) DEF IsForm
  <2> HIDE DEF four
  <2> QED BY <2>1
<1>2. one \in Int /\ 0 <= one /\ one <= 1 /\ If(forms[f].service # "any", 100) = 100 * one
  BY PointsGiven
<1>3. two \in Int /\ 0 <= two /\ two <= 1 /\ If(forms[f].artist # "any", 20) = 20 * two
  BY PointsGiven
<1>7. three \in Int /\ 0 <= three /\ three <= 1 /\ If(forms[f].audience # "ANY", 10) = 10 * three
  BY PointsGiven
<1>4. Narrow(f) = <<one, two, three, 1000 - four>>
  BY DEF Narrow
<1>5. Score(f) = 1000 * (100 * one + 20 * two + 10 * three) - four
  BY <1>2, <1>3, <1>7 DEF Score
<1> HIDE DEF one, two, three, four
<1>6. Rated(f, one, two, three, four)
  BY <1>4, <1>5 DEF Rated
<1> QED BY <1>1, <1>2, <1>3, <1>6, <1>7

\* The points are weighed so that what comes first decides.
LEMMA PointsDecide ==
    ASSUME NEW k \in Int, NEW l \in Int, NEW m \in Int, NEW n \in Int,
           NEW p \in Int, NEW q \in Int, NEW r \in Int, NEW u \in Int,
           0 <= k, k <= 1, 0 <= l, l <= 1, 0 <= m, m <= 1, 0 <= n, n <= 1000,
           0 <= p, p <= 1, 0 <= q, q <= 1, 0 <= r, r <= 1, 0 <= u, u <= 1000,
           1000 * (100 * k + 20 * l + 10 * m) - n >= 1000 * (100 * p + 20 * q + 10 * r) - u
    PROVE  /\ ~(p > k)
           /\ ~(p = k /\ q > l)
           /\ ~(p = k /\ q = l /\ r > m)
           /\ ~(p = k /\ q = l /\ r = m /\ 1000 - u > 1000 - n)
<1>1. 100000 * k + 20000 * l + 10000 * m - n >= 100000 * p + 20000 * q + 10000 * r - u
  OBVIOUS
<1>2. ~(p > k)
  BY <1>1
<1>3. ~(p = k /\ q > l)
  BY <1>1
<1>4. ~(p = k /\ q = l /\ r > m)
  BY <1>1
<1> QED BY <1>1, <1>2, <1>3, <1>4

\* A priority of 1000 counts for less than a tenth of the audience's points.
LEMMA BestIsNotBeaten ==
    ASSUME NEW f, NEW g, IsForm(forms[f]), IsForm(forms[g]), Score(f) >= Score(g)
    PROVE  ~Above(Narrow(g), Narrow(f))
<1>1. PICK k, l, m, n \in Int :
        /\ Rated(f, k, l, m, n) /\ 0 <= n /\ n <= 1000
        /\ 0 <= k /\ k <= 1 /\ 0 <= l /\ l <= 1 /\ 0 <= m /\ m <= 1
  BY FormIsRated
<1>2. PICK p, q, r, u \in Int :
        /\ Rated(g, p, q, r, u) /\ 0 <= u /\ u <= 1000
        /\ 0 <= p /\ p <= 1 /\ 0 <= q /\ q <= 1 /\ 0 <= r /\ r <= 1
  BY FormIsRated
<1>3. 1000 * (100 * k + 20 * l + 10 * m) - n >= 1000 * (100 * p + 20 * q + 10 * r) - u
  BY <1>1, <1>2 DEF Rated
<1>4. /\ ~(p > k)
      /\ ~(p = k /\ q > l)
      /\ ~(p = k /\ q = l /\ r > m)
      /\ ~(p = k /\ q = l /\ r = m /\ 1000 - u > 1000 - n)
  BY <1>1, <1>2, <1>3, PointsDecide
<1> DEFINE S == Narrow(f)
           G == Narrow(g)
<1>5. /\ S[1] = k /\ S[2] = l /\ S[3] = m /\ S[4] = 1000 - n
      /\ G[1] = p /\ G[2] = q /\ G[3] = r /\ G[4] = 1000 - u
  BY <1>1, <1>2 DEF Rated
<1> HIDE DEF S, G
<1>6. ASSUME NEW i \in 1 .. 4, G[i] > S[i], \A j \in 1 .. i - 1 : G[j] = S[j]
      PROVE  FALSE
  <2>1. CASE i = 1
    BY <1>4, <1>5, <1>6, <2>1
  <2>2. CASE i = 2
    BY <1>4, <1>5, <1>6, <2>2
  <2>3. CASE i = 3
    BY <1>4, <1>5, <1>6, <2>3
  <2>4. CASE i = 4
    <3>1. G[1] = S[1] /\ G[2] = S[2] /\ G[3] = S[3] /\ G[4] > S[4]
      BY <1>6, <2>4
    <3> QED BY <1>4, <1>5, <3>1
  <2> QED BY <2>1, <2>2, <2>3, <2>4
<1> QED BY <1>6 DEF Above, S, G

LEMMA SpecificStep ==
    ASSUME FormInv, [FormNext]_fvars
    PROVE  \A a \in DOMAIN links' \ DOMAIN links :
               LET chosen == links'[a]
               IN  chosen.auto => /\ Applies(chosen.form)
                                  /\ ~\E g \in FormIds : Applies(g) /\ Above(Narrow(g), Narrow(chosen.form))
<1>1. CASE \E h \in FormHands : IssueAndText(h) \/ CopyLink(h) \/ AssistantLink(h)
  <2>1. PICK h \in FormHands, f \in FormIds, new \in LinkRows : Issued(h, f, new)
    BY <1>1, IssueIsIssued
  <2>2. links \in Seq(LinkRows) /\ Len(links) \in Nat /\ links' = Append(links, new)
    BY <2>1 DEF FormInv, FormShape, Issued
  <2>3. \A a \in DOMAIN links' \ DOMAIN links : links'[a] = new
    BY <2>2
  <2>4. new.form = f /\ (new.auto => f \in Best)
    BY <2>1 DEF Issued, Pickable
  <2>5. ASSUME f \in Best, NEW g \in FormIds, Applies(g) PROVE ~Above(Narrow(g), Narrow(f))
    <3>1. Score(f) >= Score(g)
      BY <2>5 DEF Best
    <3> QED BY <3>1, BestIsNotBeaten DEF FormInv, FormShape
  <2> QED BY <2>3, <2>4, <2>5 DEF Best
<1>2. CASE ~\E h \in FormHands : IssueAndText(h) \/ CopyLink(h) \/ AssistantLink(h)
  <2>1. CASE UNCHANGED fvars \/ VisitEnds
    BY <2>1 DEF fvars, VisitEnds
  <2>2. ASSUME NEW h \in FormHands, FormStep(h) PROVE DOMAIN links' = DOMAIN links
    <3>1. CASE TextLink(h) \/ RecordSent(h) \/ NoteFailure(h)
      BY <3>1 DEF TextLink, RecordSent, NoteFailure, SetStatus
    <3>2. CASE OpenForm(h) \/ ReadLink(h) \/ CheckSubmission(h) \/ QueueReminder(h)
      BY <3>2 DEF OpenForm, ReadLink, CheckSubmission, QueueReminder
    <3>3. CASE DecideLink(h) \/ CompleteSubmission(h) \/ StoreSignature(h)
      BY <3>3 DEF DecideLink, CompleteSubmission, StoreSignature
    <3>4. CASE EditForm(h)
      BY <3>4 DEF EditForm
    <3> QED BY <1>2, <2>2, <3>1, <3>2, <3>3, <3>4 DEF FormStep
  <2> QED BY <2>1, <2>2 DEF FormNext
<1> QED BY <1>1, <1>2

\* For any forms, links, hands and edits: a form counts as completed only with the client's
\* signature, is signed once, and the one chosen for the visit is the most specific.
THEOREM SignedOnceAndFitting == FormSpec => FormsSafe
<1>1. FormInit => FormInv
  BY FormsStart
<1>2. FormInv /\ [FormNext]_fvars => FormInv'
  BY FormStepKept
<1>3. FormInv => FormTypeOK /\ SignedOnce /\ CompletedMeansSigned
  <2> SUFFICES ASSUME FormInv PROVE FormTypeOK /\ SignedOnce /\ CompletedMeansSigned
    OBVIOUS
  <2>1. \A a \in DOMAIN links : links[a].form \in FormIds /\ links[a].status \in LinkStatuses
    <3>1. \A a \in DOMAIN links : links[a] \in LinkRows
      BY DEF FormInv, FormShape
    <3> QED BY <3>1 DEF LinkRows
  <2>2. \A h \in FormHands : formHand[h].pc \in HandSteps
    BY DEF FormInv, FormShape, HandRows
  <2>3. FormTypeOK
    BY <2>1, <2>2 DEF FormInv, FormShape, FormTypeOK, LinkStatuses, HandSteps
  <2> QED BY <2>3 DEF FormInv, LinkHolds, SignedOnce, CompletedMeansSigned
<1> DEFINE Fitting ==
        \A a \in DOMAIN links' \ DOMAIN links :
            LET chosen == links'[a]
            IN  chosen.auto => /\ Applies(chosen.form)
                               /\ ~\E g \in FormIds : Applies(g) /\ Above(Narrow(g), Narrow(chosen.form))
<1>4. FormInv /\ [FormNext]_fvars => [Fitting]_fvars
  BY SpecificStep
<1>5. FormSpec => []FormTypeOK /\ []SignedOnce /\ []CompletedMeansSigned
  BY <1>1, <1>2, <1>3, PTL DEF FormSpec
<1>6. FormSpec => [][Fitting]_fvars
  BY <1>1, <1>2, <1>4, PTL DEF FormSpec
<1> QED BY <1>5, <1>6 DEF FormsSafe, MostSpecificForm

-----------------------------------------------------------------------------
(* Services and what is told of them (module ServiceCatalog).              *)

SquareStates == [status : {"none", "CONNECTED", "DISCONNECTED"}, place : Places \cup {"none"}]
FieldNames == {"active", "duration", "pricing", "base", "hourly", "approval", "tattoo", "deposit", "amount",
               "percent", "pays"}

CatalogShapes ==
    /\ change \in Changes /\ DOMAIN rows \subseteq Offered /\ DOMAIN editor = Editors
    /\ artist \in [booking : BOOLEAN, receptionist : BOOLEAN, venmo : BOOLEAN] /\ square \in SquareStates
    /\ mapped \subseteq Offered \X Places /\ hours \in BOOLEAN /\ settings \in 0 .. SettingLimit

\* A request that will save has read a valid row of a service that exists.
EditorKnows(e) ==
    /\ editor[e].pc \in {"idle", "save", "refused", "done"}
    /\ editor[e].pc = "save" => editor[e].on \in DOMAIN rows /\ RowFits(editor[e].read)

\* A booking in progress has read a valid row that needed no quote then.
BookingKnows ==
    /\ DOMAIN reading = {"of", "row"}
    /\ reading.row # NoRow => reading.of \in Offered /\ RowFits(reading.row) /\ ~NeedsQuote(reading.row)

AppointmentsFit ==
    \A b \in booked : b.of \in Offered /\ b.duration \in Nat /\ b.duration > 0 /\ b.deposit \in Nat

CatalogInv ==
    /\ CatalogShapes /\ BookingKnows /\ AppointmentsFit
    /\ (\A s \in DOMAIN rows : RowFits(rows[s])) /\ \A e \in Editors : EditorKnows(e)

LEMMA FieldsAre == DOMAIN FieldRange = FieldNames
BY DEF FieldRange, FieldNames

\* The fields of a valid row, one by one.
LEMMA RowFacts ==
    ASSUME NEW r, RowFits(r)
    PROVE  /\ r.active \in BOOLEAN /\ r.duration \in Nat /\ r.pricing \in {"FLAT", "HOURLY", "QUOTE"}
           /\ r.base \in Nat \cup {None} /\ r.hourly \in Nat \cup {None} /\ r.approval \in BOOLEAN
           /\ r.tattoo \in BOOLEAN /\ r.deposit \in {"NONE", "FIXED", "PERCENT"}
           /\ r.amount \in (Nat \ {0}) \cup {None} /\ r.percent \in (1 .. 100) \cup {None}
           /\ r.pays \in {"SQUARE", "STRIPE", "VENMO_MANUAL"}
<1>1. DOMAIN r = FieldNames /\ \A field \in FieldNames : r[field] \in FieldRange[field]
  BY FieldsAre DEF RowFits, ChangeFits
<1> QED BY <1>1 DEF FieldNames, FieldRange

LEMMA NoneFits == {"base", "hourly", "amount", "percent"} \subseteq FieldNames
                  /\ \A field \in {"base", "hourly", "amount", "percent"} : None \in FieldRange[field]
BY DEF FieldRange, FieldNames

\* What is written over a valid row by a valid change leaves a valid row.
LEMMA OverFits ==
    ASSUME NEW f, NEW g, ChangeFits(f), ChangeFits(g)
    PROVE  ChangeFits(Over(f, g)) /\ DOMAIN Over(f, g) = DOMAIN f \cup DOMAIN g
<1> DEFINE o == Over(f, g)
<1>1. DOMAIN o = DOMAIN f \cup DOMAIN g
  BY DEF Over
<1>2. \A field \in DOMAIN o : o[field] = IF field \in DOMAIN f THEN f[field] ELSE g[field]
  BY DEF Over
<1> HIDE DEF o
<1>3. ChangeFits(o)
  BY <1>1, <1>2 DEF ChangeFits
<1> QED BY <1>1, <1>3 DEF o

LEMMA OverRow ==
    ASSUME NEW f, NEW g, ChangeFits(f), RowFits(g)
    PROVE  RowFits(Over(f, g))
<1>1. ChangeFits(Over(f, g)) /\ DOMAIN Over(f, g) = DOMAIN f \cup DOMAIN g
  BY OverFits DEF RowFits
<1>2. DOMAIN f \subseteq DOMAIN FieldRange
  BY DEF ChangeFits
<1> QED BY <1>1, <1>2 DEF RowFits

LEMMA PricedFits == ASSUME NEW c, NEW r, ChangeFits(c), RowFits(r) PROVE ChangeFits(Priced(c, r))
<1> DEFINE type == IF Sent(c, "pricing") THEN c.pricing ELSE r.pricing
           b == Kept(c, r, type, "FLAT", "base")
           h == Kept(c, r, type, "HOURLY", "hourly")
           p == [base |-> b, hourly |-> h]
<1>1. Priced(c, r) = p
  BY DEF Priced
<1>2. \A field \in DOMAIN c : c[field] \in FieldRange[field]
  BY DEF ChangeFits
<1>3. r.base \in FieldRange["base"] /\ r.hourly \in FieldRange["hourly"]
  BY RowFacts DEF FieldRange
<1>4. r["base"] \in FieldRange["base"] /\ r["hourly"] \in FieldRange["hourly"]
  BY <1>3
<1> HIDE DEF type
<1>5. b \in FieldRange["base"]
  BY <1>2, <1>4, NoneFits DEF Kept, Sent
<1>6. h \in FieldRange["hourly"]
  BY <1>2, <1>4, NoneFits DEF Kept, Sent
<1> HIDE DEF b, h
<1>7. DOMAIN p = {"base", "hourly"} /\ p["base"] = b /\ p["hourly"] = h
  OBVIOUS
<1> HIDE DEF p
<1>8. ChangeFits(p)
  BY <1>5, <1>6, <1>7, FieldsAre, NoneFits DEF ChangeFits
<1> QED BY <1>1, <1>8

LEMMA DepositedFits ==
    ASSUME NEW c, NEW r, ChangeFits(c), RowFits(r)
    PROVE  ChangeFits(Deposited(c, r))
<1> DEFINE type == IF Sent(c, "deposit") THEN c.deposit ELSE r.deposit
           Keep(own, field) == IF type # own THEN None
                               ELSE IF Sent(c, field) THEN c[field]
                               ELSE IF r.deposit = type THEN r[field] ELSE None
           a == Keep("FIXED", "amount")
           h == Keep("PERCENT", "percent")
           p == [deposit |-> type, amount |-> a, percent |-> h]
<1>1. Deposited(c, r) = p
  BY DEF Deposited
<1>2. \A field \in DOMAIN c : c[field] \in FieldRange[field]
  BY DEF ChangeFits
<1>3. r.amount \in FieldRange["amount"] /\ r.percent \in FieldRange["percent"] /\ r.deposit \in FieldRange["deposit"]
  BY RowFacts DEF FieldRange
<1>4. type \in FieldRange["deposit"]
  BY <1>2, <1>3 DEF Sent
<1> HIDE DEF type
<1>5. a \in FieldRange["amount"]
  BY <1>2, <1>3, NoneFits DEF Sent
<1>6. h \in FieldRange["percent"]
  BY <1>2, <1>3, NoneFits DEF Sent
<1> HIDE DEF a, h
<1>7. DOMAIN p = {"deposit", "amount", "percent"} /\ p["deposit"] = type /\ p["amount"] = a /\ p["percent"] = h
  OBVIOUS
<1> HIDE DEF p
<1>8. "deposit" \in FieldNames
  BY DEF FieldNames
<1>9. ChangeFits(p)
  BY <1>4, <1>5, <1>6, <1>7, <1>8, FieldsAre, NoneFits DEF ChangeFits
<1> QED BY <1>1, <1>9

LEMMA WrittenFits == ASSUME NEW c, NEW r, ChangeFits(c), RowFits(r) PROVE ChangeFits(Written(c, r))
<1>1. ChangeFits(Over(Priced(c, r), c))
  BY PricedFits, OverFits
<1>2. ChangeFits(Over(Deposited(c, r), Over(Priced(c, r), c)))
  BY <1>1, DepositedFits, OverFits
<1> QED BY <1>1, <1>2 DEF Written

LEMMA ProductFits == \A a, b \in Nat : a * b \in Nat /\ (a * b + 50) \div 100 \in Nat
OBVIOUS

LEMMA DepositIsNat == ASSUME NEW r, RowFits(r) PROVE DepositFor(r) \in Nat
<1>1. r.amount \in (Nat \ {0}) \cup {None} /\ r.base \in Nat \cup {None} /\ r.percent \in (1 .. 100) \cup {None}
  BY RowFacts
<1> DEFINE x == (r.base * r.percent + 50) \div 100
<1>2. CASE r.deposit = "PERCENT" /\ r.base > 0 /\ r.percent \in 1 .. 100
  <2>1. r.base \in Nat /\ r.percent \in Nat
    BY <1>1, <1>2 DEF None
  <2>2. x \in Nat
    BY <2>1, ProductFits
  <2>3. DepositFor(r) = x
    BY <1>2 DEF DepositFor
  <2> QED BY <2>2, <2>3
<1>3. CASE ~(r.deposit = "PERCENT" /\ r.base > 0 /\ r.percent \in 1 .. 100)
  BY <1>1, <1>3 DEF DepositFor, None
<1> QED BY <1>2, <1>3

LEMMA ChangesFit == ASSUME CatalogInv, NEW e \in Editors PROVE ChangeFits(change[e])
BY CatalogInputs DEF CatalogInv, CatalogShapes

\* An appointment is made of the row that was read.
LEMMA BookKeeps == ASSUME CatalogInv, Book PROVE CatalogInv'
<1> DEFINE r == reading.row
           b == [of |-> reading.of, duration |-> r.duration, deposit |-> DepositFor(r), pays |-> r.pays]
<1>1. /\ r # NoRow /\ booked' \in {booked, {b}} /\ reading' = [reading EXCEPT !.row = NoRow]
      /\ UNCHANGED <<rows, change, editor, artist, square, mapped, hours, settings>>
  BY DEF Book
<1>2. reading.of \in Offered /\ RowFits(r) /\ ~NeedsQuote(r)
  BY <1>1 DEF CatalogInv, BookingKnows
<1>3. r.duration \in Nat /\ r.duration > 0 /\ DepositFor(r) \in Nat
  BY <1>2, RowFacts, DepositIsNat DEF NeedsQuote
<1> HIDE DEF r
<1>4. b.of \in Offered /\ b.duration \in Nat /\ b.duration > 0 /\ b.deposit \in Nat
  BY <1>2, <1>3
<1> HIDE DEF b
<1>5. AppointmentsFit'
  BY <1>1, <1>4 DEF CatalogInv, AppointmentsFit
<1>6. BookingKnows'
  <2>1. DOMAIN reading = {"of", "row"}
    BY DEF CatalogInv, BookingKnows
  <2>2. reading'.row = NoRow /\ DOMAIN reading' = {"of", "row"}
    BY <1>1, <2>1
  <2> QED BY <2>2 DEF BookingKnows
<1> QED BY <1>1, <1>5, <1>6 DEF CatalogInv, CatalogShapes, EditorKnows

LEMMA CreateServiceKeeps ==
    ASSUME CatalogInv, NEW s \in Offered, NEW d \in Drafts, CreateService(s, d)
    PROVE  CatalogInv'
<1> DEFINE w == Over(Deposited(d, d), Over(Priced(d, d), d))
<1>1. /\ rows' = [t \in DOMAIN rows \cup {s} |-> IF t = s THEN w ELSE rows[t]]
      /\ UNCHANGED <<change, editor, artist, square, mapped, hours, settings, reading, booked>>
  BY DEF CreateService
<1>2. RowFits(d)
  BY CatalogInputs
<1>3. RowFits(w)
  BY <1>2, DepositedFits, PricedFits, OverRow DEF RowFits
<1> HIDE DEF w
<1>4. DOMAIN rows' = DOMAIN rows \cup {s} /\ \A t \in DOMAIN rows' : RowFits(rows'[t])
  BY <1>1, <1>3 DEF CatalogInv
<1> QED BY <1>1, <1>4 DEF CatalogInv, CatalogShapes, BookingKnows, AppointmentsFit, EditorKnows

LEMMA ReadServiceKeeps ==
    ASSUME CatalogInv, NEW e \in Editors, NEW s \in Offered, ReadService(e, s)
    PROVE  CatalogInv'
<1>1. PICK pc \in {"save", "refused"} :
         /\ editor' = [editor EXCEPT ![e] = [pc |-> pc, on |-> s, read |-> rows[s]]] /\ s \in DOMAIN rows
         /\ UNCHANGED <<rows, change, artist, square, mapped, hours, settings, reading, booked>>
  BY DEF ReadService
<1> DEFINE x == [pc |-> pc, on |-> s, read |-> rows[s]]
<1>2. DOMAIN editor = Editors /\ RowFits(rows[s])
  BY <1>1 DEF CatalogInv, CatalogShapes
<1>3. DOMAIN editor' = Editors /\ editor'[e] = x /\ \A d \in Editors : d # e => editor'[d] = editor[d]
  BY <1>1, <1>2
<1>4. \A d \in Editors : EditorKnows(d)'
  BY <1>1, <1>2, <1>3 DEF CatalogInv, EditorKnows
<1> QED BY <1>1, <1>3, <1>4 DEF CatalogInv, CatalogShapes, BookingKnows, AppointmentsFit

LEMMA SaveServiceKeeps == ASSUME CatalogInv, NEW e \in Editors, SaveService(e) PROVE CatalogInv'
<1> DEFINE s == editor[e].on
           w == Over(Written(change[e], editor[e].read), rows[s])
<1>1. /\ editor[e].pc = "save" /\ rows' = [rows EXCEPT ![s] = w] /\ editor' = [editor EXCEPT ![e].pc = "done"]
      /\ UNCHANGED <<change, artist, square, mapped, hours, settings, reading, booked>>
  BY DEF SaveService
<1>2. s \in DOMAIN rows /\ RowFits(editor[e].read) /\ RowFits(rows[s]) /\ DOMAIN editor = Editors
  BY <1>1 DEF CatalogInv, CatalogShapes, EditorKnows
<1>3. RowFits(w)
  BY <1>2, ChangesFit, WrittenFits, OverRow
<1> HIDE DEF s, w
<1>4. DOMAIN rows' = DOMAIN rows /\ \A t \in DOMAIN rows : RowFits(rows'[t])
  BY <1>1, <1>2, <1>3 DEF CatalogInv
<1>5. DOMAIN editor' = Editors /\ editor'[e].pc \in {editor[e].pc, "done"} /\ editor'[e].pc # "save"
      /\ \A d \in Editors : d # e => editor'[d] = editor[d]
  BY <1>1, <1>2
<1>6. \A d \in Editors : EditorKnows(d)'
  BY <1>4, <1>5 DEF CatalogInv, EditorKnows
<1> QED BY <1>1, <1>4, <1>5, <1>6 DEF CatalogInv, CatalogShapes, BookingKnows, AppointmentsFit

LEMMA ReadForBookingKeeps == ASSUME CatalogInv, NEW s \in Offered, ReadForBooking(s) PROVE CatalogInv'
<1>1. /\ reading' = [of |-> s, row |-> rows[s]] /\ s \in DOMAIN rows /\ ~NeedsQuote(rows[s])
      /\ UNCHANGED <<rows, change, editor, artist, square, mapped, hours, settings, booked>>
  BY DEF ReadForBooking
<1>2. RowFits(rows[s])
  BY <1>1 DEF CatalogInv
<1>3. BookingKnows'
  BY <1>1, <1>2 DEF BookingKnows, NeedsQuote
<1> QED BY <1>1, <1>3 DEF CatalogInv, CatalogShapes, AppointmentsFit, EditorKnows

\* A change of the settings around the services.
LEMMA SettingKeeps ==
    ASSUME CatalogInv, Setting, UNCHANGED <<rows, change, editor, reading, booked>>,
           artist' \in [booking : BOOLEAN, receptionist : BOOLEAN, venmo : BOOLEAN], square' \in SquareStates,
           mapped' \subseteq Offered \X Places, hours' \in BOOLEAN
    PROVE  CatalogInv'
<1>1. settings' \in 0 .. SettingLimit
  BY CatalogInputs DEF Setting, CatalogInv, CatalogShapes
<1> QED BY <1>1 DEF CatalogInv, CatalogShapes, BookingKnows, AppointmentsFit, EditorKnows

LEMMA SettingsKeep ==
    ASSUME CatalogInv,
           \/ \E booking, receptionist \in BOOLEAN : SetArtist(booking, receptionist)
           \/ \E on \in BOOLEAN : SetVenmo(on) \/ SetHours(on)
           \/ ConnectSquare \/ DisconnectSquare
           \/ \E p \in Places : SetPlace(p)
           \/ \E s \in Offered : MapService(s) \/ \E p \in Places : UnmapService(s, p)
    PROVE  CatalogInv'
<1>1. /\ artist \in [booking : BOOLEAN, receptionist : BOOLEAN, venmo : BOOLEAN] /\ square \in SquareStates
      /\ mapped \subseteq Offered \X Places /\ hours \in BOOLEAN
  BY DEF CatalogInv, CatalogShapes
<1>2. CASE \E booking, receptionist \in BOOLEAN : SetArtist(booking, receptionist)
  BY <1>1, <1>2, SettingKeeps DEF SetArtist
<1>3. ASSUME NEW on \in BOOLEAN, SetVenmo(on) PROVE CatalogInv'
  BY <1>1, <1>3, SettingKeeps DEF SetVenmo
<1>4. ASSUME NEW on \in BOOLEAN, SetHours(on) PROVE CatalogInv'
  BY <1>1, <1>4, SettingKeeps DEF SetHours
<1>5. CASE ConnectSquare
  <2>1. square' \in SquareStates
    BY <1>1, <1>5 DEF ConnectSquare, SquareStates
  <2> QED BY <1>1, <1>5, <2>1, SettingKeeps DEF ConnectSquare
<1>6. CASE DisconnectSquare
  <2>1. square' \in SquareStates
    BY <1>1, <1>6 DEF DisconnectSquare, SquareStates
  <2> QED BY <1>1, <1>6, <2>1, SettingKeeps DEF DisconnectSquare
<1>7. ASSUME NEW p \in Places, SetPlace(p) PROVE CatalogInv'
  <2>1. square' \in SquareStates
    BY <1>1, <1>7 DEF SetPlace, SquareStates
  <2> QED BY <1>1, <1>7, <2>1, SettingKeeps DEF SetPlace
<1>8. ASSUME NEW s \in Offered, MapService(s) PROVE CatalogInv'
  <2>1. square.place \in Places
    BY <1>1, <1>8 DEF MapService, SquareStates
  <2>2. mapped' \subseteq Offered \X Places
    BY <1>1, <1>8, <2>1 DEF MapService
  <2> QED BY <1>1, <1>8, <2>2, SettingKeeps DEF MapService
<1>9. ASSUME NEW s \in Offered, NEW p \in Places, UnmapService(s, p) PROVE CatalogInv'
  BY <1>1, <1>9, SettingKeeps DEF UnmapService
<1> QED BY <1>2, <1>3, <1>4, <1>5, <1>6, <1>7, <1>8, <1>9

LEMMA CatalogStart == ASSUME CatalogInit PROVE CatalogInv
<1>1. PICK on, off \in BOOLEAN : on = TRUE /\ off = FALSE
  OBVIOUS
<1>2. artist = [booking |-> on, receptionist |-> on, venmo |-> off]
  BY <1>1 DEF CatalogInit
<1>3. artist \in [booking : BOOLEAN, receptionist : BOOLEAN, venmo : BOOLEAN]
  BY <1>2
<1>4. square \in SquareStates /\ change \in Changes /\ mapped = {} /\ booked = {} /\ hours \in BOOLEAN
  BY DEF CatalogInit, SquareStates
<1>7. DOMAIN rows = {}
  BY DEF CatalogInit
<1>8. settings \in 0 .. SettingLimit
  BY CatalogInputs DEF CatalogInit
<1>5. DOMAIN editor = Editors /\ \A e \in Editors : editor[e].pc = "idle"
  BY DEF CatalogInit
<1>6. reading.row = NoRow /\ DOMAIN reading = {"of", "row"}
  BY DEF CatalogInit
<1> QED BY <1>3, <1>4, <1>5, <1>6, <1>7, <1>8 DEF CatalogInv, CatalogShapes, BookingKnows, AppointmentsFit, EditorKnows

LEMMA CatalogStep == ASSUME CatalogInv, [CatalogNext]_catalogVars PROVE CatalogInv'
<1>1. ASSUME NEW s \in Offered, NEW d \in Drafts, CreateService(s, d) PROVE CatalogInv'
  BY <1>1, CreateServiceKeeps
<1>2. ASSUME NEW e \in Editors, NEW s \in Offered, ReadService(e, s) PROVE CatalogInv'
  BY <1>2, ReadServiceKeeps
<1>3. ASSUME NEW e \in Editors, SaveService(e) PROVE CatalogInv'
  BY <1>3, SaveServiceKeeps
<1>4. ASSUME NEW s \in Offered, ReadForBooking(s) PROVE CatalogInv'
  BY <1>4, ReadForBookingKeeps
<1>5. CASE Book
  BY <1>5, BookKeeps
<1>6. CASE UNCHANGED catalogVars
  BY <1>6 DEF catalogVars, CatalogInv, CatalogShapes, BookingKnows, AppointmentsFit, EditorKnows
<1> QED BY <1>1, <1>2, <1>3, <1>4, <1>5, <1>6, SettingsKeep DEF CatalogNext

\* The readiness page and the tools judge a valid row alike.
LEMMA ReadinessIsTrue == ASSUME CatalogInv PROVE ReadinessHolds
<1>1. \A s \in Counted : s \in DOMAIN rows /\ UsableService(rows[s]) /\ RowFits(rows[s])
  BY DEF CatalogInv, Counted
<1>2. ASSUME BookingReady, NEW s \in Counted PROVE Lookup(s) \in {"SEARCHED", "ARTIST_QUOTE_REQUIRED"}
  BY <1>2 DEF BookingReady, Lookup, MappedHere
<1>3. ASSUME PaymentsReady, NEW s \in Counted, DepositFor(rows[s]) > 0 PROVE CanCollect(rows[s].pays)
  <2>1. HasDeposit(rows[s])
    BY <1>1, <1>3 DEF DepositFor, HasDeposit, UsableService
  <2>2. rows[s].pays \in {"SQUARE", "STRIPE", "VENMO_MANUAL"}
    BY <1>1, RowFacts
  <2>3. s \in {t \in Counted : HasDeposit(rows[t])}
    BY <2>1
  <2>4. CASE rows[s].pays = "SQUARE"
    BY <1>3, <2>3, <2>4 DEF PaymentsReady, CanCollect
  <2>5. CASE rows[s].pays = "STRIPE"
    BY <1>3, <2>3, <2>5 DEF PaymentsReady, CanCollect
  <2>6. CASE rows[s].pays = "VENMO_MANUAL"
    BY <1>3, <2>3, <2>6 DEF PaymentsReady, CanCollect
  <2> QED BY <2>2, <2>4, <2>5, <2>6
<1> QED BY <1>2, <1>3 DEF ReadinessHolds

(* What is told of services is true, for any services, drafts, edits,      *)
(* places and settings: when the readiness page says that clients can book *)
(* and pay deposits, the receptionist's search reaches a calendar or the   *)
(* artist's quote and a link can be had; and no crossing of edits books an *)
(* appointment of no length or a negative deposit.                         *)
THEOREM ServicesAsTold == CatalogSpec => []CatalogSafe
<1>1. CatalogInit => CatalogInv
  BY CatalogStart
<1>2. CatalogInv /\ [CatalogNext]_catalogVars => CatalogInv'
  BY CatalogStep
<1>3. CatalogInv => CatalogSafe
  <2> SUFFICES ASSUME CatalogInv PROVE CatalogSafe
    OBVIOUS
  <2>1. CatalogTypeOK
    BY DEF CatalogInv, CatalogShapes, EditorKnows, AppointmentsFit, CatalogTypeOK, SquareStates
  <2>2. NothingOfNoLength
    BY DEF CatalogInv, AppointmentsFit, NothingOfNoLength
  <2> QED BY <2>1, <2>2, ReadinessIsTrue DEF CatalogSafe
<1> QED BY <1>1, <1>2, <1>3, PTL DEF CatalogSpec

-----------------------------------------------------------------------------
(* Searching for free times (module SlotSearch).                           *)

\* A clock time is its date and its minute.
LEMMA DateAndMinute ==
    ASSUME NEW c \in Nat
    PROVE  /\ c \div DayLen \in Nat /\ c % DayLen \in 0 .. DayLen - 1
           /\ c = ((c \div DayLen) * DayLen) + (c % DayLen)
<1>1. DayLen \in Nat /\ DayLen > 0
  BY SlotBounds
<1>2. c % DayLen \in 0 .. DayLen - 1
  BY <1>1
<1>3. c = DayLen * (c \div DayLen) + (c % DayLen)
  BY <1>1
<1>4. c \div DayLen \in Nat
  BY <1>1
<1>5. DayLen * (c \div DayLen) = (c \div DayLen) * DayLen
  BY <1>1, <1>4
<1> QED BY <1>2, <1>3, <1>4, <1>5

\* Products grow with a factor.
LEMMA ProductGrows ==
    ASSUME NEW a \in Nat, NEW b \in Nat, NEW s \in Nat, a <= b
    PROVE  a * s \in Nat /\ b * s \in Nat /\ a * s <= b * s
OBVIOUS

LEMMA ProductNext == ASSUME NEW a \in Nat, NEW s \in Nat PROVE (a + 1) * s = a * s + s
OBVIOUS

LEMMA OneDate ==
    ASSUME NEW d \in Nat, NEW m \in 0 .. DayLen - 1
    PROVE  (d * DayLen + m) \div DayLen = d /\ (d * DayLen + m) % DayLen = m
<1> DEFINE c == d * DayLen + m
           e == c \div DayLen
           n == c % DayLen
<1>1. DayLen \in Nat /\ DayLen > 0
  BY SlotBounds
<1>2. c \in Nat
  BY <1>1
<1>3. e \in Nat /\ n \in 0 .. DayLen - 1 /\ c = e * DayLen + n
  BY <1>2, DateAndMinute
<1> HIDE DEF e, n
<1>4. CASE e = d
  <2>1. e * DayLen = d * DayLen /\ d * DayLen \in Nat
    BY <1>1, <1>4
  <2>2. n = m
    BY <1>3, <2>1
  <2> QED BY <1>4, <2>2 DEF e, n
<1>5. CASE e < d
  <2>1. (e + 1) * DayLen <= d * DayLen
    BY <1>1, <1>3, <1>5, ProductGrows
  <2> QED BY <1>1, <1>3, <2>1, ProductNext
<1>6. CASE d < e
  <2>1. (d + 1) * DayLen <= e * DayLen
    BY <1>1, <1>3, <1>6, ProductGrows
  <2> QED BY <1>1, <1>3, <2>1, ProductNext
<1> QED BY <1>3, <1>4, <1>5, <1>6

LEMMA DatesInOrder == ASSUME NEW a \in Nat, NEW b \in Nat, a <= b PROVE a \div DayLen <= b \div DayLen
<1>1. DayLen \in Nat /\ DayLen > 0
  BY SlotBounds
<1> DEFINE d == a \div DayLen
           e == b \div DayLen
<1>2. d \in Nat /\ e \in Nat /\ d * DayLen <= a /\ b < e * DayLen + DayLen
  BY <1>1, DateAndMinute
<1> HIDE DEF d, e
<1>3. CASE e < d
  <2>1. (e + 1) * DayLen <= d * DayLen
    BY <1>1, <1>2, <1>3, ProductGrows
  <2> QED BY <1>1, <1>2, <2>1, ProductNext
<1> QED BY <1>2, <1>3 DEF d, e

\* Steps from the same minute meet only where they are the same step.
LEMMA SameStep ==
    ASSUME NEW k \in Nat, NEW n \in Nat, NEW s \in Nat \ {0}, n * s <= k * s, k * s < n * s + s
    PROVE  k = n
<1>1. CASE k < n
  <2>1. (k + 1) * s <= n * s
    BY <1>1, ProductGrows
  <2> QED BY <2>1, ProductNext
<1>2. CASE n < k
  <2>1. (n + 1) * s <= k * s
    BY <1>2, ProductGrows
  <2> QED BY <2>1, ProductNext
<1> QED BY <1>1, <1>2

LEMMA StepsCount == ASSUME NEW k \in Nat, NEW s \in Nat \ {0} PROVE k <= k * s
<1>1. 1 * k <= s * k
  BY ProductGrows
<1>2. 1 * k = k /\ s * k = k * s
  OBVIOUS
<1> QED BY <1>1, <1>2

LEMMA LeastIs ==
    ASSUME NEW S \in SUBSET Int, NEW m \in S, \A y \in S : m <= y
    PROVE  Min(S) = m
<1>1. \A x \in S : (\A y \in S : x <= y) => x = m
  OBVIOUS
<1> QED BY <1>1 DEF Min

LEMMA MostOfTwo == ASSUME NEW a \in Int, NEW b \in Int PROVE Max({a, b}) = IF a >= b THEN a ELSE b
<1> DEFINE m == IF a >= b THEN a ELSE b
<1>1. m \in {a, b} /\ m >= a /\ m >= b /\ m \in Int
  OBVIOUS
<1>2. \A x \in {a, b} : (\A y \in {a, b} : x >= y) => x = m
  BY <1>1
<1> QED BY <1>1, <1>2 DEF Max

LEMMA MostIs ==
    ASSUME NEW S \in SUBSET Int, NEW m \in S, \A y \in S : m >= y
    PROVE  Max(S) = m
<1>1. \A x \in S : (\A y \in S : x >= y) => x = m
  OBVIOUS
<1> QED BY <1>1 DEF Max

LEMMA LeastOfTwo == ASSUME NEW a \in Int, NEW b \in Int PROVE Min({a, b}) = IF a <= b THEN a ELSE b
<1> DEFINE m == IF a <= b THEN a ELSE b
<1>1. m \in {a, b} /\ \A y \in {a, b} : m <= y
  OBVIOUS
<1> QED BY <1>1, LeastIs

LEMMA ClockFits == ASSUME NEW z, ZoneFits(z), NEW u \in Nat PROVE ClockAt(z, u) \in Nat
BY DEF ZoneFits, ClockAt

\* The studio's dates follow the instants, for its clock never goes back a day.
LEMMA DatesFollow ==
    ASSUME NEW z, ZoneFits(z), NEW u \in Nat, NEW v \in Nat, u <= v
    PROVE  DateAt(z, u) \in Nat /\ DateAt(z, v) \in Nat /\ DateAt(z, u) <= DateAt(z, v)
<1> DEFINE a == ClockAt(z, u)
           b == ClockAt(z, v)
<1>1. z.at \in Nat /\ z.shift \in Int /\ z.at + z.shift \in Nat
  BY DEF ZoneFits
<1>2. a \in Nat /\ b \in Nat
  BY ClockFits
<1>3. a \div DayLen \in Nat /\ b \div DayLen \in Nat
  BY <1>2, DateAndMinute
<1>4. CASE u < z.at /\ v >= z.at
  <2>1. z.at - 1 \in Nat /\ a <= z.at - 1 /\ z.at + z.shift <= b
    BY <1>1, <1>4 DEF ClockAt
  <2>2. a \div DayLen <= (z.at - 1) \div DayLen /\ (z.at + z.shift) \div DayLen <= b \div DayLen
    BY <1>1, <1>2, <2>1, DatesInOrder
  <2>3. (z.at - 1) \div DayLen <= (z.at + z.shift) \div DayLen
    BY <1>1, <1>4 DEF ZoneFits
  <2>4. (z.at - 1) \div DayLen \in Nat /\ (z.at + z.shift) \div DayLen \in Nat
    BY <1>1, <2>1, DateAndMinute
  <2> QED BY <1>3, <2>2, <2>3, <2>4 DEF DateAt
<1>5. CASE ~(u < z.at /\ v >= z.at)
  <2>1. a <= b
    BY <1>1, <1>5 DEF ClockAt
  <2> QED BY <1>2, <1>3, <2>1, DatesInOrder DEF DateAt
<1> QED BY <1>4, <1>5

\* Of the instants that show a clock time its instant is the first, or east the last.
LEMMA InstantShown ==
    ASSUME NEW z, ZoneFits(z), NEW c \in Nat, InstantOf(z, c) # -1
    PROVE  /\ InstantOf(z, c) \in 0 .. LastTime + DayLen /\ ClockAt(z, InstantOf(z, c)) = c
           /\ \A v \in 0 .. LastTime + DayLen : ClockAt(z, v) = c =>
                  IF z.east THEN InstantOf(z, c) >= v ELSE InstantOf(z, c) <= v
<1> DEFINE shown == {u \in 0 .. LastTime + DayLen : ClockAt(z, u) = c}
<1>1. z.at \in Nat /\ z.shift \in Int /\ z.at + z.shift \in Nat /\ LastTime \in Nat /\ DayLen \in Nat
  BY SlotBounds DEF ZoneFits
<1>2. InstantOf(z, c) = (IF z.east THEN Max(shown) ELSE Min(shown)) /\ shown # {}
  BY DEF InstantOf
<1>3. PICK u \in 0 .. LastTime + DayLen : ClockAt(z, u) = c
  BY <1>2
<1> DEFINE again == c - z.shift >= z.at /\ c - z.shift \in 0 .. LastTime + DayLen
           first == IF c < z.at THEN c ELSE u
           last == IF c < z.at /\ again THEN c - z.shift ELSE first
<1>4. /\ first \in 0 .. LastTime + DayLen /\ ClockAt(z, first) = c
      /\ \A v \in 0 .. LastTime + DayLen : ClockAt(z, v) = c => first <= v
  BY <1>1, <1>3 DEF ClockAt
<1>5. /\ last \in 0 .. LastTime + DayLen /\ ClockAt(z, last) = c
      /\ \A v \in 0 .. LastTime + DayLen : ClockAt(z, v) = c => last >= v
  BY <1>1, <1>3 DEF ClockAt
<1> HIDE DEF first, last
<1>6. shown \in SUBSET Int /\ first \in shown /\ last \in shown
      /\ (\A y \in shown : first <= y) /\ \A y \in shown : last >= y
  BY <1>1, <1>4, <1>5
<1> HIDE DEF shown
<1>7. Min(shown) = first /\ Max(shown) = last
  BY <1>6, LeastIs, MostIs
<1> QED BY <1>2, <1>4, <1>5, <1>7

LEMMA InstantFound ==
    ASSUME NEW z, ZoneFits(z), NEW w \in 0 .. LastTime,
           \A v \in 0 .. LastTime + DayLen :
               ClockAt(z, v) = ClockAt(z, w) => IF z.east THEN w >= v ELSE w <= v
    PROVE  InstantOf(z, ClockAt(z, w)) = w
<1> DEFINE c == ClockAt(z, w)
           shown == {u \in 0 .. LastTime + DayLen : ClockAt(z, u) = c}
<1>1. LastTime \in Nat /\ DayLen \in Nat
  BY SlotBounds
<1>2. w \in shown
  BY <1>1
<1>3. InstantOf(z, c) = IF z.east THEN Max(shown) ELSE Min(shown)
  BY <1>2 DEF InstantOf
<1>4. \A y \in shown : IF z.east THEN w >= y ELSE w <= y
  OBVIOUS
<1>5. shown \in SUBSET Int
  OBVIOUS
<1> HIDE DEF shown
<1>6. CASE z.east
  <2>1. Max(shown) = w
    BY <1>2, <1>4, <1>5, <1>6, MostIs
  <2> QED BY <1>3, <1>6, <2>1
<1>7. CASE ~z.east
  <2>1. Min(shown) = w
    BY <1>2, <1>4, <1>5, <1>7, LeastIs
  <2> QED BY <1>3, <1>7, <2>1
<1> QED BY <1>6, <1>7

MinuteOf(u) == ClockAt(query.zone, u) % DayLen

\* The instant that counts of those at which the clock shows the same.
Meant(u) == \A v \in 0 .. LastTime + DayLen : ClockAt(query.zone, v) = ClockAt(query.zone, u) => Preferred(u, v)

\* An instant is a step of a rule's hours.
Matches(u, i) ==
    LET r == query.rules[i]
    IN  /\ r.day = DateAt(query.zone, u) % 7 /\ MinuteOf(u) + query.duration <= r.to
        /\ MinuteOf(u) \in {r.from + k * query.step : k \in 0 .. DayLen}

\* The walk that stands at c has been at that step of the rule.
Behind(c, u, i) ==
    LET d == DateAt(query.zone, u)
    IN  \/ d < c.date
        \/ d = c.date /\ i < c.rule
        \/ d = c.date /\ i = c.rule /\ c.minute # -1 /\ MinuteOf(u) < c.minute

\* A free time the walk has passed.
Passed(c, u) ==
    Meant(u) /\ Bookable(u) /\ \E i \in DOMAIN query.rules : Matches(u, i) /\ Behind(c, u, i)

\* What has been found is every free time passed, and none twice.
SlotsRight(c, s) ==
    /\ s \in Seq(0 .. LastTime)
    /\ \A u \in 0 .. LastTime : (\E j \in DOMAIN s : s[j] = u) <=> Passed(c, u)
    /\ \A i, j \in DOMAIN s : s[i] = s[j] => i = j

Cursors == [date : Nat, rule : Nat, minute : Int, from : Int, to : Int]

\* The walk stands on a step of a rule of the date's weekday, or between rules.
Standing(c) ==
    c.minute # -1 => /\ c.rule <= Len(query.rules) /\ query.rules[c.rule].day = c.date % 7
                     /\ \E k \in Nat : c.minute = query.rules[c.rule].from + k * query.step

NativeInv ==
    /\ NativeFits(query) /\ ZoneFits(query.zone) /\ windows = <<>> /\ cursor \in Cursors
    /\ cursor.rule \in 1 .. Len(query.rules) + 1 /\ stage \in {"start", "walk", "done"}
    /\ stage = "start" => slots = <<>> /\ cursor.rule = 1
    /\ stage # "start" => SlotsRight(cursor, slots)
    /\ stage = "walk" => Standing(cursor)
    /\ stage = "done" => cursor.date > LastDate

LEMMA QuerySame ==
    ASSUME query' = query, NEW c, NEW s
    PROVE  /\ SlotsRight(c, s)' <=> SlotsRight(c, s)
           /\ Standing(c)' <=> Standing(c) /\ LastDate' = LastDate
BY DEF SlotsRight, Passed, Meant, Preferred, Bookable, Unoccupied, Matches, Behind, MinuteOf, Standing, LastDate

LEMMA RuleFacts ==
    ASSUME NativeFits(query), NEW i \in DOMAIN query.rules
    PROVE  /\ i \in 1 .. Len(query.rules) /\ query.rules[i].day \in 0 .. 6
           /\ query.rules[i].from \in 0 .. DayLen /\ query.rules[i].to \in 0 .. DayLen
<1> DEFINE R == [day : 0 .. 6, from : 0 .. DayLen, to : 0 .. DayLen]
<1>1. query.rules \in Seq(R)
  BY DEF NativeFits
<1> HIDE DEF R
<1>2. i \in 1 .. Len(query.rules) /\ query.rules[i] \in R
  BY <1>1
<1> QED BY <1>2 DEF R

LEMMA MatchFacts ==
    ASSUME NativeFits(query), ZoneFits(query.zone), NEW u \in Nat, NEW i \in DOMAIN query.rules, Matches(u, i)
    PROVE  /\ MinuteOf(u) \in Nat /\ query.rules[i].from <= MinuteOf(u) /\ MinuteOf(u) < query.rules[i].to
           /\ \E k \in Nat : MinuteOf(u) = query.rules[i].from + k * query.step
<1>1. PICK k \in 0 .. DayLen : MinuteOf(u) = query.rules[i].from + k * query.step
  BY DEF Matches
<1>2. MinuteOf(u) \in Nat
  BY ClockFits, DateAndMinute DEF MinuteOf
<1>3. query.duration \in Nat \ {0} /\ query.step \in Nat
  BY DEF NativeFits
<1>4. k \in Nat /\ k * query.step \in Nat
  BY <1>3, SlotBounds
<1>5. MinuteOf(u) + query.duration <= query.rules[i].to
  BY DEF Matches
<1>6. query.rules[i].from \in Nat /\ query.rules[i].to \in Nat
  BY RuleFacts, SlotBounds
<1>7. query.rules[i].from <= MinuteOf(u)
  BY <1>1, <1>2, <1>4, <1>6
<1>8. MinuteOf(u) < query.rules[i].to
  BY <1>2, <1>3, <1>5, <1>6
<1> QED BY <1>1, <1>2, <1>4, <1>7, <1>8

LEMMA SamePassed ==
    ASSUME NEW b, NEW c, NEW s, SlotsRight(b, s),
           \A u \in 0 .. LastTime : \A i \in DOMAIN query.rules :
               Matches(u, i) => (Behind(b, u, i) <=> Behind(c, u, i))
    PROVE  SlotsRight(c, s)
<1>1. \A u \in 0 .. LastTime : Passed(b, u) <=> Passed(c, u)
  BY DEF Passed
<1> QED BY <1>1 DEF SlotsRight

\* A time found on the way is put at the end.
LEMMA OneMore ==
    ASSUME NEW b, NEW c, NEW s, SlotsRight(b, s), NEW w \in 0 .. LastTime, ~Passed(b, w),
           \A u \in 0 .. LastTime : Passed(c, u) <=> (Passed(b, u) \/ u = w)
    PROVE  SlotsRight(c, Append(s, w))
<1> DEFINE t == Append(s, w)
<1>1. s \in Seq(0 .. LastTime) /\ t \in Seq(0 .. LastTime) /\ Len(t) = Len(s) + 1
      /\ t[Len(s) + 1] = w /\ \A j \in DOMAIN s : t[j] = s[j]
  BY DEF SlotsRight
<1>2. DOMAIN s = 1 .. Len(s) /\ DOMAIN t = 1 .. Len(s) + 1 /\ Len(s) \in Nat
  BY <1>1
<1> HIDE DEF t
<1>3. \A j \in DOMAIN s : s[j] # w
  BY DEF SlotsRight
<1>4. \A u \in 0 .. LastTime : (\E j \in DOMAIN t : t[j] = u) <=> ((\E j \in DOMAIN s : s[j] = u) \/ u = w)
  BY <1>1, <1>2
<1>5. \A i, j \in DOMAIN t : t[i] = t[j] => i = j
  <2> TAKE i, j \in DOMAIN t
  <2> HAVE t[i] = t[j]
  <2>1. CASE i \in DOMAIN s /\ j \in DOMAIN s
    BY <1>1, <2>1 DEF SlotsRight
  <2>2. CASE i \notin DOMAIN s \/ j \notin DOMAIN s
    BY <1>1, <1>2, <1>3, <2>2
  <2> QED BY <2>1, <2>2
<1>6. SlotsRight(c, t)
  BY <1>1, <1>4, <1>5 DEF SlotsRight
<1> QED BY <1>6 DEF t

LEMMA StillRight ==
    ASSUME query' = query, SlotsRight(cursor', slots')
    PROVE  SlotsRight(cursor, slots)'
<1>1. PICK c : c = cursor'
  OBVIOUS
<1>2. PICK s : s = slots'
  OBVIOUS
<1>3. SlotsRight(c, s)
  BY <1>1, <1>2
<1>4. SlotsRight(c, s)'
  BY <1>3, QuerySame
<1> QED BY <1>1, <1>2, <1>4
     DEF SlotsRight, Passed, Meant, Preferred, Bookable, Unoccupied, Matches, Behind, MinuteOf

LEMMA WalksOn ==
    ASSUME NativeInv, query' = query, windows' = windows, stage' = "walk", cursor' \in Cursors,
           cursor'.rule \in 1 .. Len(query.rules) + 1, Standing(cursor'), SlotsRight(cursor', slots')
    PROVE  NativeInv'
<1>1. SlotsRight(cursor, slots)'
  BY StillRight
<1>2. Standing(cursor)'
  BY DEF Standing
<1>3. NativeFits(query)' /\ ZoneFits(query.zone)' /\ windows' = <<>>
  BY DEF NativeInv
<1> QED BY <1>1, <1>2, <1>3 DEF NativeInv

LEMMA StartNativeKeeps == ASSUME NativeInv, StartNative PROVE NativeInv'
<1> DEFINE c == [cursor EXCEPT !.date = DateAt(query.zone, query.from), !.minute = -1]
<1>1. stage = "start" /\ slots = <<>> /\ cursor.rule = 1 /\ cursor \in Cursors
      /\ NativeFits(query) /\ ZoneFits(query.zone)
  BY DEF StartNative, NativeInv
<1>2. cursor' = c /\ stage' = "walk" /\ query' = query /\ windows' = windows /\ slots' = <<>>
  BY <1>1 DEF StartNative
<1>3. query.from \in Nat /\ DateAt(query.zone, query.from) \in Nat
  <2>1. query.from \in Nat
    BY <1>1 DEF NativeFits
  <2> QED BY <1>1, <2>1, DatesFollow
<1>4. c \in Cursors /\ c.date = DateAt(query.zone, query.from) /\ c.rule = 1 /\ c.minute = -1
  <2> DEFINE b == [cursor EXCEPT !.date = DateAt(query.zone, query.from)]
  <2>1. b \in Cursors /\ b.date = DateAt(query.zone, query.from) /\ b.rule = 1
    BY <1>1, <1>3 DEF Cursors
  <2>2. c = [b EXCEPT !.minute = -1]
    BY <1>1 DEF Cursors
  <2> HIDE DEF b, c
  <2> QED BY <2>1, <2>2 DEF Cursors
<1> HIDE DEF c
<1>5. Standing(c)
  BY <1>4 DEF Standing
<1>6. \A u \in 0 .. LastTime : ~Passed(c, u)
  <2> SUFFICES ASSUME NEW u \in 0 .. LastTime, Passed(c, u) PROVE FALSE
    OBVIOUS
  <2>1. u >= query.from
    BY DEF Passed, Bookable
  <2>2. u \in Nat
    BY SlotBounds
  <2>3. DateAt(query.zone, query.from) <= DateAt(query.zone, u) /\ DateAt(query.zone, u) \in Nat
    BY <1>1, <1>3, <2>1, <2>2, DatesFollow
  <2>4. PICK i \in DOMAIN query.rules : Behind(c, u, i)
    BY DEF Passed
  <2>5. i >= 1 /\ i \in Nat
    BY <1>1, RuleFacts
  <2> QED BY <1>3, <1>4, <2>3, <2>4, <2>5 DEF Behind
<1>7. SlotsRight(c, <<>>)
  BY <1>6 DEF SlotsRight
<1>8. c.rule \in 1 .. Len(query.rules) + 1
  BY <1>1, <1>4 DEF NativeInv
<1> QED BY <1>2, <1>4, <1>5, <1>7, <1>8, WalksOn

LEMMA EnterRuleKeeps == ASSUME NativeInv, EnterRule PROVE NativeInv'
<1> DEFINE r == query.rules[cursor.rule]
           in == [cursor EXCEPT !.minute = r.from]
           past == [cursor EXCEPT !.rule = @ + 1]
<1>1. /\ stage = "walk" /\ cursor.minute = -1 /\ cursor.rule <= Len(query.rules) /\ cursor \in Cursors
      /\ NativeFits(query) /\ ZoneFits(query.zone) /\ SlotsRight(cursor, slots) /\ cursor.rule >= 1
      /\ cursor.rule \in Nat /\ cursor.date \in Nat
  BY DEF EnterRule, NativeInv, Cursors
<1>2. /\ cursor' = IF r.day = cursor.date % 7 THEN in ELSE past
      /\ stage' = "walk" /\ query' = query /\ windows' = windows /\ slots' = slots
  BY <1>1 DEF EnterRule, RuleHere
<1>3. Len(query.rules) \in Nat /\ DOMAIN query.rules = 1 .. Len(query.rules)
  BY <1>1 DEF NativeFits
<1>4. cursor.rule \in DOMAIN query.rules /\ r.from \in Nat
  BY <1>1, <1>3, RuleFacts, SlotBounds
<1> HIDE DEF r
<1>5. CASE r.day = cursor.date % 7
  <2>1. in \in Cursors /\ in.date = cursor.date /\ in.rule = cursor.rule /\ in.minute = r.from
    BY <1>1, <1>4 DEF Cursors
  <2>2. cursor' = in
    BY <1>2, <1>5
  <2> HIDE DEF in
  <2>3. query.step \in Nat
    BY <1>1 DEF NativeFits
  <2>4. 0 * query.step = 0
    BY <2>3
  <2>5. r.from = r.from + 0 * query.step
    BY <1>4, <2>4
  <2>6. Standing(in)
    BY <1>1, <1>5, <2>1, <2>5 DEF Standing, r
  <2>7. ASSUME NEW u \in 0 .. LastTime, NEW i \in DOMAIN query.rules, Matches(u, i)
        PROVE  Behind(cursor, u, i) <=> Behind(in, u, i)
    <3>1. MinuteOf(u) \in Nat /\ query.rules[i].from <= MinuteOf(u)
      BY <1>1, <2>7, MatchFacts, SlotBounds
    <3>2. i = cursor.rule => ~(MinuteOf(u) < r.from)
      BY <1>4, <3>1 DEF r
    <3> QED BY <1>1, <2>1, <3>2 DEF Behind
  <2>8. SlotsRight(in, slots)
    BY <1>1, <2>7, SamePassed
  <2>9. in.rule \in 1 .. Len(query.rules) + 1
    BY <1>1, <1>3, <2>1
  <2> QED BY <1>2, <2>1, <2>2, <2>6, <2>8, <2>9, WalksOn
<1>6. CASE r.day # cursor.date % 7
  <2>1. past \in Cursors /\ past.date = cursor.date /\ past.rule = cursor.rule + 1 /\ past.minute = -1
    BY <1>1, <1>4 DEF Cursors
  <2>2. cursor' = past
    BY <1>2, <1>6
  <2> HIDE DEF past
  <2>3. ASSUME NEW u \in 0 .. LastTime, NEW i \in DOMAIN query.rules, Matches(u, i)
        PROVE  Behind(cursor, u, i) <=> Behind(past, u, i)
    <3>1. query.rules[i].day = DateAt(query.zone, u) % 7 /\ i \in Nat
      BY <1>3, <2>3 DEF Matches
    <3>2. DateAt(query.zone, u) = cursor.date => i # cursor.rule
      BY <1>6, <3>1 DEF r
    <3> QED BY <1>1, <2>1, <3>1, <3>2 DEF Behind
  <2>4. SlotsRight(past, slots)
    BY <1>1, <2>3, SamePassed
  <2>5. past.rule \in 1 .. Len(query.rules) + 1 /\ Standing(past)
    BY <1>1, <1>3, <2>1 DEF Standing
  <2> QED BY <1>2, <2>1, <2>2, <2>4, <2>5, WalksOn
<1> QED BY <1>5, <1>6

LEMMA NextDateKeeps == ASSUME NativeInv, NextDate PROVE NativeInv'
<1> DEFINE c == [cursor EXCEPT !.date = @ + 1, !.rule = 1]
<1>1. /\ stage = "walk" /\ cursor.minute = -1 /\ cursor.rule > Len(query.rules) /\ cursor \in Cursors
      /\ NativeFits(query) /\ ZoneFits(query.zone) /\ SlotsRight(cursor, slots)
      /\ cursor.rule \in Nat /\ cursor.date \in Nat
  BY DEF NextDate, NativeInv, Cursors
<1>2. cursor' = c /\ stage' = "walk" /\ query' = query /\ windows' = windows /\ slots' = slots
  BY <1>1 DEF NextDate
<1>3. c \in Cursors /\ c.date = cursor.date + 1 /\ c.rule = 1 /\ c.minute = -1
  <2> DEFINE b == [cursor EXCEPT !.date = @ + 1]
  <2>1. b \in Cursors /\ b.date = cursor.date + 1 /\ b.minute = -1
    BY <1>1 DEF Cursors
  <2>2. c = [b EXCEPT !.rule = 1]
    BY <1>1 DEF Cursors
  <2> HIDE DEF b, c
  <2> QED BY <2>1, <2>2 DEF Cursors
<1> HIDE DEF c
<1>4. Len(query.rules) \in Nat /\ DOMAIN query.rules = 1 .. Len(query.rules)
  BY <1>1 DEF NativeFits
<1>5. ASSUME NEW u \in 0 .. LastTime, NEW i \in DOMAIN query.rules, Matches(u, i)
      PROVE  Behind(cursor, u, i) <=> Behind(c, u, i)
  <2>1. DateAt(query.zone, u) \in Nat
    <3>1. u \in Nat
      BY SlotBounds
    <3> QED BY <1>1, <3>1, DatesFollow
  <2>2. i \in Nat /\ i >= 1 /\ i < cursor.rule
    BY <1>1, <1>4
  <2> QED BY <1>1, <1>3, <2>1, <2>2 DEF Behind
<1>6. SlotsRight(c, slots)
  BY <1>1, <1>5, SamePassed
<1>7. c.rule \in 1 .. Len(query.rules) + 1 /\ Standing(c)
  BY <1>3, <1>4 DEF Standing
<1> QED BY <1>2, <1>3, <1>6, <1>7, WalksOn

\* A step that fits the rule: its time, when it is free, is the one passed next.
LEMMA StepPasses ==
    ASSUME NativeInv, stage = "walk", cursor.minute # -1, cursor.minute + query.duration <= RuleHere.to,
           NEW w, w = InstantOf(query.zone, cursor.date * DayLen + cursor.minute),
           NEW c, c = [cursor EXCEPT !.minute = @ + query.step]
    PROVE  /\ \A u \in 0 .. LastTime : Passed(c, u) <=> (Passed(cursor, u) \/ (u = w /\ Bookable(w)))
           /\ Bookable(w) => w \in 0 .. LastTime /\ ~Passed(cursor, w)
<1> DEFINE r == query.rules[cursor.rule]
           clock == cursor.date * DayLen + cursor.minute
<1>1. /\ NativeFits(query) /\ ZoneFits(query.zone) /\ cursor \in Cursors /\ cursor.rule \in Nat
      /\ cursor.date \in Nat /\ cursor.minute \in Int /\ cursor.rule >= 1 /\ Standing(cursor)
  BY DEF NativeInv, Cursors
<1>2. /\ query.duration \in Nat \ {0} /\ query.step \in Nat \ {0} /\ query.to \in 1 .. LastTime
      /\ Len(query.rules) \in Nat /\ DOMAIN query.rules = 1 .. Len(query.rules) /\ query.from \in Nat
  BY <1>1 DEF NativeFits
<1>3. cursor.rule \in DOMAIN query.rules /\ r.day = cursor.date % 7
  BY <1>1, <1>2 DEF Standing
<1>18. DayLen \in Nat /\ LastTime \in Nat
  BY SlotBounds
<1>4. r.from \in Nat /\ r.to \in Nat /\ r.to <= DayLen
  BY <1>1, <1>3, <1>18, RuleFacts
<1>19. query.step \in Nat \ {0}
  BY <1>2
<1>5. cursor.minute + query.duration <= r.to
  BY DEF RuleHere
<1>6. PICK n \in Nat : cursor.minute = r.from + n * query.step
  BY <1>1 DEF Standing
<1> HIDE DEF r
<1> DEFINE at == n * query.step
<1>7. at \in Nat /\ n <= at
  BY <1>19, StepsCount
<1>20. cursor.minute = r.from + at
  BY <1>6
<1> HIDE DEF at
<1>8. cursor.minute \in 0 .. DayLen - 1 /\ r.from <= cursor.minute /\ cursor.minute < r.to
  <2>1. query.duration \in Nat /\ query.duration > 0
    BY <1>2
  <2>2. cursor.minute \in Nat /\ r.from <= cursor.minute
    BY <1>4, <1>7, <1>20
  <2>3. cursor.minute < r.to
    BY <1>4, <1>5, <2>1, <2>2
  <2> QED BY <1>4, <1>18, <2>2, <2>3
<1>9. c.date = cursor.date /\ c.rule = cursor.rule /\ c.minute = cursor.minute + query.step /\ c.minute # -1
  BY <1>1, <1>2, <1>8 DEF Cursors
<1>10. clock \in Nat /\ clock \div DayLen = cursor.date /\ clock % DayLen = cursor.minute
  <2>1. cursor.date * DayLen \in Nat
    BY <1>1, <1>18
  <2>2. (cursor.date * DayLen + cursor.minute) \div DayLen = cursor.date
        /\ (cursor.date * DayLen + cursor.minute) % DayLen = cursor.minute
    BY <1>1, <1>8, OneDate
  <2> QED BY <1>8, <1>18, <2>1, <2>2
<1> HIDE DEF clock
<1>11. w = InstantOf(query.zone, clock)
  BY DEF clock
<1>12. ASSUME Bookable(w)
       PROVE  /\ w \in 0 .. LastTime /\ DateAt(query.zone, w) = cursor.date /\ MinuteOf(w) = cursor.minute
              /\ Meant(w)
  <2>1. w # -1 /\ w + query.duration <= query.to
    BY <1>12 DEF Bookable
  <2>2. /\ w \in 0 .. LastTime + DayLen /\ ClockAt(query.zone, w) = clock
        /\ \A v \in 0 .. LastTime + DayLen : ClockAt(query.zone, v) = clock => Preferred(w, v)
    BY <1>1, <1>10, <1>11, <2>1, InstantShown DEF Preferred
  <2>3. w \in 0 .. LastTime
    BY <1>2, <1>18, <2>1, <2>2
  <2>4. Meant(w)
    BY <2>2 DEF Meant
  <2> QED BY <1>10, <2>2, <2>3, <2>4 DEF DateAt, MinuteOf
<1>13. ASSUME Bookable(w) PROVE Passed(c, w)
  <2>1. n \in 0 .. DayLen
    BY <1>4, <1>7, <1>8, <1>18, <1>20
  <2>2. Matches(w, cursor.rule)
    <3>1. MinuteOf(w) = query.rules[cursor.rule].from + n * query.step
      BY <1>6, <1>12, <1>13 DEF r
    <3> QED BY <1>3, <1>5, <1>12, <1>13, <2>1, <3>1 DEF Matches, r
  <2>3. Behind(c, w, cursor.rule)
    BY <1>2, <1>8, <1>9, <1>12, <1>13 DEF Behind
  <2> QED BY <1>3, <1>12, <1>13, <2>2, <2>3 DEF Passed
<1>14. ASSUME NEW u \in 0 .. LastTime, NEW i \in DOMAIN query.rules, Behind(cursor, u, i) PROVE Behind(c, u, i)
  <2>1. MinuteOf(u) \in Nat
    <3>1. u \in Nat
      BY <1>18
    <3> QED BY <1>1, <3>1, ClockFits, DateAndMinute DEF MinuteOf
  <2> QED BY <1>2, <1>8, <1>9, <1>14, <2>1 DEF Behind
<1>15. ASSUME NEW u \in 0 .. LastTime, Passed(c, u), ~Passed(cursor, u) PROVE u = w /\ Bookable(w)
  <2>1. PICK i \in DOMAIN query.rules : Matches(u, i) /\ Behind(c, u, i)
    BY <1>15 DEF Passed
  <2>2. Meant(u) /\ Bookable(u) /\ ~Behind(cursor, u, i) /\ u \in Nat
    BY <1>15, <1>18, <2>1 DEF Passed
  <2>3. MinuteOf(u) \in Nat /\ \E k \in Nat : MinuteOf(u) = query.rules[i].from + k * query.step
    BY <1>1, <2>1, <2>2, MatchFacts
  <2>4. DateAt(query.zone, u) = cursor.date /\ i = cursor.rule
        /\ MinuteOf(u) < cursor.minute + query.step /\ ~(MinuteOf(u) < cursor.minute)
    BY <1>8, <1>9, <2>1, <2>2 DEF Behind
  <2>5. PICK k \in Nat : MinuteOf(u) = r.from + k * query.step
    BY <2>3, <2>4 DEF r
  <2> DEFINE on == k * query.step
  <2>6. on \in Nat /\ MinuteOf(u) = r.from + on
    BY <1>19, <2>5
  <2>12. MinuteOf(u) \in Nat
    BY <2>3
  <2> HIDE DEF on
  <2>7. at <= on /\ on < at + query.step
    BY <1>1, <1>4, <1>7, <1>19, <1>20, <2>4, <2>6, <2>12
  <2>8. k = n
    BY <1>19, <2>7, SameStep DEF at, on
  <2>9. MinuteOf(u) = cursor.minute
    BY <1>20, <2>6, <2>8 DEF at, on
  <2>10. ClockAt(query.zone, u) = clock
    <3>1. ClockAt(query.zone, u) \in Nat
      BY <1>1, <2>2, ClockFits
    <3>2. ClockAt(query.zone, u) = ((ClockAt(query.zone, u) \div DayLen) * DayLen) + (ClockAt(query.zone, u) % DayLen)
      BY <3>1, DateAndMinute
    <3> QED BY <2>4, <2>9, <3>2 DEF DateAt, MinuteOf, clock
  <2>11. InstantOf(query.zone, ClockAt(query.zone, u)) = u
    BY <1>1, <2>2, InstantFound DEF Meant, Preferred
  <2> QED BY <1>11, <2>2, <2>10, <2>11
<1>16. \A u \in 0 .. LastTime : Passed(cursor, u) => Passed(c, u)
  BY <1>14 DEF Passed
<1>17. ASSUME Bookable(w), Passed(cursor, w) PROVE FALSE
  <2>1. PICK i \in DOMAIN query.rules : Matches(w, i) /\ Behind(cursor, w, i)
    BY <1>17 DEF Passed
  <2>2. i # cursor.rule /\ query.rules[i].day = r.day /\ i \in Nat
    <3>1. query.rules[i].day = cursor.date % 7
      BY <1>12, <1>17, <2>1 DEF Matches
    <3>2. i # cursor.rule
      BY <1>1, <1>8, <1>12, <1>17, <2>1 DEF Behind
    <3>3. i \in Nat
      BY <1>2
    <3> QED BY <1>3, <3>1, <3>2, <3>3
  <2>3. query.rules[i].from <= cursor.minute /\ cursor.minute < query.rules[i].to
        /\ query.rules[i].from \in Nat /\ query.rules[i].to \in Nat
    <3>1. w \in Nat /\ MinuteOf(w) = cursor.minute
      BY <1>12, <1>17, <1>18
    <3>2. query.rules[i].from <= MinuteOf(w) /\ MinuteOf(w) < query.rules[i].to
      BY <1>1, <2>1, <3>1, MatchFacts
    <3>3. query.rules[i].from \in Nat /\ query.rules[i].to \in Nat
      BY <1>1, <1>18, RuleFacts
    <3> QED BY <3>1, <3>2, <3>3
  <2>4. query.rules[i].to <= r.from \/ r.to <= query.rules[i].from
    BY <1>1, <1>3, <2>2 DEF NativeFits, HoursApart, r
  <2> QED BY <1>4, <1>8, <2>3, <2>4
<1> QED BY <1>12, <1>13, <1>15, <1>16, <1>17

LEMMA TryMinuteKeeps == ASSUME NativeInv, TryMinute PROVE NativeInv'
<1> DEFINE w == InstantOf(query.zone, cursor.date * DayLen + cursor.minute)
           next == [cursor EXCEPT !.minute = @ + query.step]
           past == [cursor EXCEPT !.rule = @ + 1, !.minute = -1]
<1>1. /\ stage = "walk" /\ cursor.minute # -1 /\ cursor \in Cursors /\ NativeFits(query) /\ ZoneFits(query.zone)
      /\ SlotsRight(cursor, slots) /\ Standing(cursor) /\ cursor.rule \in 1 .. Len(query.rules) + 1
      /\ cursor.date \in Nat /\ cursor.rule \in Nat /\ cursor.minute \in Int
  BY DEF TryMinute, NativeInv, Cursors
<1>2. stage' = "walk" /\ query' = query /\ windows' = windows
  BY <1>1 DEF TryMinute
<1>3. query.step \in Nat \ {0} /\ query.duration \in Nat \ {0} /\ Len(query.rules) \in Nat
      /\ DOMAIN query.rules = 1 .. Len(query.rules)
  BY <1>1 DEF NativeFits
<1>4. CASE cursor.minute + query.duration <= RuleHere.to
  <2>1. cursor' = next /\ slots' = IF Bookable(w) THEN Append(slots, w) ELSE slots
    BY <1>4 DEF TryMinute
  <2>2. /\ \A u \in 0 .. LastTime : Passed(next, u) <=> (Passed(cursor, u) \/ (u = w /\ Bookable(w)))
        /\ Bookable(w) => w \in 0 .. LastTime /\ ~Passed(cursor, w)
    BY <1>1, <1>4, StepPasses
  <2> HIDE DEF w
  <2>3. SlotsRight(next, slots')
    <3>1. CASE Bookable(w)
      <4>1. \A u \in 0 .. LastTime : Passed(next, u) <=> (Passed(cursor, u) \/ u = w)
        BY <2>2, <3>1
      <4>2. w \in 0 .. LastTime /\ ~Passed(cursor, w)
        BY <2>2, <3>1
      <4> HIDE DEF next
      <4>3. SlotsRight(next, Append(slots, w))
        BY <1>1, <4>1, <4>2, OneMore
      <4> QED BY <2>1, <3>1, <4>3
    <3>2. CASE ~Bookable(w)
      <4> HIDE DEF next
      <4>1. SlotsRight(next, slots)
        <5>1. \A u \in 0 .. LastTime : Passed(next, u) <=> Passed(cursor, u)
          BY <2>2, <3>2
        <5> QED BY <1>1, <5>1 DEF SlotsRight
      <4> QED BY <2>1, <3>2, <4>1
    <3> QED BY <3>1, <3>2
  <2>4. next \in Cursors /\ next.rule = cursor.rule /\ next.date = cursor.date
        /\ next.minute = cursor.minute + query.step
    <3>1. cursor.minute + query.step \in Int
      BY <1>1, <1>3
    <3> QED BY <1>1, <3>1 DEF Cursors
  <2> HIDE DEF next
  <2>5. Standing(next)
    <3>1. PICK k \in Nat : cursor.minute = query.rules[cursor.rule].from + k * query.step
      BY <1>1 DEF Standing
    <3>2. (k + 1) * query.step = k * query.step + query.step /\ k * query.step \in Nat
      <4>1. query.step \in Nat
        BY <1>3
      <4> QED BY <4>1, ProductNext
    <3>3. cursor.rule \in DOMAIN query.rules
      BY <1>1, <1>3 DEF Standing
    <3>4. query.rules[cursor.rule].from \in Nat
      BY <1>1, <3>3, RuleFacts, SlotBounds
    <3>5. next.minute = query.rules[next.rule].from + (k + 1) * query.step
      <4> DEFINE p == k * query.step
      <4>1. p \in Nat /\ cursor.minute = query.rules[cursor.rule].from + p /\ (k + 1) * query.step = p + query.step
        BY <3>1, <3>2
      <4> DEFINE o == (k + 1) * query.step
      <4>2. o = p + query.step
        BY <4>1
      <4> HIDE DEF p, o
      <4>3. next.minute = query.rules[next.rule].from + o
        BY <1>3, <2>4, <3>4, <4>1, <4>2
      <4> QED BY <4>3 DEF o
    <3>6. k + 1 \in Nat
      OBVIOUS
    <3> QED BY <1>1, <2>4, <3>5, <3>6 DEF Standing
  <2> QED BY <1>1, <1>2, <2>1, <2>3, <2>4, <2>5, WalksOn
<1>5. CASE ~(cursor.minute + query.duration <= RuleHere.to)
  <2>1. cursor' = past /\ slots' = slots
    BY <1>5 DEF TryMinute
  <2>2. past \in Cursors /\ past.date = cursor.date /\ past.rule = cursor.rule + 1 /\ past.minute = -1
    <3> DEFINE b == [cursor EXCEPT !.rule = @ + 1]
    <3>1. b \in Cursors /\ b.date = cursor.date /\ b.rule = cursor.rule + 1
      BY <1>1 DEF Cursors
    <3>2. past = [b EXCEPT !.minute = -1]
      BY <1>1 DEF Cursors
    <3> HIDE DEF b, past
    <3> QED BY <3>1, <3>2 DEF Cursors
  <2> HIDE DEF past
  <2>3. cursor.rule \in DOMAIN query.rules
    BY <1>1, <1>3 DEF Standing
  <2>4. query.rules[cursor.rule].to \in Nat
    BY <1>1, <2>3, RuleFacts, SlotBounds
  <2>5. ASSUME NEW u \in 0 .. LastTime, NEW i \in DOMAIN query.rules, Matches(u, i)
        PROVE  Behind(cursor, u, i) <=> Behind(past, u, i)
    <3>1. u \in Nat /\ i \in Nat
      BY <1>3, SlotBounds
    <3>2. MinuteOf(u) \in Nat
      BY <1>1, <2>5, <3>1, MatchFacts
    <3>3. MinuteOf(u) + query.duration <= query.rules[i].to
      BY <2>5 DEF Matches
    <3>4. i = cursor.rule => MinuteOf(u) < cursor.minute
      <4>1. query.duration \in Nat /\ cursor.minute \in Int
        BY <1>1, <1>3
      <4>2. ~(cursor.minute + query.duration <= query.rules[cursor.rule].to)
        BY <1>5 DEF RuleHere
      <4> QED BY <2>4, <3>2, <3>3, <4>1, <4>2
    <3> QED BY <1>1, <2>2, <3>1, <3>4 DEF Behind
  <2>6. SlotsRight(past, slots)
    BY <1>1, <2>5, SamePassed
  <2>7. past.rule \in 1 .. Len(query.rules) + 1 /\ Standing(past)
    <3>1. cursor.rule \in 1 .. Len(query.rules)
      BY <1>3, <2>3
    <3> QED BY <1>3, <2>2, <3>1 DEF Standing
  <2> QED BY <1>2, <2>1, <2>2, <2>6, <2>7, WalksOn
<1> QED BY <1>4, <1>5

LEMMA FinishWalkKeeps == ASSUME NativeInv, FinishWalk PROVE NativeInv'
<1>1. query' = query /\ cursor' = cursor /\ slots' = slots /\ windows' = windows /\ stage' = "done"
      /\ stage = "walk" /\ cursor.date > LastDate
  BY DEF FinishWalk
<1>2. SlotsRight(cursor', slots')
  BY <1>1 DEF NativeInv
<1>3. SlotsRight(cursor, slots)'
  BY <1>1, <1>2, StillRight
<1>4. LastDate' = LastDate
  BY <1>1 DEF LastDate
<1> QED BY <1>1, <1>3, <1>4 DEF NativeInv

\* When the walk is over it has passed every free time.
LEMMA WalkIsExact == ASSUME NativeInv, stage = "done" PROVE NativeSlotsExact
<1>1. NativeFits(query) /\ ZoneFits(query.zone) /\ SlotsRight(cursor, slots) /\ cursor.date > LastDate
      /\ cursor.date \in Nat
  BY DEF NativeInv, Cursors
<1>2. query.to \in 1 .. LastTime /\ query.duration \in Nat \ {0} /\ LastTime \in Nat
  BY <1>1, SlotBounds DEF NativeFits
<1>3. ASSUME NEW u \in 0 .. LastTime PROVE Passed(cursor, u) <=> WallClockFree(u)
  <2>1. WallClockFree(u) <=> Meant(u) /\ Bookable(u) /\ \E i \in DOMAIN query.rules : Matches(u, i)
    BY DEF WallClockFree, Meant, Matches, MinuteOf, DateAt
  <2>2. ASSUME Bookable(u), NEW i \in DOMAIN query.rules PROVE Behind(cursor, u, i)
    <3>1. u + query.duration <= query.to
      BY <2>2 DEF Bookable
    <3>2. u \in Nat /\ query.to - 1 \in Nat /\ u <= query.to - 1
      BY <1>2, <3>1
    <3>3. DateAt(query.zone, u) <= LastDate /\ DateAt(query.zone, u) \in Nat /\ LastDate \in Nat
      BY <1>1, <3>2, DatesFollow DEF LastDate
    <3> QED BY <1>1, <3>3 DEF Behind
  <2> QED BY <2>1, <2>2 DEF Passed
<1>4. slots \in Seq(0 .. LastTime)
  BY <1>1 DEF SlotsRight
<1>5. \A j \in DOMAIN slots : slots[j] \in 0 .. LastTime
  BY <1>4, <1>2
<1>6. ToSet(slots) = {u \in 0 .. LastTime : WallClockFree(u)}
  BY <1>1, <1>3, <1>5 DEF ToSet, SlotsRight
<1>7. \A i, j \in DOMAIN slots : slots[i] = slots[j] => i = j
  BY <1>1 DEF SlotsRight
<1>8. ASSUME NEW i \in DOMAIN slots PROVE Unoccupied(slots[i])
  <2>1. Passed(cursor, slots[i])
    BY <1>1, <1>5 DEF SlotsRight
  <2> QED BY <2>1 DEF Passed, Bookable
<1> QED BY <1>6, <1>7, <1>8 DEF NativeSlotsExact, Unoccupied

Spans == [from : Nat, to : Nat]

\* Windows that follow each other from one instant to another, within Square's limits,
\* so that every instant between is in one of them.
Tiling(w, from, to) ==
    /\ w \in Seq(Spans) /\ Len(w) > 0 /\ w[1].from = from /\ w[Len(w)].to = to
    /\ \A i \in DOMAIN w : w[i].to - w[i].from \in DayLen .. MaxRange
    /\ \A i \in DOMAIN w : i > 1 => w[i].from = w[i - 1].to
    /\ \A u \in Nat : u >= from /\ u < to => \E i \in DOMAIN w : u >= w[i].from /\ u < w[i].to

\* While the request is cut only the window that reaches its end is not a full one.
Cutting ==
    /\ cursor.minute \in cursor.from .. cursor.to
    /\ windows = <<>> => cursor.minute = cursor.from
    /\ windows # <<>> => /\ Tiling(windows, cursor.from, cursor.minute)
                         /\ cursor.minute < cursor.to =>
                                windows[Len(windows)].to - windows[Len(windows)].from = MaxRange

\* What has been kept is what is open in the windows asked for.
Asked ==
    /\ cursor.rule \in 1 .. Len(windows) + 1
    /\ \E to \in Nat : to >= cursor.to /\ Tiling(windows, cursor.from, to)
    /\ found = {u \in query.open : InRequest(u)
                    /\ \E i \in 1 .. cursor.rule - 1 : u >= windows[i].from /\ u < windows[i].to}

SquareInv ==
    /\ SquareFits(query) /\ ZoneFits(query.zone) /\ query.now \in Nat /\ cursor \in Cursors /\ slots = <<>>
    /\ stage \in {"start", "refused", "split", "ask", "done"}
    /\ stage \in {"start", "refused"} => windows = <<>>
    /\ stage \in {"start", "split"} => cursor.rule = 1 /\ found = {}
    /\ stage \notin {"start", "refused"} => cursor.from \in Nat /\ cursor.to \in Nat /\ cursor.from < cursor.to
    /\ stage = "split" => Cutting
    /\ stage \in {"ask", "done"} => Asked
    /\ stage = "done" => cursor.rule > Len(windows)

LEMMA RangeLimits == MaxRange \in Nat /\ DayLen \in Nat /\ DayLen > 0 /\ MaxRange >= 2 * DayLen
<1>1. 2 * DayLen <= MaxDays * DayLen
  BY SlotBounds, ProductGrows
<1>2. MaxDays * DayLen \in Nat
  BY SlotBounds
<1> QED BY <1>1, <1>2, SlotBounds DEF MaxRange

LEMMA FirstWindow ==
    ASSUME NEW from \in Nat, NEW to \in Nat, to - from \in DayLen .. MaxRange
    PROVE  Tiling(<<Window(from, to)>>, from, to)
<1> DEFINE w == <<Window(from, to)>>
           a == Window(from, to)
<1>1. a \in Spans /\ a.from = from /\ a.to = to
  BY DEF Spans, Window
<1>2. w = <<a>>
  OBVIOUS
<1> HIDE DEF a
<1>3. w \in Seq(Spans) /\ Len(w) = 1 /\ w[1] = a /\ DOMAIN w = {1}
  BY <1>1, <1>2
<1> HIDE DEF w
<1>4. Tiling(w, from, to)
  BY <1>1, <1>3 DEF Tiling
<1> QED BY <1>4 DEF w

LEMMA OneMoreWindow ==
    ASSUME NEW from \in Nat, NEW m \in Nat, NEW to \in Nat, NEW w, Tiling(w, from, m), to - m \in DayLen .. MaxRange
    PROVE  Tiling(Append(w, Window(m, to)), from, to)
<1> DEFINE t == Append(w, Window(m, to))
           a == Window(m, to)
<1>1. a \in Spans /\ a.from = m /\ a.to = to
  BY DEF Spans, Window
<1>2. t = Append(w, a) /\ w \in Seq(Spans)
  BY DEF Tiling
<1> HIDE DEF a
<1>3. t \in Seq(Spans) /\ Len(t) = Len(w) + 1 /\ t[Len(w) + 1] = a /\ (\A i \in 1 .. Len(w) : t[i] = w[i])
      /\ DOMAIN w = 1 .. Len(w) /\ DOMAIN t = 1 .. Len(w) + 1 /\ Len(w) \in Nat
  BY <1>1, <1>2
<1> HIDE DEF t
<1>4. Len(w) > 0 /\ w[1].from = from /\ w[Len(w)].to = m
  BY DEF Tiling
<1>5. \A i \in DOMAIN t : t[i].to - t[i].from \in DayLen .. MaxRange
  BY <1>1, <1>3 DEF Tiling
<1>6. \A i \in DOMAIN t : i > 1 => t[i].from = t[i - 1].to
  <2> SUFFICES ASSUME NEW i \in DOMAIN t, i > 1 PROVE t[i].from = t[i - 1].to
    OBVIOUS
  <2>1. CASE i = Len(w) + 1
    BY <1>1, <1>3, <1>4, <2>1
  <2>2. CASE i # Len(w) + 1
    <3>1. i \in DOMAIN w /\ i - 1 \in 1 .. Len(w) /\ t[i] = w[i] /\ t[i - 1] = w[i - 1]
      BY <1>3, <2>2
    <3> QED BY <3>1 DEF Tiling
  <2> QED BY <2>1, <2>2
<1>7. ASSUME NEW u \in Nat, u >= from, u < to PROVE \E i \in DOMAIN t : u >= t[i].from /\ u < t[i].to
  <2>1. CASE u < m
    <3>1. PICK i \in DOMAIN w : u >= w[i].from /\ u < w[i].to
      BY <1>7, <2>1 DEF Tiling
    <3> QED BY <1>3, <3>1
  <2>2. CASE u >= m
    BY <1>1, <1>3, <1>7, <2>2
  <2> QED BY <2>1, <2>2
<1>8. Len(t) > 0 /\ t[1].from = from /\ t[Len(t)].to = to
  BY <1>1, <1>3, <1>4
<1>9. Tiling(t, from, to)
  BY <1>3, <1>5, <1>6, <1>7, <1>8 DEF Tiling
<1> QED BY <1>9 DEF t

LEMMA JoinedWindows ==
    ASSUME NEW f \in Seq(Spans), NEW g \in Seq(Spans)
    PROVE  /\ f \o g \in Seq(Spans) /\ Len(f \o g) = Len(f) + Len(g)
           /\ \A i \in 1 .. Len(f) + Len(g) : (f \o g)[i] = IF i <= Len(f) THEN f[i] ELSE g[i - Len(f)]
OBVIOUS

\* A short remainder takes what it lacks from the full window before it.
LEMMA SeamMoved ==
    ASSUME NEW from \in Nat, NEW m \in Nat, NEW to \in Nat, NEW w, Tiling(w, from, m),
           w[Len(w)].to - w[Len(w)].from = MaxRange, m < to, to < m + DayLen
    PROVE  Tiling(Front(w) \o <<Window(Last(w).from, to - DayLen), Window(to - DayLen, to)>>, from, to)
<1> DEFINE n == Len(w)
           a == Window(w[n].from, to - DayLen)
           b == Window(to - DayLen, to)
           t == SubSeq(w, 1, n - 1) \o <<a, b>>
<1>1. w \in Seq(Spans) /\ n \in Nat /\ n > 0 /\ DOMAIN w = 1 .. n /\ w[1].from = from /\ w[n].to = m
      /\ w[n] \in Spans
  BY DEF Tiling
<1>2. w[n].from \in Nat /\ w[n].to \in Nat
  BY <1>1 DEF Spans
<1>3. to - DayLen \in Nat /\ (to - DayLen) - w[n].from \in DayLen .. MaxRange
  BY <1>1, <1>2, RangeLimits
<1>4. a \in Spans /\ a.from = w[n].from /\ a.to = to - DayLen /\ b \in Spans /\ b.from = to - DayLen /\ b.to = to
  BY <1>2, <1>3 DEF Spans, Window
<1> HIDE DEF a, b
<1> DEFINE f == SubSeq(w, 1, n - 1)
<1>5. f \in Seq(Spans) /\ Len(f) = n - 1 /\ \A i \in 1 .. n - 1 : f[i] = w[i]
  BY <1>1
<1>6. t = f \o <<a, b>>
  OBVIOUS
<1> HIDE DEF n, f, t
<1>7. t \in Seq(Spans) /\ Len(t) = n + 1 /\ t[n] = a /\ t[n + 1] = b /\ \A i \in 1 .. n - 1 : t[i] = w[i]
  <2>1. <<a, b>> \in Seq(Spans) /\ Len(<<a, b>>) = 2 /\ <<a, b>>[1] = a /\ <<a, b>>[2] = b
    BY <1>4
  <2> DEFINE g == <<a, b>>
  <2> HIDE DEF g
  <2>2. g \in Seq(Spans) /\ Len(g) = 2 /\ g[1] = a /\ g[2] = b /\ t = f \o g
    BY <1>6, <2>1 DEF g
  <2>3. n \in Nat /\ n > 0 /\ f \in Seq(Spans) /\ Len(f) = n - 1
    BY <1>1, <1>5
  <2>4. /\ t \in Seq(Spans) /\ Len(t) = n + 1
        /\ \A i \in 1 .. n + 1 : t[i] = IF i <= n - 1 THEN f[i] ELSE g[i - (n - 1)]
    <3>1. /\ t \in Seq(Spans) /\ Len(t) = Len(f) + Len(g)
          /\ \A i \in 1 .. Len(f) + Len(g) : t[i] = IF i <= Len(f) THEN f[i] ELSE g[i - Len(f)]
      BY <2>2, <2>3, JoinedWindows
    <3>2. Len(f) + Len(g) = n + 1
      BY <2>2, <2>3
    <3> QED BY <2>3, <3>1, <3>2
  <2>5. t[n] = g[n - (n - 1)] /\ t[n + 1] = g[(n + 1) - (n - 1)]
    BY <2>3, <2>4
  <2>6. n - (n - 1) = 1 /\ (n + 1) - (n - 1) = 2
    BY <2>3
  <2>7. \A i \in 1 .. n - 1 : t[i] = f[i]
    BY <2>3, <2>4
  <2> QED BY <1>5, <2>2, <2>4, <2>5, <2>6, <2>7
<1>8. DOMAIN t = 1 .. n + 1
  BY <1>1, <1>7
<1>9. \A i \in DOMAIN t : t[i].to - t[i].from \in DayLen .. MaxRange
  <2> SUFFICES ASSUME NEW i \in DOMAIN t PROVE t[i].to - t[i].from \in DayLen .. MaxRange
    OBVIOUS
  <2>1. CASE i \in 1 .. n - 1
    <3>1. i \in DOMAIN w /\ t[i] = w[i]
      BY <1>1, <1>7, <2>1
    <3> QED BY <3>1 DEF Tiling
  <2>2. CASE i = n
    BY <1>3, <1>4, <1>7, <2>2
  <2>3. CASE i = n + 1
    <3>1. to - (to - DayLen) = DayLen
      BY RangeLimits
    <3> QED BY <1>4, <1>7, <2>3, <3>1, RangeLimits
  <2> QED BY <1>1, <1>8, <2>1, <2>2, <2>3
<1>10. \A i \in DOMAIN t : i > 1 => t[i].from = t[i - 1].to
  <2> SUFFICES ASSUME NEW i \in DOMAIN t, i > 1 PROVE t[i].from = t[i - 1].to
    OBVIOUS
  <2>1. CASE i \in 1 .. n
    <3>1. t[i].from = w[i].from /\ t[i - 1] = w[i - 1] /\ i \in DOMAIN w
      BY <1>1, <1>4, <1>7, <2>1
    <3> QED BY <3>1 DEF Tiling
  <2>2. CASE i = n + 1
    BY <1>1, <1>4, <1>7, <2>2
  <2> QED BY <1>1, <1>8, <2>1, <2>2
<1>11. ASSUME NEW u \in Nat, u >= from, u < to PROVE \E i \in DOMAIN t : u >= t[i].from /\ u < t[i].to
  <2>1. CASE u >= to - DayLen
    BY <1>1, <1>4, <1>7, <1>8, <1>11, <2>1
  <2>2. CASE u < to - DayLen
    <3>1. u < m
      BY <2>2, RangeLimits
    <3>2. PICK i \in DOMAIN w : u >= w[i].from /\ u < w[i].to
      BY <1>11, <3>1 DEF Tiling
    <3>3. CASE i = n
      BY <1>1, <1>4, <1>7, <1>8, <2>2, <3>2, <3>3
    <3>4. CASE i # n
      BY <1>1, <1>7, <1>8, <3>2, <3>4
    <3> QED BY <3>3, <3>4
  <2> QED BY <1>3, <2>1, <2>2
<1>12. Len(t) > 0 /\ t[1].from = from /\ t[Len(t)].to = to
  <2>1. CASE n = 1
    BY <1>1, <1>4, <1>7, <2>1
  <2>2. CASE n > 1
    BY <1>1, <1>4, <1>7, <2>2
  <2> QED BY <1>1, <2>1, <2>2
<1>13. Tiling(t, from, to)
  BY <1>7, <1>9, <1>10, <1>11, <1>12 DEF Tiling
<1> QED BY <1>13 DEF t, a, b, n, Front, Last

LEMMA ResolveDatesKeeps == ASSUME SquareInv, ResolveDates PROVE SquareInv'
<1> DEFINE from == InstantOf(query.zone, query.fromDate * DayLen)
           lastDay == IF query.toDate = query.fromDate THEN query.fromDate + 1 ELSE query.toDate
           to == InstantOf(query.zone, lastDay * DayLen)
           today == DateAt(query.zone, query.now)
           begin == IF query.fromDate = today THEN Max({from, query.now}) ELSE from
           c == [cursor EXCEPT !.from = begin, !.to = to, !.minute = begin]
<1>1. /\ stage = "start" /\ windows = <<>> /\ slots = <<>> /\ found = {} /\ cursor \in Cursors /\ cursor.rule = 1
      /\ SquareFits(query) /\ ZoneFits(query.zone) /\ query.now \in Nat
  BY DEF ResolveDates, SquareInv
<1>2. query' = query /\ windows' = <<>> /\ slots' = <<>> /\ found' = {}
  BY <1>1 DEF ResolveDates
<1>3. query.fromDate \in Nat /\ query.toDate \in Nat /\ DayLen \in Nat /\ LastTime \in Nat
  BY <1>1, SlotBounds DEF SquareFits
<1>4. query.fromDate * DayLen \in Nat /\ lastDay * DayLen \in Nat
  <2>1. lastDay \in Nat
    BY <1>3
  <2> QED BY <1>3, <2>1
<1> HIDE DEF lastDay
<1>5. (from # -1 => from \in Nat) /\ (to # -1 => to \in Nat)
  <2>1. from # -1 => from \in 0 .. LastTime + DayLen
    BY <1>1, <1>4, InstantShown
  <2>2. to # -1 => to \in 0 .. LastTime + DayLen
    BY <1>1, <1>4, InstantShown
  <2> QED BY <1>3, <2>1, <2>2
<1>6. CASE from = -1 \/ to = -1 \/ query.fromDate < today \/ to <= begin
  <2>1. stage' = "refused" /\ cursor' = cursor
    BY <1>6 DEF ResolveDates, lastDay
  <2> QED BY <1>1, <1>2, <2>1 DEF SquareInv
<1>7. CASE ~(from = -1 \/ to = -1 \/ query.fromDate < today \/ to <= begin)
  <2>1. stage' = "split" /\ cursor' = c
    BY <1>7 DEF ResolveDates, lastDay
  <2> HIDE DEF from, to, today
  <2>2. from \in Nat /\ to \in Nat
    BY <1>5, <1>7
  <2>3. begin \in Nat
    BY <1>1, <2>2, MostOfTwo
  <2>4. begin < to
    BY <1>7, <2>2, <2>3
  <2> HIDE DEF begin
  <2>5. c \in Cursors /\ c.from = begin /\ c.to = to /\ c.minute = begin /\ c.rule = 1
    <3> DEFINE d == [cursor EXCEPT !.from = begin]
               e == [d EXCEPT !.to = to]
    <3>1. d \in Cursors /\ d.from = begin /\ d.rule = 1
      BY <1>1, <2>3 DEF Cursors
    <3>2. c = [e EXCEPT !.minute = begin]
      BY <1>1 DEF Cursors
    <3> HIDE DEF d, c
    <3>3. e \in Cursors /\ e.from = begin /\ e.to = to /\ e.rule = 1
      BY <2>2, <3>1 DEF Cursors
    <3> HIDE DEF e
    <3> QED BY <2>3, <3>2, <3>3 DEF Cursors
  <2> HIDE DEF c
  <2>6. begin \in begin .. to
    BY <2>2, <2>3, <2>4
  <2>7. Cutting'
    BY <1>2, <2>1, <2>5, <2>6 DEF Cutting
  <2> QED BY <1>1, <1>2, <2>1, <2>2, <2>3, <2>4, <2>5, <2>7 DEF SquareInv
<1> QED BY <1>6, <1>7

\* Once the windows are made, none has been asked for.
LEMMA AskingBegins ==
    ASSUME NEW w, NEW to \in Nat, to >= cursor.to, Tiling(w, cursor.from, to), SquareInv, stage = "split",
           windows' = w, stage' = "ask", query' = query, found' = found, slots' = slots,
           cursor'.from = cursor.from, cursor'.to = cursor.to, cursor'.rule = cursor.rule, cursor' \in Cursors
    PROVE  SquareInv'
<1>1. cursor.rule = 1 /\ found = {} /\ Len(w) \in Nat
  BY DEF SquareInv, Tiling
<1>2. 1 .. cursor.rule - 1 = {} /\ cursor.rule \in 1 .. Len(w) + 1
  BY <1>1
<1>3. Tiling(windows', cursor'.from, to)
  OBVIOUS
<1>4. Asked'
  BY <1>1, <1>2, <1>3 DEF Asked, Tiling
<1> QED BY <1>4 DEF SquareInv

LEMMA WidenShortKeeps == ASSUME SquareInv, WidenShort PROVE SquareInv'
<1>1. stage = "split" /\ cursor.from \in Nat /\ cursor.to \in Nat /\ cursor.from < cursor.to /\ cursor \in Cursors
  BY DEF WidenShort, SquareInv
<1>2. cursor.to < cursor.from + DayLen /\ cursor.from + DayLen \in Nat
  BY <1>1, RangeLimits DEF WidenShort
<1>3. Max({cursor.to, cursor.from + DayLen}) = cursor.from + DayLen
  BY <1>1, <1>2, MostOfTwo
<1>4. windows' = <<Window(cursor.from, cursor.from + DayLen)>> /\ stage' = "ask"
      /\ query' = query /\ cursor' = cursor /\ found' = found /\ slots' = slots
  BY <1>3 DEF WidenShort
<1>5. (cursor.from + DayLen) - cursor.from \in DayLen .. MaxRange
  BY <1>1, RangeLimits
<1>6. Tiling(windows', cursor.from, cursor.from + DayLen)
  BY <1>1, <1>2, <1>4, <1>5, FirstWindow
<1>7. PICK w : w = windows'
  OBVIOUS
<1>8. Tiling(w, cursor.from, cursor.from + DayLen)
  BY <1>6, <1>7
<1>9. PICK to \in Nat : to = cursor.from + DayLen
  BY <1>2
<1> QED BY <1>1, <1>2, <1>4, <1>7, <1>8, <1>9, AskingBegins

LEMMA SplitRangeKeeps == ASSUME SquareInv, SplitRange PROVE SquareInv'
<1> DEFINE left == cursor.to - cursor.minute
           end == Min({cursor.minute + MaxRange, cursor.to})
           seam == cursor.to - DayLen
<1>1. /\ stage = "split" /\ cursor.from \in Nat /\ cursor.to \in Nat /\ cursor.from < cursor.to
      /\ cursor \in Cursors /\ Cutting /\ cursor.rule = 1 /\ found = {}
  BY DEF SplitRange, SquareInv
<1>2. cursor.to - cursor.from >= DayLen /\ query' = query /\ found' = found /\ slots' = slots
  BY DEF SplitRange
<1>3. cursor.minute \in Nat /\ cursor.minute >= cursor.from /\ cursor.minute <= cursor.to
  BY <1>1 DEF Cutting
<1>4. CASE left = 0
  <2>1. stage' = "ask" /\ cursor' = cursor /\ windows' = windows
    BY <1>4 DEF SplitRange
  <2>2. cursor.minute = cursor.to
    BY <1>1, <1>3, <1>4
  <2>3. Tiling(windows, cursor.from, cursor.to)
    BY <1>1, <2>2 DEF Cutting
  <2>4. PICK w : w = windows
    OBVIOUS
  <2>5. Tiling(w, cursor.from, cursor.to) /\ windows' = w
    BY <2>1, <2>3, <2>4
  <2>6. PICK to \in Nat : to = cursor.to
    BY <1>1
  <2>7. Tiling(w, cursor.from, to) /\ to >= cursor.to
    BY <2>5, <2>6
  <2> QED BY <1>1, <1>2, <2>1, <2>5, <2>7, AskingBegins
<1>5. CASE left # 0 /\ RemainderShort(left)
  <2>1. /\ windows' = Front(windows) \o <<Window(Last(windows).from, seam), Window(seam, cursor.to)>>
        /\ cursor' = [cursor EXCEPT !.minute = cursor.to] /\ stage' = stage
    BY <1>5 DEF SplitRange
  <2>2. windows # <<>> /\ cursor.minute < cursor.to /\ cursor.to < cursor.minute + DayLen
    BY <1>1, <1>3, <1>5, RangeLimits DEF RemainderShort
  <2>3. Tiling(windows, cursor.from, cursor.minute)
        /\ windows[Len(windows)].to - windows[Len(windows)].from = MaxRange
    BY <1>1, <2>2 DEF Cutting
  <2>4. Tiling(windows', cursor.from, cursor.to)
    BY <1>1, <1>3, <2>1, <2>2, <2>3, SeamMoved
  <2>5. /\ cursor' \in Cursors /\ cursor'.minute = cursor.to /\ cursor'.from = cursor.from
        /\ cursor'.to = cursor.to /\ cursor'.rule = 1
    BY <1>1, <2>1 DEF Cursors
  <2>6. cursor.to \in cursor.from .. cursor.to
    BY <1>1
  <2>7. windows' # <<>>
    BY <2>4 DEF Tiling
  <2>8. Cutting'
    BY <1>1, <2>4, <2>5, <2>6, <2>7 DEF Cutting
  <2> QED BY <1>1, <1>2, <2>1, <2>5, <2>8 DEF SquareInv
<1>6. CASE left # 0 /\ ~RemainderShort(left)
  <2>1. windows' = Append(windows, Window(cursor.minute, end)) /\ cursor' = [cursor EXCEPT !.minute = end]
        /\ stage' = stage
    BY <1>6 DEF SplitRange
  <2>2. end = IF cursor.minute + MaxRange <= cursor.to THEN cursor.minute + MaxRange ELSE cursor.to
    BY <1>1, <1>3, RangeLimits, LeastOfTwo
  <2> HIDE DEF end
  <2>3. left >= DayLen
    <3>1. CASE windows = <<>>
      BY <1>1, <1>2, <3>1 DEF Cutting
    <3>2. CASE windows # <<>>
      BY <1>1, <1>3, <1>6, <3>2, RangeLimits DEF RemainderShort
    <3> QED BY <3>1, <3>2
  <2>4. end \in Nat /\ end - cursor.minute \in DayLen .. MaxRange /\ end <= cursor.to /\ end >= cursor.minute
        /\ (end < cursor.to => end - cursor.minute = MaxRange)
    BY <1>1, <1>3, <2>2, <2>3, RangeLimits
  <2>5. Tiling(windows', cursor.from, end)
    <3>1. CASE windows = <<>>
      <4>1. cursor.minute = cursor.from
        BY <1>1, <3>1 DEF Cutting
      <4>2. windows' = <<Window(cursor.from, end)>>
        BY <2>1, <3>1, <4>1
      <4> QED BY <1>1, <2>4, <4>1, <4>2, FirstWindow
    <3>2. CASE windows # <<>>
      <4>1. Tiling(windows, cursor.from, cursor.minute)
        BY <1>1, <3>2 DEF Cutting
      <4> QED BY <1>1, <1>3, <2>1, <2>4, <4>1, OneMoreWindow
    <3> QED BY <3>1, <3>2
  <2>6. windows' # <<>> /\ windows'[Len(windows')] = Window(cursor.minute, end)
    <3>1. CASE windows = <<>>
      BY <2>1, <3>1
    <3>2. CASE windows # <<>>
      <4>1. windows \in Seq(Spans)
        BY <1>1, <3>2 DEF Cutting, Tiling
      <4> QED BY <2>1, <4>1
    <3> QED BY <3>1, <3>2
  <2>7. /\ cursor' \in Cursors /\ cursor'.minute = end /\ cursor'.from = cursor.from
        /\ cursor'.to = cursor.to /\ cursor'.rule = 1
    BY <1>1, <2>1, <2>4 DEF Cursors
  <2>8. end \in cursor.from .. cursor.to
    BY <1>1, <1>3, <2>4
  <2>9. Cutting'
    BY <2>4, <2>5, <2>6, <2>7, <2>8 DEF Cutting, Window
  <2> QED BY <1>1, <1>2, <2>1, <2>7, <2>9 DEF SquareInv
<1> QED BY <1>4, <1>5, <1>6

LEMMA AskWindowKeeps == ASSUME SquareInv, AskWindow PROVE SquareInv'
<1> DEFINE n == cursor.rule
<1>1. /\ stage = "ask" /\ n <= Len(windows) /\ cursor \in Cursors /\ Asked /\ n \in Nat /\ n >= 1
      /\ cursor.from \in Nat /\ cursor.to \in Nat /\ cursor.from < cursor.to
  BY DEF AskWindow, SquareInv, Cursors, Asked
<1>2. /\ cursor' = [cursor EXCEPT !.rule = @ + 1] /\ query' = query /\ windows' = windows
      /\ stage' = stage /\ slots' = slots
  BY DEF AskWindow
<1>3. found' = found \cup {u \in query.open : (u >= windows[n].from /\ u < windows[n].to) /\ InRequest(u)}
  BY DEF AskWindow, OpenIn
<1>4. cursor' \in Cursors /\ cursor'.rule = n + 1 /\ cursor'.from = cursor.from /\ cursor'.to = cursor.to
  BY <1>1, <1>2 DEF Cursors
<1>5. Len(windows) \in Nat
  BY <1>1 DEF Asked, Tiling
<1> HIDE DEF n
<1>6. found = {u \in query.open : InRequest(u)
                    /\ \E i \in 1 .. n - 1 : u >= windows[i].from /\ u < windows[i].to}
  BY <1>1 DEF Asked, n
<1>7. \A i : i \in 1 .. n <=> (i \in 1 .. n - 1 \/ i = n)
  BY <1>1
<1>8. found' = {u \in query.open : InRequest(u)
                    /\ \E i \in 1 .. n : u >= windows[i].from /\ u < windows[i].to}
  BY <1>3, <1>6, <1>7
<1>9. (n + 1) - 1 = n /\ n + 1 \in 1 .. Len(windows) + 1
  BY <1>1, <1>5
<1>10. \A u : InRequest(u)' <=> InRequest(u)
  BY <1>4 DEF InRequest
<1>11. found' = {u \in query'.open : InRequest(u)'
                    /\ \E i \in 1 .. cursor'.rule - 1 : u >= windows'[i].from /\ u < windows'[i].to}
  BY <1>2, <1>4, <1>8, <1>9, <1>10
<1>12. \E to \in Nat : to >= cursor'.to /\ Tiling(windows', cursor'.from, to)
  BY <1>1, <1>2, <1>4 DEF Asked
<1>13. Asked'
  BY <1>2, <1>4, <1>9, <1>11, <1>12 DEF Asked
<1> QED BY <1>1, <1>2, <1>4, <1>13 DEF SquareInv

LEMMA FinishAskingKeeps == ASSUME SquareInv, FinishAsking PROVE SquareInv'
<1>1. /\ query' = query /\ cursor' = cursor /\ windows' = windows /\ found' = found /\ slots' = slots
      /\ stage = "ask" /\ stage' = "done" /\ cursor.rule > Len(windows)
  BY DEF FinishAsking
<1>2. Asked'
  BY <1>1 DEF SquareInv, Asked, InRequest
<1> QED BY <1>1, <1>2 DEF SquareInv

\* When every window has been asked for, every open time of the request is kept.
LEMMA SquareIsExact == ASSUME SquareInv, stage = "done" PROVE SquareSearchExact
<1>1. Asked /\ cursor.rule > Len(windows) /\ SquareFits(query) /\ cursor.from \in Nat /\ cursor.to \in Nat
      /\ cursor \in Cursors
  BY DEF SquareInv
<1>2. PICK to \in Nat : to >= cursor.to /\ Tiling(windows, cursor.from, to)
  BY <1>1 DEF Asked
<1>3. Len(windows) \in Nat /\ DOMAIN windows = 1 .. Len(windows) /\ cursor.rule \in 1 .. Len(windows) + 1
  BY <1>1, <1>2 DEF Asked, Tiling
<1>4. cursor.rule - 1 = Len(windows)
  BY <1>1, <1>3
<1>5. ASSUME NEW u \in query.open, InRequest(u)
      PROVE  \E i \in 1 .. cursor.rule - 1 : u >= windows[i].from /\ u < windows[i].to
  <2>1. u \in Nat
    BY <1>1 DEF SquareFits
  <2>2. u >= cursor.from /\ u < to
    BY <1>1, <1>2, <1>5, <2>1 DEF InRequest
  <2> QED BY <1>2, <1>3, <1>4, <2>1, <2>2 DEF Tiling
<1>6. found = {u \in query.open : InRequest(u)}
  BY <1>1, <1>5 DEF Asked
<1>7. windows[1].from = cursor.from /\ Last(windows).to >= cursor.to
  BY <1>2 DEF Tiling, Last
<1> QED BY <1>2, <1>6, <1>7 DEF SquareSearchExact, Tiling

SlotInv ==
    /\ query \in Queries
    /\ \/ query.kind = "native" /\ NativeInv
       \/ query.kind = "square" /\ SquareInv

LEMMA SlotStart == ASSUME SlotInit PROVE SlotInv
<1>1. cursor \in Cursors /\ cursor.rule = 1
  BY DEF SlotInit, Cursors
<1>2. query \in Queries /\ stage = "start" /\ windows = <<>> /\ found = {} /\ slots = <<>>
  BY DEF SlotInit
<1>3. CASE query.kind = "native" /\ NativeFits(query)
  <2>1. Len(query.rules) \in Nat
    BY <1>3 DEF NativeFits
  <2>2. ZoneFits(query.zone)
    BY <1>2, QueriesFit
  <2> QED BY <1>1, <1>2, <1>3, <2>1, <2>2 DEF SlotInv, NativeInv
<1>4. CASE query.kind = "square" /\ SquareFits(query)
  BY <1>1, <1>2, <1>4, QueriesFit DEF SlotInv, SquareInv
<1> QED BY <1>2, <1>3, <1>4, QueriesFit

LEMMA SlotStep == ASSUME SlotInv, [SlotNext]_svars PROVE SlotInv'
<1>1. query' = query
  BY DEF SlotNext, svars, StartNative, EnterRule, TryMinute, NextDate, FinishWalk, ResolveDates, WidenShort,
         SplitRange, AskWindow, FinishAsking
<1>2. CASE UNCHANGED svars
  <2>1. NativeInv => NativeInv'
    <3> SUFFICES ASSUME NativeInv PROVE NativeInv'
      OBVIOUS
    <3>1. SlotsRight(cursor, slots) => SlotsRight(cursor, slots)'
      BY <1>1, <1>2, StillRight DEF svars
    <3> QED BY <1>2, <3>1 DEF svars, NativeInv, Standing, LastDate
  <2>2. SquareInv => SquareInv'
    BY <1>2 DEF svars, SquareInv, Cutting, Asked, InRequest
  <2> QED BY <1>1, <2>1, <2>2 DEF SlotInv
<1>3. CASE SlotNext /\ query.kind = "native"
  <2>1. NativeInv /\ query.kind = "native"
    BY <1>3 DEF SlotInv
  <2>2. stage \in {"start", "walk", "done"}
    BY <2>1 DEF NativeInv
  <2>3. StartNative \/ EnterRule \/ TryMinute \/ NextDate \/ FinishWalk
    BY <1>3, <2>1, <2>2 DEF SlotNext, ResolveDates, WidenShort, SplitRange, AskWindow, FinishAsking
  <2>4. NativeInv'
    BY <2>1, <2>3, StartNativeKeeps, EnterRuleKeeps, TryMinuteKeeps, NextDateKeeps, FinishWalkKeeps
  <2> QED BY <1>1, <2>1, <2>4 DEF SlotInv
<1>4. CASE SlotNext /\ query.kind = "square"
  <2>1. SquareInv /\ query.kind = "square"
    BY <1>4 DEF SlotInv
  <2>2. stage # "walk"
    BY <2>1 DEF SquareInv
  <2>3. ResolveDates \/ WidenShort \/ SplitRange \/ AskWindow \/ FinishAsking
    BY <1>4, <2>1, <2>2 DEF SlotNext, StartNative, EnterRule, TryMinute, NextDate, FinishWalk
  <2>4. SquareInv'
    BY <2>1, <2>3, ResolveDatesKeeps, WidenShortKeeps, SplitRangeKeeps, AskWindowKeeps, FinishAskingKeeps
  <2> QED BY <1>1, <2>1, <2>4 DEF SlotInv
<1> QED BY <1>2, <1>3, <1>4 DEF SlotInv

LEMMA NativeTypes == ASSUME NativeInv PROVE SlotTypeOK
<1>1. slots \in Seq(0 .. LastTime)
  <2>1. CASE slots = <<>>
    BY <2>1
  <2>2. CASE slots # <<>>
    <3>1. SlotsRight(cursor, slots)
      BY <2>2 DEF NativeInv
    <3> QED BY <3>1 DEF SlotsRight
  <2> QED BY <2>1, <2>2
<1> DEFINE Times == 0 .. LastTime
<1>2. Times \subseteq 0 .. LastTime + DayLen
  <2>1. LastTime \in Nat /\ DayLen \in Nat
    BY SlotBounds
  <2> QED BY <2>1
<1> HIDE DEF Times
<1>3. \A i \in DOMAIN slots : slots[i] \in 0 .. LastTime + DayLen
  <2>1. slots \in Seq(Times)
    BY <1>1 DEF Times
  <2>2. \A i \in DOMAIN slots : slots[i] \in Times
    BY <2>1
  <2> QED BY <1>2, <2>2
<1>4. DOMAIN windows = {}
  BY DEF NativeInv
<1> QED BY <1>3, <1>4 DEF NativeInv, SlotTypeOK

LEMMA SquareTypes == ASSUME SquareInv PROVE SlotTypeOK
<1>1. windows = <<>> \/ \E from, to : Tiling(windows, from, to)
  BY DEF SquareInv, Cutting, Asked
<1>2. \A i \in DOMAIN windows : windows[i].from < windows[i].to
  <2>1. CASE windows = <<>>
    BY <2>1
  <2>2. CASE \E from, to : Tiling(windows, from, to)
    <3> SUFFICES ASSUME NEW i \in DOMAIN windows PROVE windows[i].from < windows[i].to
      OBVIOUS
    <3>1. windows \in Seq(Spans) /\ windows[i].to - windows[i].from \in DayLen .. MaxRange
      BY <2>2 DEF Tiling
    <3>2. windows[i] \in Spans
      BY <3>1
    <3>3. windows[i].from \in Nat /\ windows[i].to \in Nat
      BY <3>2 DEF Spans
    <3> QED BY <3>1, <3>3, RangeLimits
  <2> QED BY <1>1, <2>1, <2>2
<1>3. DOMAIN slots = {} /\ stage \in {"start", "refused", "split", "ask", "done"}
  BY DEF SquareInv
<1> QED BY <1>2, <1>3 DEF SlotTypeOK

(* Free times are found exactly, for any hours, appointments, zone, dates  *)
(* and lengths: the native search offers every time the studio's clock     *)
(* shows on a step of the hours that is free, each once, across the        *)
(* changes of the clock; and the windows asked of Square tile the request  *)
(* within its limits, so that no open time is lost at a seam.              *)
THEOREM FreeTimesExactly == SlotSpec => []SlotsSafe
<1>1. SlotInit => SlotInv
  BY SlotStart
<1>2. SlotInv /\ [SlotNext]_svars => SlotInv'
  BY SlotStep
<1>3. SlotInv => SlotsSafe
  <2> SUFFICES ASSUME SlotInv PROVE SlotsSafe
    OBVIOUS
  <2>1. CASE query.kind = "native" /\ NativeInv
    BY <2>1, NativeTypes, WalkIsExact DEF SlotsSafe, NativeSlotsExact, SquareSearchExact
  <2>2. CASE query.kind = "square" /\ SquareInv
    BY <2>2, SquareTypes, SquareIsExact DEF SlotsSafe, NativeSlotsExact, SquareSearchExact
  <2> QED BY <2>1, <2>2 DEF SlotInv
<1> QED BY <1>1, <1>2, <1>3, PTL DEF SlotSpec
=============================================================================
