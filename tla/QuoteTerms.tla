------------------------------ MODULE QuoteTerms ------------------------------
(***************************************************************************)
(* Artist-approved quotes of one conversation.  The quote is a log of      *)
(* events whose newest entry counts: the artist approves a price, leaves   *)
(* the scheduling to the receptionist or links a Square booking, the       *)
(* receptionist presents the terms, the client agrees, a deposit is asked. *)
(*                                                                         *)
(* Staff requests and runs of the receptionist read the log without a lock *)
(* and write later; only saving a quote and booking an approved one lock   *)
(* the conversation, for which everybody who adds a message or an event to *)
(* it waits, too.  A run answers under the number of client messages it    *)
(* started with.  Events are in the order of their commits, which is that  *)
(* of their times but for transactions that begin at the same moment.      *)
(***************************************************************************)
EXTENDS Naturals, Sequences, SequencesExt, FiniteSets

CONSTANTS
    Artists,    \* requests of the studio
    Runs,       \* runs of the receptionist
    Prices,     \* approved prices
    LastLine,   \* bound on the messages
    LastEvent,  \* bound on the quote events
    LastTool    \* bound on the tools one run calls (10 in the program)

ASSUME QuoteBounds == LastLine \in Nat /\ LastEvent \in Nat /\ LastTool \in Nat

VARIABLES
    flags,     \* the conversation's row: aiEnabled and status
    lines,     \* messages; terms: the quoteTerms of a reply; shown: the provider took it
    quotes,    \* quote events in order
    visits,    \* appointments made for quotes: their price, their Square booking, deposit asked
    artist,    \* the requests of the studio
    run        \* the runs of the receptionist

quoteVars == <<flags, lines, quotes, visits, artist, run>>

Kinds == {"REQUESTED", "APPROVED", "AI_SCHEDULING", "LINKED", "ACCEPTED"}
NoTerms == [visit |-> 0, price |-> 0]
NoQuote == [kind |-> "REQUESTED", price |-> 0, visit |-> 0]
ClientLine(word) == [who |-> "client", says |-> word, terms |-> NoTerms, shown |-> TRUE, gone |-> FALSE]
MaiaLine == [who |-> "maia", says |-> "reply", terms |-> NoTerms, shown |-> FALSE, gone |-> FALSE]
IdleArtist == [pc |-> "idle", does |-> "APPROVE", copy |-> NoQuote, at |-> 0]
IdleRun == [pc |-> "idle", seen |-> 0, copy |-> NoQuote, terms |-> NoTerms, line |-> 0, tools |-> 0,
            handoff |-> FALSE]

\* Every row has its type, and a linked quote names an appointment that exists.
QuoteTypeOK ==
    /\ flags \in [ai : BOOLEAN, status : {"OPEN", "AWAITING_QUOTE", "QUOTE_APPROVED", "BOOKING_LINKED"}]
    /\ \A i \in 1..Len(lines) :
        /\ lines[i].who \in {"client", "maia"} /\ lines[i].gone => ~lines[i].shown
        /\ lines[i].terms.visit \in 0..Len(visits)
    /\ \A e \in 1..Len(quotes) :
        /\ quotes[e].kind \in Kinds
        /\ quotes[e].kind \in {"LINKED", "ACCEPTED"} <=> quotes[e].visit \in 1..Len(visits)
        /\ quotes[e].kind # "REQUESTED" => quotes[e].price \in Prices
    /\ \A r \in Runs : run[r].tools \in 0..LastTool

QuoteInit ==
    /\ flags = [ai |-> TRUE, status |-> "OPEN"]
    /\ lines = <<>> /\ quotes = <<>> /\ visits = <<>>
    /\ artist = [a \in Artists |-> IdleArtist] /\ run = [r \in Runs |-> IdleRun]

-----------------------------------------------------------------------------
(* Reads.                                                                   *)

\* getConversationQuote: a request for a quote is no quote.
Quote == IF quotes = <<>> THEN NoQuote ELSE Last(quotes)
Bookable(q) == q.kind \in {"APPROVED", "AI_SCHEDULING"}
HasBooking(q) == q.kind \in {"LINKED", "ACCEPTED"}

Said(who) == {i \in 1..Len(lines) : lines[i].who = who /\ ~lines[i].gone}
Newest(S) == CHOOSE i \in S : \A j \in S : j <= i
Count == Cardinality(Said("client"))

\* shouldRunAi, and the automation guard: no client message came in since.
AiMayRun == flags.ai /\ flags.status # "AWAITING_QUOTE"
Guarded(r) == AiMayRun /\ run[r].seen = Count

\* The conversation's lock is held while Square books; a new message or event
\* refers to the conversation and waits.
LockFree == \A r \in Runs : run[r].pc # "square"

LogEvent(kind, q) == Len(quotes) < LastEvent /\ quotes' = Append(quotes, [q EXCEPT !.kind = kind])

-----------------------------------------------------------------------------
(* The client and the inbox.                                                *)

ClientWrites(word) ==
    /\ LockFree /\ Len(lines) < LastLine
    /\ lines' = Append(lines, ClientLine(word))
    /\ UNCHANGED <<flags, quotes, visits, artist, run>>

\* "Return to AI" and "Take over"
FlipAi ==
    /\ LockFree
    /\ flags' = IF flags.ai THEN [flags EXCEPT !.ai = FALSE] ELSE [ai |-> TRUE, status |-> "OPEN"]
    /\ UNCHANGED <<lines, quotes, visits, artist, run>>

-----------------------------------------------------------------------------
(* The artist's decisions.                                                  *)

\* The read before the transaction; Square is asked about the booking after it.
DecideQuote(a, does) ==
    /\ artist[a].pc = "idle"
    /\ CASE does = "APPROVE" -> ~HasBooking(Quote)
         [] does \in {"AI_SCHEDULING", "MANUAL"} -> Bookable(Quote) /\ does # Quote.kind
         [] does = "LINK" -> Quote.kind = "APPROVED"
    /\ \E p \in Prices : \E at \in 1..2 :
        /\ does = "LINK" \/ at = 1
        /\ does = "APPROVE" \/ p = Quote.price
        /\ artist' = [artist EXCEPT ![a] = [pc |-> "save", does |-> does, at |-> at,
                                            copy |-> [Quote EXCEPT !.price = p, !.visit = 0]]]
    /\ UNCHANGED <<flags, lines, quotes, visits, run>>

\* Faulty variant: the decision is saved whatever the quote has become.
DecidedAnyway(a) == TRUE

\* The check under the lock: not booked meanwhile, and still the terms that were read.
StillDecided(a) ==
    LET q == Quote  c == artist[a].copy IN
    /\ ~HasBooking(q)
    /\ artist[a].does \in {"AI_SCHEDULING", "MANUAL"} => Bookable(q) /\ q.price = c.price
    /\ artist[a].does = "LINK" => q.kind = "APPROVED" /\ q.price = c.price

\* A booking already recorded for the conversation is reused as it is.
VisitAt(at) == {v \in 1..Len(visits) : visits[v].at = at}

SaveQuote(a) ==
    /\ artist[a].pc = "save" /\ LockFree
    /\ artist' = [artist EXCEPT ![a].pc = "done"]
    /\ LET c == artist[a].copy IN
        IF ~StillDecided(a) THEN UNCHANGED <<flags, quotes, visits>>
        ELSE CASE artist[a].does = "APPROVE" ->
                    LogEvent("APPROVED", c) /\ flags' = [ai |-> FALSE, status |-> "QUOTE_APPROVED"] /\ UNCHANGED visits
               [] artist[a].does = "MANUAL" ->
                    LogEvent("APPROVED", c) /\ flags' = [ai |-> FALSE, status |-> "QUOTE_APPROVED"] /\ UNCHANGED visits
               [] artist[a].does = "AI_SCHEDULING" ->
                    LogEvent("AI_SCHEDULING", c) /\ flags' = [ai |-> TRUE, status |-> "OPEN"] /\ UNCHANGED visits
               [] artist[a].does = "LINK" ->
                    /\ flags' = [ai |-> FALSE, status |-> "BOOKING_LINKED"]
                    /\ IF VisitAt(artist[a].at) = {}
                       THEN /\ visits' = Append(visits, [price |-> c.price, at |-> artist[a].at, asked |-> 0])
                            /\ LogEvent("LINKED", [c EXCEPT !.visit = Len(visits) + 1])
                       ELSE /\ UNCHANGED visits
                            /\ LogEvent("LINKED", [c EXCEPT !.visit = Newest(VisitAt(artist[a].at))])
    /\ UNCHANGED <<lines, run>>

-----------------------------------------------------------------------------
(* A run of the receptionist.                                               *)

\* A client with a booking who asks for another tattoo starts a new request.
BeginRun(r) ==
    /\ run[r].pc = "idle" /\ AiMayRun /\ Said("client") # {}
    /\ run' = [run EXCEPT ![r].seen = Count, ![r].copy = Quote,
                          ![r].pc = IF HasBooking(Quote) /\ lines[Newest(Said("client"))].says = "another"
                                    THEN "inquiry" ELSE "think"]
    /\ UNCHANGED <<flags, lines, quotes, visits, artist>>

OpenInquiry(r) ==
    /\ run[r].pc = "inquiry" /\ Guarded(r) /\ LockFree /\ LogEvent("REQUESTED", NoQuote)
    /\ run' = [run EXCEPT ![r].pc = "think", ![r].copy = NoQuote]
    /\ UNCHANGED <<flags, lines, visits, artist>>

Calls(r) == run[r].pc = "think" /\ Guarded(r) /\ run[r].tools < LastTool

\* presentQuoteTerms
PresentTerms(r) ==
    /\ Calls(r) /\ Quote.kind = "LINKED"
    /\ run' = [run EXCEPT ![r].terms = [visit |-> Quote.visit, price |-> Quote.price], ![r].tools = @ + 1]
    /\ UNCHANGED <<flags, lines, quotes, visits, artist>>

RequestQuote(r) ==
    /\ Calls(r) /\ run[r].copy.kind = "REQUESTED"
    /\ run' = [run EXCEPT ![r].handoff = TRUE, ![r].tools = @ + 1]
    /\ UNCHANGED <<flags, lines, quotes, visits, artist>>

\* createApprovedQuoteBooking: the lock is taken, the quote read, Square asked ...
BookQuote(r) ==
    /\ Calls(r) /\ LockFree /\ flags = [ai |-> TRUE, status |-> "OPEN"]
    /\ run[r].copy.kind = "AI_SCHEDULING" /\ Quote.kind = "AI_SCHEDULING"
    /\ run' = [run EXCEPT ![r].pc = "square", ![r].copy = Quote, ![r].tools = @ + 1]
    /\ UNCHANGED <<flags, lines, quotes, visits, artist>>

\* ... and the appointment recorded; the terms are presented at once.
RecordVisit(r) ==
    /\ run[r].pc = "square"
    /\ LET n == Len(visits) + 1 IN
        /\ visits' = Append(visits, [price |-> run[r].copy.price, at |-> 2 + n, asked |-> 0])
        /\ LogEvent("LINKED", [run[r].copy EXCEPT !.visit = n])
        /\ run' = [run EXCEPT ![r].pc = "think", ![r].terms = [visit |-> n, price |-> run[r].copy.price]]
    /\ UNCHANGED <<flags, lines, artist>>

\* Square refused the slot, or the process stopped and its transaction was rolled back.
SquareFails(r) ==
    /\ run[r].pc = "square" /\ run' = [run EXCEPT ![r].pc = "done"]
    /\ UNCHANGED <<flags, lines, quotes, visits, artist>>

\* acceptApprovedQuote: the quote ...
ReadAgreement(r) ==
    /\ Calls(r) /\ Quote.kind = "LINKED"
    /\ run' = [run EXCEPT ![r].pc = "agree", ![r].copy = Quote, ![r].tools = @ + 1]
    /\ UNCHANGED <<flags, lines, quotes, visits, artist>>

\* matchesConfirmedQuoteTerms: the last reply presented these terms, the client agreed after it.
AgreedTo(q) ==
    /\ Said("client") # {} /\ Said("maia") # {}
    /\ Newest(Said("maia")) < Newest(Said("client"))
    /\ lines[Newest(Said("client"))].says = "yes"
    /\ lines[Newest(Said("maia"))].terms = [visit |-> q.visit, price |-> q.price]

\* ... the messages ...
CheckAgreement(r) ==
    /\ run[r].pc = "agree"
    /\ run' = [run EXCEPT ![r].pc = IF AgreedTo(run[r].copy) THEN "accept" ELSE "think"]
    /\ UNCHANGED <<flags, lines, quotes, visits, artist>>

\* ... and the event, whatever was recorded meanwhile.
WriteAgreement(r) ==
    /\ run[r].pc = "accept" /\ LockFree /\ LogEvent("ACCEPTED", run[r].copy)
    /\ run' = [run EXCEPT ![r].pc = "think", ![r].terms = NoTerms]
    /\ UNCHANGED <<flags, lines, visits, artist>>

\* create_deposit_request of an accepted quote
AskDeposit(r) ==
    /\ Calls(r) /\ Quote.kind = "ACCEPTED"
    /\ visits' = [visits EXCEPT ![Quote.visit].asked = Quote.price]
    /\ run' = [run EXCEPT ![r].tools = @ + 1]
    /\ UNCHANGED <<flags, lines, quotes, artist>>

\* sendMessage stores the reply; its metadata follow.
StoreReply(r) ==
    /\ run[r].pc = "think" /\ Guarded(r) /\ LockFree /\ Len(lines) < LastLine
    /\ lines' = Append(lines, MaiaLine)
    /\ run' = [run EXCEPT ![r].pc = "mark", ![r].line = Len(lines) + 1]
    /\ UNCHANGED <<flags, quotes, visits, artist>>

MarkReply(r) ==
    /\ run[r].pc = "mark"
    /\ lines' = [lines EXCEPT ![run[r].line].terms = run[r].terms]
    /\ run' = [run EXCEPT ![r].pc = "deliver"]
    /\ UNCHANGED <<flags, quotes, visits, artist>>

\* The provider takes the reply, fails, or the guard withdraws it before the call.
DeliverReply(r) ==
    /\ run[r].pc = "deliver"
    /\ \/ Guarded(r) /\ lines' = [lines EXCEPT ![run[r].line].shown = TRUE]
          /\ run' = [run EXCEPT ![r].pc = IF run[r].handoff THEN "handoff" ELSE "done"]
       \/ Guarded(r) /\ UNCHANGED lines /\ run' = [run EXCEPT ![r].pc = "done"]
       \/ ~Guarded(r) /\ lines' = [lines EXCEPT ![run[r].line].gone = TRUE]
          /\ run' = [run EXCEPT ![r].pc = "done"]
    /\ UNCHANGED <<flags, quotes, visits, artist>>

\* finalizeQuoteHandoff
HandOff(r) ==
    /\ run[r].pc = "handoff" /\ LockFree /\ run' = [run EXCEPT ![r].pc = "done"]
    /\ IF flags = [ai |-> TRUE, status |-> "OPEN"]
       THEN flags' = [ai |-> FALSE, status |-> "AWAITING_QUOTE"] /\ LogEvent("REQUESTED", NoQuote)
       ELSE UNCHANGED <<flags, quotes>>
    /\ UNCHANGED <<lines, visits, artist>>

RunStep(r) ==
    \/ BeginRun(r) \/ OpenInquiry(r) \/ PresentTerms(r) \/ RequestQuote(r) \/ BookQuote(r) \/ RecordVisit(r)
    \/ SquareFails(r) \/ ReadAgreement(r) \/ CheckAgreement(r) \/ WriteAgreement(r) \/ AskDeposit(r)
    \/ StoreReply(r) \/ MarkReply(r) \/ DeliverReply(r) \/ HandOff(r)

QuoteNext ==
    \/ \E word \in {"yes", "another"} : ClientWrites(word)
    \/ FlipAi
    \/ \E a \in Artists : SaveQuote(a) \/ \E does \in {"APPROVE", "AI_SCHEDULING", "MANUAL", "LINK"} : DecideQuote(a, does)
    \/ \E r \in Runs : RunStep(r)

QuoteSpec == QuoteInit /\ [][QuoteNext]_quoteVars

-----------------------------------------------------------------------------
(* Every appointment is booked under the price in force: no request that   *)
(* read an older quote books, or links, after the artist changed it, and   *)
(* nothing is booked for a quote twice.                                    *)
BookedAtApproved ==
    [][Len(quotes') > Len(quotes) /\ Last(quotes').kind = "LINKED" =>
        Bookable(Quote) /\ Last(quotes').price = Quote.price]_quoteVars

\* The reply at i presented the terms and the client's next word, at j, was yes.
AgreedIn(i, j, v) ==
    /\ lines[i].who = "maia" /\ lines[i].terms = [visit |-> v, price |-> visits[v].asked]
    /\ lines[j].says = "yes"
    /\ \A k \in (i + 1)..(j - 1) : lines[k].who = "maia" => lines[k].gone

(* A deposit is asked for an appointment only after a reply presented its  *)
(* price and time and the client said yes to that reply and no other,      *)
(* across inquiries, approvals and runs that overlap.                      *)
DepositAgreed ==
    \A v \in 1..Len(visits) : visits[v].asked # 0 =>
        \E j \in 1..Len(lines) : \E i \in 1..(j - 1) : AgreedIn(i, j, v)

\* What the run checks of quotes: booked at the approved price, deposit agreed to.
QuotesSafe == []QuoteTypeOK /\ []DepositAgreed /\ BookedAtApproved
=============================================================================
