-------------------------- MODULE FrontDeskProofs --------------------------
(***************************************************************************)
(* Proofs about the front desk's small parts: the receptionist's turns,    *)
(* consent to text, draft replies, the accounts of the studio's people,    *)
(* and what clients are told of its places and its work, each for every    *)
(* number of requests.                                                     *)
(***************************************************************************)
EXTENDS SmsConsent, ReplyDrafts, AgentTurn, StudioAccounts, StudioFacts,
        FiniteSetTheorems, TLAPS

-----------------------------------------------------------------------------
(* The receptionist's turns.                                                *)

\* A turn that prepares a draft only ever drafts; once approval is required, no turn
\* that had not passed its last look gets past it; while a person has the conversation,
\* no turn between two checks gets past the next one.
TurnGuards ==
    /\ \A t \in Turns : kind[t] = "prepare" /\ turn[t].pc \in {"model", "tool", "store", "check", "send"}
                          => turn[t].drafting
    /\ \A t \in Turns : turn[t].pc = "tool" => turn[t].step \in 1..LastStep
    /\ \A t \in unapproved : turn[t].pc # "send" /\ t \notin delivered
    /\ unapproved # {} => EffectiveMode(supervised, chat.override) = "DRAFT"
    /\ \A t \in stopped : turn[t].pc \notin {"tool", "send"}
    /\ stopped # {} => chat.mode = "HUMAN"

TurnInv == TurnTypeOK /\ TurnGuards

LEMMA TurnStarts == TurnInit => TurnInv
<1> SUFFICES ASSUME TurnInit PROVE TurnInv
  OBVIOUS
<1>1. TurnTypeOK
  BY TurnBounds DEF TurnInit, TurnTypeOK, Conversation
<1>2. \A t \in Turns : turn[t].pc = "idle"
  BY DEF TurnInit
<1>3. TurnGuards
  BY <1>2 DEF TurnInit, TurnGuards
<1> QED BY <1>1, <1>3 DEF TurnInv

TurnStates ==
    [pc : {"idle", "artist", "conversation", "model", "tool", "store", "check", "send", "done"},
     strict : BOOLEAN, drafting : BOOLEAN, seen : 0 .. LastVersion, step : 0 .. LastStep]

\* What a step of one turn does to it: it keeps to drafting, passes the guards only
\* as they allow, and the conversation changes only as told.
Proceeds(t, new) ==
    /\ new \in TurnStates
    /\ turn' = [turn EXCEPT ![t] = new]
    /\ kind[t] = "prepare" /\ new.pc \in {"model", "tool", "store", "check", "send"} => new.drafting
    /\ new.pc = "tool" => chat.mode = "AI" /\ new.step \in 1..LastStep
    /\ new.pc = "send" => EffectiveMode(supervised, chat.override) # "DRAFT" /\ chat.mode = "AI"
    /\ UNCHANGED <<supervised, kind, unapproved>>

LEMMA Advances ==
    ASSUME TurnInv, NEW t \in Turns, NEW pc, To(t, pc), UNCHANGED <<supervised, kind, unapproved>>,
           pc \in {"artist", "model", "store", "check", "send", "done"},
           pc \in {"model", "store", "check", "send"} => turn[t].pc \in {"model", "tool", "store", "check", "send"},
           pc = "send" => EffectiveMode(supervised, chat.override) # "DRAFT" /\ chat.mode = "AI"
    PROVE  \E new : Proceeds(t, new) /\ new.pc = pc /\ new.drafting = turn[t].drafting
<1> DEFINE new == [turn[t] EXCEPT !.pc = pc]
<1>1. turn[t] \in TurnStates
  BY DEF TurnInv, TurnTypeOK, TurnStates
<1>2. new \in TurnStates /\ new.pc = pc /\ new.drafting = turn[t].drafting
  BY <1>1 DEF TurnStates
<1>3. turn' = [turn EXCEPT ![t] = new]
  BY DEF To
<1>4. kind[t] = "prepare" /\ pc \in {"model", "store", "check", "send"} => turn[t].drafting
  BY DEF TurnInv, TurnGuards
<1>5. Proceeds(t, new)
  <2> HIDE DEF new
  <2> QED BY <1>2, <1>3, <1>4 DEF Proceeds
<1> QED BY <1>2, <1>5

LEMMA ProceedingKeeps ==
    ASSUME TurnInv, NEW t \in Turns, NEW new, Proceeds(t, new),
           chat' \in Conversation, chat'.override = chat.override,
           chat.mode = "HUMAN" => chat'.mode = "HUMAN",
           stopped' = stopped \/ (stopped' = Unchecked(turn') /\ chat'.mode = "HUMAN"),
           \/ delivered' = delivered
           \/ turn[t].pc = "send" /\ new.pc = "done" /\ delivered' = delivered \cup {t},
           acted' \subseteq Turns \X (1 .. LastStep), latest' \in {"client", "maia"}
    PROVE  TurnInv'
<1>1. /\ turn \in [Turns -> TurnStates] /\ new \in TurnStates
      /\ kind' = kind /\ unapproved' = unapproved /\ supervised' = supervised
      /\ unapproved \subseteq Turns /\ stopped \subseteq Turns /\ delivered \subseteq Turns
  BY DEF TurnInv, TurnTypeOK, TurnStates, Proceeds
<1>2. turn' \in [Turns -> TurnStates] /\ turn'[t] = new /\ \A u \in Turns : u # t => turn'[u] = turn[u]
  BY <1>1 DEF Proceeds
<1>3. TurnTypeOK'
  <2>1. delivered' \subseteq Turns
    BY <1>1
  <2>2. stopped' \subseteq Turns
    BY <1>1 DEF Unchecked
  <2> QED BY <1>1, <1>2, <2>1, <2>2 DEF TurnInv, TurnTypeOK, TurnStates
<1>4. EffectiveMode(supervised, chat.override)' = EffectiveMode(supervised, chat.override)
  BY <1>1 DEF EffectiveMode
<1>5. ASSUME NEW u \in Turns, kind[u] = "prepare", turn'[u].pc \in {"model", "tool", "store", "check", "send"}
      PROVE  turn'[u].drafting
  BY <1>2, <1>5 DEF TurnInv, TurnGuards, Proceeds
<1>6. ASSUME NEW u \in unapproved PROVE turn'[u].pc # "send" /\ u \notin delivered'
  BY <1>1, <1>2, <1>6 DEF TurnInv, TurnGuards, Proceeds
<1>7. ASSUME NEW u \in stopped' PROVE turn'[u].pc \notin {"tool", "send"}
  <2>1. CASE stopped' = stopped
    <3>1. u \in Turns /\ chat.mode = "HUMAN" /\ turn[u].pc \notin {"tool", "send"}
      BY <1>1, <1>7, <2>1 DEF TurnInv, TurnGuards
    <3> QED BY <1>2, <3>1 DEF Proceeds
  <2>2. CASE stopped' = Unchecked(turn')
    BY <1>7, <2>2 DEF Unchecked
  <2> QED BY <2>1, <2>2
<1>8. stopped' # {} => chat'.mode = "HUMAN"
  BY DEF TurnInv, TurnGuards
<1>9. unapproved' # {} => EffectiveMode(supervised, chat.override)' = "DRAFT"
  BY <1>1, <1>4 DEF TurnInv, TurnGuards
<1>10. \A u \in Turns : turn'[u].pc = "tool" => turn'[u].step \in 1..LastStep
  BY <1>2 DEF TurnInv, TurnGuards, Proceeds
<1>11. TurnGuards'
  BY <1>1, <1>5, <1>6, <1>7, <1>8, <1>9, <1>10 DEF TurnGuards
<1> QED BY <1>3, <1>11 DEF TurnInv

\* A step of a turn keeps the invariant: one case for each action.
LEMMA TurnStepKeeps ==
    ASSUME TurnInv, NEW t \in Turns, TurnStep(t) PROVE TurnInv'
<1>1. /\ turn[t] \in TurnStates /\ chat \in Conversation /\ latest \in {"client", "maia"}
      /\ acted \subseteq Turns \X (1 .. LastStep) /\ kind[t] \in {"message", "prepare"}
  BY TurnBounds DEF TurnInv, TurnTypeOK, TurnStates
<1> DEFINE Quiet == /\ chat' \in Conversation /\ chat'.override = chat.override
                    /\ chat.mode = "HUMAN" => chat'.mode = "HUMAN"
                    /\ stopped' = stopped \/ (stopped' = Unchecked(turn') /\ chat'.mode = "HUMAN")
                    /\ acted' \subseteq Turns \X (1 .. LastStep) /\ latest' \in {"client", "maia"}
<1>2. ASSUME Quiet, NEW new, Proceeds(t, new),
             \/ delivered' = delivered
             \/ turn[t].pc = "send" /\ new.pc = "done" /\ delivered' = delivered \cup {t}
      PROVE  TurnInv'
  BY <1>2, ProceedingKeeps
<1>3. CASE ClientMessage(t)
  <2>1. Quiet /\ delivered' = delivered
    BY <1>1, <1>3, TurnBounds DEF ClientMessage, Conversation
  <2>2. \E pc \in {"artist", "done"} : To(t, pc)
    BY <1>3 DEF ClientMessage
  <2>3. \E new : Proceeds(t, new)
    BY <1>3, <2>2, Advances DEF ClientMessage
  <2> HIDE DEF Quiet
  <2> QED BY <1>2, <2>1, <2>3
<1>4. CASE PrepareDraft(t) \/ ComposeReply(t) \/ StoreDirectReply(t) \/ FileDraft(t) \/ TurnEnds(t)
  <2>1. Quiet /\ delivered' = delivered /\ UNCHANGED <<supervised, kind, unapproved>>
    BY <1>1, <1>4 DEF PrepareDraft, ComposeReply, StoreDirectReply, FileDraft, TurnEnds
  <2>2. \E pc \in {"artist", "store", "check", "done"} :
          To(t, pc) /\ (pc \in {"store", "check"} => turn[t].pc \in {"model", "store"})
    BY <1>4 DEF PrepareDraft, ComposeReply, StoreDirectReply, FileDraft, TurnEnds, At
  <2>3. PICK pc \in {"artist", "store", "check", "done"} :
          To(t, pc) /\ (pc \in {"store", "check"} => turn[t].pc \in {"model", "store"})
    BY <2>2
  <2>4. \E new : Proceeds(t, new)
    BY <2>1, <2>3, Advances
  <2> HIDE DEF Quiet
  <2> QED BY <1>2, <2>1, <2>4
<1>5. CASE Act(t) \/ EscalateToArtist(t)
  <2>1. turn[t].pc = "tool" /\ To(t, "model") /\ UNCHANGED <<supervised, kind, unapproved>> /\ delivered' = delivered
    BY <1>5 DEF Act, EscalateToArtist, At
  <2>2. turn[t].step \in 1 .. LastStep
    BY <2>1 DEF TurnInv, TurnGuards
  <2>3. Quiet
    BY <1>1, <1>5, <2>2 DEF Act, EscalateToArtist, Conversation
  <2>4. \E new : Proceeds(t, new)
    BY <2>1, Advances
  <2> HIDE DEF Quiet
  <2> QED BY <1>2, <2>1, <2>3, <2>4
<1>6. CASE LookAgain(t)
  <2>1. Quiet /\ delivered' = delivered /\ UNCHANGED <<supervised, kind, unapproved>> /\ turn[t].pc = "check"
    BY <1>1, <1>6 DEF LookAgain, At
  <2>2. \/ To(t, "done")
        \/ To(t, "send") /\ EffectiveMode(supervised, chat.override) # "DRAFT" /\ chat.mode = "AI"
    BY <1>6 DEF LookAgain, AutoReplyStillAllowed
  <2>3. \E new : Proceeds(t, new)
    BY <2>1, <2>2, Advances
  <2> HIDE DEF Quiet
  <2> QED BY <1>2, <2>1, <2>3
<1>7. CASE SendReply(t)
  <2>1. Quiet /\ delivered' = delivered \cup {t} /\ UNCHANGED <<supervised, kind, unapproved>>
        /\ turn[t].pc = "send" /\ To(t, "done")
    BY <1>1, <1>7 DEF SendReply, At
  <2>2. \E new : Proceeds(t, new) /\ new.pc = "done"
    BY <2>1, Advances
  <2> HIDE DEF Quiet
  <2> QED BY <1>2, <2>1, <2>2
<1>8. CASE ReadArtist(t)
  <2> DEFINE new == [turn[t] EXCEPT !.pc = "conversation", !.strict = supervised]
  <2>1. Quiet /\ delivered' = delivered /\ UNCHANGED <<supervised, kind, unapproved>>
        /\ turn' = [turn EXCEPT ![t] = new]
    BY <1>1, <1>8 DEF ReadArtist
  <2>2. new \in TurnStates /\ new.pc = "conversation"
    BY <1>1 DEF TurnStates, TurnInv, TurnTypeOK
  <2>3. Proceeds(t, new)
    <3> HIDE DEF new
    <3> QED BY <2>1, <2>2 DEF Proceeds
  <2> HIDE DEF Quiet, new
  <2> QED BY <1>2, <2>1, <2>3
<1>9. CASE ReadConversation(t)
  <2> DEFINE pc == IF Eligible(t) THEN "model" ELSE "done"
             drafts_ == kind[t] = "prepare" \/ EffectiveMode(turn[t].strict, chat.override) = "DRAFT"
             new == [turn[t] EXCEPT !.pc = pc, !.drafting = drafts_, !.seen = chat.version]
  <2>1. Quiet /\ delivered' = delivered /\ UNCHANGED <<supervised, kind, unapproved>>
        /\ turn' = [turn EXCEPT ![t] = new]
    BY <1>1, <1>9 DEF ReadConversation
  <2>2. pc \in {"model", "done"} /\ drafts_ \in BOOLEAN /\ chat.version \in 0 .. LastVersion
        /\ (kind[t] = "prepare" => drafts_)
    BY <1>1 DEF Conversation
  <2> HIDE DEF pc, drafts_
  <2>3. new \in TurnStates /\ new.pc = pc /\ new.drafting = drafts_
    BY <1>1, <2>2 DEF TurnStates
  <2>4. Proceeds(t, new)
    <3> HIDE DEF new
    <3> QED BY <2>1, <2>2, <2>3 DEF Proceeds
  <2> HIDE DEF Quiet, new
  <2> QED BY <1>2, <2>1, <2>4
<1>10. CASE CallTool(t)
  <2> DEFINE pc == IF StillPermitted(t) THEN "tool" ELSE "done"
             new == [turn[t] EXCEPT !.pc = pc, !.step = @ + 1]
  <2>1. Quiet /\ delivered' = delivered /\ UNCHANGED <<supervised, kind, unapproved>>
        /\ turn' = [turn EXCEPT ![t] = new]
        /\ turn[t].pc = "model" /\ ~turn[t].drafting /\ turn[t].step < LastStep
    BY <1>1, <1>10 DEF CallTool, At
  <2>2. kind[t] # "prepare"
    BY <2>1 DEF TurnInv, TurnGuards
  <2>3. pc \in {"tool", "done"} /\ (pc = "tool" => chat.mode = "AI")
    BY <2>2 DEF StillPermitted, Eligible
  <2> HIDE DEF pc
  <2>4. turn[t].step + 1 \in 0 .. LastStep /\ turn[t].step + 1 \in 1 .. LastStep
    BY <1>1, <2>1, TurnBounds DEF TurnStates
  <2>5. new \in TurnStates /\ new.pc = pc /\ new.step = turn[t].step + 1
    BY <1>1, <2>3, <2>4 DEF TurnStates
  <2>6. Proceeds(t, new)
    <3> HIDE DEF new
    <3> QED BY <2>1, <2>2, <2>3, <2>4, <2>5 DEF Proceeds
  <2> HIDE DEF Quiet, new
  <2> QED BY <1>2, <2>1, <2>6
<1> QED BY <1>3, <1>4, <1>5, <1>6, <1>7, <1>8, <1>9, <1>10 DEF TurnStep

\* The people's steps: a switch to approval catches every turn that is not sending, and
\* a take-over every turn that is between two checks.
LEMMA PeopleKeep ==
    ASSUME TurnInv,
           \/ SetSupervision \/ TakeOver \/ ReturnToAi
           \/ \E mode \in {"none", "DRAFT", "ASSISTED"} : ChooseReplyMode(mode)
    PROVE  TurnInv'
<1>1. /\ UNCHANGED <<latest, kind, turn, acted, delivered>>
      /\ chat \in Conversation /\ supervised \in BOOLEAN
      /\ unapproved \subseteq Turns /\ stopped \subseteq Turns
  BY DEF SetSupervision, TakeOver, ReturnToAi, ChooseReplyMode, TurnInv, TurnTypeOK
<1>2. CASE SetSupervision \/ \E mode \in {"none", "DRAFT", "ASSISTED"} : ChooseReplyMode(mode)
  <2>1. /\ chat.version < LastVersion /\ stopped' = stopped /\ supervised' \in BOOLEAN
        /\ \E mode \in {"none", "DRAFT", "ASSISTED"} :
             chat' = [chat EXCEPT !.version = @ + 1, !.override = mode]
        /\ unapproved' = Held(EffectiveMode(supervised', chat'.override))
    <3>1. CASE SetSupervision
      <4>1. chat' = [chat EXCEPT !.version = @ + 1, !.override = chat.override]
            /\ chat.override \in {"none", "DRAFT", "ASSISTED"} /\ chat'.override = chat.override
        BY <1>1, <3>1 DEF SetSupervision, Conversation
      <4> QED BY <1>1, <3>1, <4>1 DEF SetSupervision
    <3>2. ASSUME NEW mode \in {"none", "DRAFT", "ASSISTED"}, ChooseReplyMode(mode)
          PROVE  /\ chat.version < LastVersion /\ stopped' = stopped /\ supervised' \in BOOLEAN
                 /\ chat' = [chat EXCEPT !.version = @ + 1, !.override = mode]
                 /\ unapproved' = Held(EffectiveMode(supervised', chat'.override))
      <4>1. supervised' = supervised /\ chat'.override = mode
        BY <1>1, <3>2 DEF ChooseReplyMode, Conversation
      <4> QED BY <1>1, <3>2, <4>1 DEF ChooseReplyMode
    <3> QED BY <1>2, <3>1, <3>2
  <2>2. chat' \in Conversation /\ chat'.mode = chat.mode
    <3>1. PICK mode \in {"none", "DRAFT", "ASSISTED"} :
            chat' = [chat EXCEPT !.version = @ + 1, !.override = mode]
      BY <2>1
    <3>2. chat.version + 1 \in 0 .. LastVersion
      BY <1>1, <2>1, TurnBounds DEF Conversation
    <3> QED BY <1>1, <3>1, <3>2 DEF Conversation
  <2>3. unapproved' \subseteq Turns
    BY <1>1, <2>1 DEF Held
  <2>4. TurnTypeOK'
    BY <1>1, <2>1, <2>2, <2>3 DEF TurnInv, TurnTypeOK
  <2> DEFINE next == EffectiveMode(supervised', chat'.override)
  <2>5. EffectiveMode(supervised, chat.override)' = next
    BY DEF EffectiveMode
  <2>6. unapproved' # {} => next = "DRAFT"
    <3> HIDE DEF next
    <3> QED BY <2>1 DEF Held, next
  <2>7. ASSUME NEW t \in unapproved' PROVE turn[t].pc # "send" /\ t \notin delivered
    BY <2>1, <2>7 DEF Held, At, TurnInv, TurnGuards
  <2>8. TurnGuards'
    <3> HIDE DEF next
    <3> QED BY <1>1, <2>1, <2>2, <2>5, <2>6, <2>7 DEF TurnInv, TurnGuards
  <2> QED BY <2>4, <2>8 DEF TurnInv
<1>3. CASE TakeOver \/ ReturnToAi
  <2>1. /\ chat' \in Conversation /\ chat'.override = chat.override /\ supervised' = supervised /\ unapproved' = unapproved
        /\ stopped' \subseteq Turns
        /\ \A t \in stopped' : turn[t].pc \notin {"tool", "send"}
        /\ stopped' # {} => chat'.mode = "HUMAN"
    BY <1>1, <1>3 DEF TakeOver, ReturnToAi, Conversation, Unchecked
  <2>2. TurnTypeOK'
    BY <1>1, <2>1 DEF TurnInv, TurnTypeOK
  <2>3. EffectiveMode(supervised, chat.override)' = EffectiveMode(supervised, chat.override)
    BY <2>1 DEF EffectiveMode
  <2>4. TurnGuards'
    BY <1>1, <2>1, <2>3 DEF TurnInv, TurnGuards
  <2> QED BY <2>2, <2>4 DEF TurnInv
<1> QED BY <1>2, <1>3

LEMMA TurnKept ==
    ASSUME TurnInv, [TurnNext]_turnVars PROVE TurnInv'
<1>1. CASE \E t \in Turns : TurnStep(t)
  BY <1>1, TurnStepKeeps
<1>2. CASE \/ SetSupervision \/ TakeOver \/ ReturnToAi
           \/ \E mode \in {"none", "DRAFT", "ASSISTED"} : ChooseReplyMode(mode)
  BY <1>2, PeopleKeep
<1>3. CASE UNCHANGED turnVars
  <2>1. TurnTypeOK'
    BY <1>3 DEF turnVars, TurnInv, TurnTypeOK
  <2>2. TurnGuards'
    BY <1>3 DEF turnVars, TurnInv, TurnGuards, EffectiveMode
  <2> QED BY <2>1, <2>2 DEF TurnInv
<1> QED BY <1>1, <1>2, <1>3 DEF TurnNext

LEMMA StoppedStay ==
    ASSUME TurnInv, [TurnNext]_turnVars
    PROVE  /\ \A a \in acted' \ acted : a[1] \notin stopped
           /\ (delivered' \ delivered) \cap stopped = {}
<1>1. CASE \E t \in Turns : Act(t) \/ SendReply(t)
  <2>1. PICK t \in Turns : Act(t) \/ SendReply(t)
    BY <1>1
  <2>2. turn[t].pc \in {"tool", "send"}
    BY <2>1 DEF Act, SendReply, At
  <2>3. t \notin stopped
    BY <2>2 DEF TurnInv, TurnGuards
  <2>4. acted' \ acted \subseteq {<<t, turn[t].step>>} /\ delivered' \ delivered \subseteq {t}
    BY <2>1 DEF Act, SendReply
  <2> QED BY <2>3, <2>4
<1>2. CASE ~(\E t \in Turns : Act(t) \/ SendReply(t))
  <2>1. acted' = acted /\ delivered' = delivered
    BY <1>2 DEF TurnNext, TurnStep, turnVars, ClientMessage, PrepareDraft, ReadArtist, ReadConversation,
       CallTool, EscalateToArtist, ComposeReply, StoreDirectReply, FileDraft, LookAgain, TurnEnds,
       SetSupervision, TakeOver, ReturnToAi, ChooseReplyMode
  <2> QED BY <2>1
<1> QED BY <1>1, <1>2

\* Once replies need approval only a turn that had already taken its last look sends by
\* itself, and once a person has the conversation no turn gets past its next check.
THEOREM TurnsYield == TurnSpec => TurnsSafe
<1>1. TurnInit => TurnInv
  BY TurnStarts
<1>2. TurnInv /\ [TurnNext]_turnVars => TurnInv'
  BY TurnKept
<1>3. TurnInv => TurnTypeOK /\ ApprovalHolds
  BY DEF TurnInv, TurnGuards, ApprovalHolds, TurnTypeOK
<1>4. TurnInv /\ [TurnNext]_turnVars => [/\ \A a \in acted' \ acted : a[1] \notin stopped
                                        /\ (delivered' \ delivered) \cap stopped = {}]_turnVars
  BY StoppedStay
<1> QED BY <1>1, <1>2, <1>3, <1>4, PTL DEF TurnSpec, TurnsSafe, TakeoverStopsTurn

-----------------------------------------------------------------------------
(* Consent to text.                                                         *)

RowKinds == {Stop} \cup {Evidence(n) : n \in Lines}
HandlerStates ==
    [pc : {"wait", "read", "amend", "store", "revoke", "unask", "grant", "ask", "reply", "done"},
     line : Lines, word : Words, copy : Clients, in : BOOLEAN, out : BOOLEAN]

\* The client has texted START or YES to this number.
TextedFor(n) == \E h \in stored : inbound[h].line = n /\ inbound[h].word \in {"START", "YES"}

\* A handler that has read made the client's row, one that grants stored the client's
\* START or YES; the client's row is there before the first STOP; and evidence that is
\* newer than a STOP was texted for.
ConsentGuards ==
    /\ rows \in Seq(RowKinds)
    /\ \A h \in Texts : inbound[h].pc # "wait" => client.status # "NONE"
    /\ \A h \in Texts : inbound[h].pc \in {"revoke", "unask", "grant"} => h \in stored
    /\ \A h \in Texts : inbound[h].pc = "grant" => inbound[h].word \in {"START", "YES"}
    /\ \A j \in 1..Len(rows) : rows[j] = Stop => client.status # "NONE"
    /\ \A i \in 1..Len(rows), n \in Lines :
         rows[i] = Evidence(n) /\ (\E j \in 1..i : rows[j] = Stop) => TextedFor(n)

ConsentInv == ConsentTypeOK /\ ConsentGuards

LEMMA ConsentStarts == ConsentInit => ConsentInv
<1> SUFFICES ASSUME ConsentInit PROVE ConsentInv
  OBVIOUS
<1>1. client \in Clients /\ client.status = "NONE" /\ NoClient \in Clients /\ rows = <<>> /\ stored = {}
  BY DEF ConsentInit, Clients, NoClient
<1>2. \A x \in Fresh : x \in HandlerStates /\ x.pc = "wait"
  BY <1>1 DEF Fresh, HandlerStates
<1>3. inbound \in [Texts -> HandlerStates] /\ \A h \in Texts : inbound[h].pc = "wait"
  BY <1>2 DEF ConsentInit
<1>4. asked \in [Lines -> 0..2]
  <2>1. asked = [n \in Lines |-> 0]
    BY Zenon DEF ConsentInit
  <2>2. 0 \in 0..2
    OBVIOUS
  <2> QED BY <2>1, <2>2
<1>5. intake \in [Lines -> 0..FormLimit + 1]
  <2>1. intake = [n \in Lines |-> 0]
    BY Zenon DEF ConsentInit
  <2>2. 0 \in 0..FormLimit + 1
    BY ConsentModes
  <2> QED BY <2>1, <2>2
<1>6. ConsentTypeOK
  BY <1>1, <1>3, <1>4, <1>5 DEF ConsentTypeOK, HandlerStates
<1>7. ConsentGuards
  BY <1>1, <1>3 DEF ConsentGuards
<1> QED BY <1>6, <1>7 DEF ConsentInv

\* A row at the end: a STOP once the client's row is there, or evidence that may be.
RowsGrow(h) ==
    \/ rows' = rows
    \/ rows' = Append(rows, Stop)
    \/ rows' = Append(rows, Evidence(inbound[h].line)) /\ h \in stored /\ inbound[h].word \in {"START", "YES"}

\* What a step of one handler does.
Handles(h, new) ==
    /\ new \in HandlerStates /\ inbound' = [inbound EXCEPT ![h] = new]
    /\ new.line = inbound[h].line /\ new.word = inbound[h].word
    /\ client' \in Clients /\ client'.status # "NONE"
    /\ stored' = stored \/ stored' = stored \cup {h}
    /\ new.pc \in {"revoke", "unask", "grant"} => h \in stored'
    /\ new.pc = "grant" => new.word \in {"START", "YES"}
    /\ RowsGrow(h)
    /\ asked' \in [Lines -> 0..2] /\ intake' = intake

LEMMA HandlingKeeps ==
    ASSUME ConsentInv, NEW h \in Texts, NEW new, Handles(h, new) PROVE ConsentInv'
<1>1. /\ inbound \in [Texts -> HandlerStates] /\ stored \subseteq Texts /\ rows \in Seq(RowKinds)
      /\ inbound' \in [Texts -> HandlerStates] /\ inbound'[h] = new
      /\ \A g \in Texts : g # h => inbound'[g] = inbound[g]
      /\ \A g \in Texts : inbound'[g].line = inbound[g].line /\ inbound'[g].word = inbound[g].word
      /\ stored' \subseteq Texts /\ stored \subseteq stored'
      /\ client'.status # "NONE"
  BY DEF ConsentInv, ConsentTypeOK, ConsentGuards, Handles, HandlerStates
<1>2. \A n \in Lines : TextedFor(n) => TextedFor(n)'
  BY <1>1 DEF TextedFor
<1>3. /\ rows' \in Seq(RowKinds)
      /\ \A i \in 1..Len(rows'), n \in Lines :
           rows'[i] = Evidence(n) /\ (\E j \in 1..i : rows'[j] = Stop) => TextedFor(n)'
  <2>1. CASE rows' = rows
    BY <1>1, <1>2, <2>1 DEF ConsentInv, ConsentGuards
  <2>2. ASSUME NEW r \in RowKinds, rows' = Append(rows, r),
               \A n \in Lines : r = Evidence(n) => TextedFor(n)'
        PROVE  /\ rows' \in Seq(RowKinds)
               /\ \A i \in 1..Len(rows'), n \in Lines :
                    rows'[i] = Evidence(n) /\ (\E j \in 1..i : rows'[j] = Stop) => TextedFor(n)'
    <3>1. /\ rows' \in Seq(RowKinds) /\ Len(rows') = Len(rows) + 1 /\ rows'[Len(rows) + 1] = r
          /\ \A i \in 1..Len(rows) : rows'[i] = rows[i]
          /\ Len(rows) \in Nat
      BY <1>1, <2>2
    <3>2. ASSUME NEW i \in 1..Len(rows'), NEW n \in Lines, rows'[i] = Evidence(n), \E j \in 1..i : rows'[j] = Stop
          PROVE  TextedFor(n)'
      <4>1. CASE i = Len(rows) + 1
        BY <2>2, <3>1, <3>2, <4>1
      <4>2. CASE i # Len(rows) + 1
        <5>1. i \in 1..Len(rows) /\ \A j \in 1..i : j \in 1..Len(rows)
          BY <3>1, <3>2, <4>2
        <5>2. rows[i] = Evidence(n) /\ \E j \in 1..i : rows[j] = Stop
          BY <3>1, <3>2, <5>1
        <5> QED BY <1>2, <5>1, <5>2 DEF ConsentInv, ConsentGuards
      <4> QED BY <4>1, <4>2
    <3> QED BY <3>1, <3>2
  <2>3. CASE rows' = Append(rows, Stop)
    <3>1. Stop \in RowKinds /\ \A n \in Lines : Stop # Evidence(n)
      BY DEF RowKinds, Stop, Evidence
    <3> QED BY <2>2, <2>3, <3>1
  <2>4. CASE rows' = Append(rows, Evidence(inbound[h].line)) /\ h \in stored /\ inbound[h].word \in {"START", "YES"}
    <3>1. inbound[h].line \in Lines /\ Evidence(inbound[h].line) \in RowKinds
      BY <1>1 DEF HandlerStates, RowKinds
    <3>2. \A n \in Lines : Evidence(inbound[h].line) = Evidence(n) => n = inbound[h].line
      BY DEF Evidence
    <3>3. \A n \in Lines : Evidence(inbound[h].line) = Evidence(n) => TextedFor(n)'
      BY <1>1, <2>4, <3>2 DEF TextedFor
    <3> QED BY <2>2, <2>4, <3>1, <3>3
  <2> QED BY <2>1, <2>3, <2>4 DEF Handles, RowsGrow
<1>4. ConsentTypeOK'
  <2>1. \A i \in 1..Len(rows') : rows'[i] \in RowKinds
    BY <1>3
  <2> QED BY <1>1, <2>1 DEF ConsentTypeOK, Handles, ConsentInv, RowKinds, HandlerStates
<1>5. ConsentGuards'
  <2>1. \A g \in Texts : inbound'[g].pc \in {"revoke", "unask", "grant"} => g \in stored'
    BY <1>1 DEF Handles, ConsentInv, ConsentGuards
  <2>2. \A g \in Texts : inbound'[g].pc = "grant" => inbound'[g].word \in {"START", "YES"}
    BY <1>1 DEF Handles, ConsentInv, ConsentGuards
  <2>3. \A i \in 1..Len(rows'), n \in Lines :
          rows'[i] = Evidence(n) /\ (\E j \in 1..i : rows'[j] = Stop) => TextedFor(n)'
    BY <1>3
  <2> QED BY <1>1, <1>3, <2>1, <2>2, <2>3 DEF ConsentGuards
<1> QED BY <1>4, <1>5 DEF ConsentInv

LEMMA ConsentKept ==
    ASSUME ConsentInv, [ConsentNext]_consentVars PROVE ConsentInv'
<1>1. CASE \E h \in Texts : ConsentStep(h)
  <2>1. PICK h \in Texts : ConsentStep(h)
    BY <1>1
  <2>2. /\ inbound[h] \in HandlerStates /\ client \in Clients /\ asked \in [Lines -> 0..2]
        /\ inbound[h].line \in Lines /\ inbound[h].word \in Words /\ inbound[h].copy \in Clients
        /\ inbound[h].pc # "wait" => client.status # "NONE"
        /\ inbound[h].pc \in {"revoke", "unask", "grant"} => h \in stored
        /\ inbound[h].pc = "grant" => inbound[h].word \in {"START", "YES"}
    BY DEF ConsentInv, ConsentTypeOK, ConsentGuards, HandlerStates
  <2> DEFINE Moved(pc) == [inbound[h] EXCEPT !.pc = pc]
  <2>3. ASSUME NEW pc \in {"amend", "store", "revoke", "unask", "grant", "ask", "reply", "done"}, Goes(h, pc),
               client' \in Clients, client'.status # "NONE",
               stored' = stored \/ stored' = stored \cup {h},
               pc \in {"revoke", "unask", "grant"} => h \in stored',
               pc = "grant" => inbound[h].word \in {"START", "YES"},
               RowsGrow(h), asked' \in [Lines -> 0..2], intake' = intake
        PROVE  ConsentInv'
    <3>1. /\ Moved(pc) \in HandlerStates /\ Moved(pc).line = inbound[h].line /\ Moved(pc).word = inbound[h].word
          /\ Moved(pc).pc = pc
      BY <2>2, <2>3 DEF HandlerStates
    <3>2. inbound' = [inbound EXCEPT ![h] = Moved(pc)]
      BY <2>3 DEF Goes
    <3> HIDE DEF Moved
    <3>3. Handles(h, Moved(pc))
      BY <2>3, <3>1, <3>2 DEF Handles
    <3> QED BY <3>3, HandlingKeeps
  <2> HIDE DEF Moved
  <2>4. CASE ReadText(h)
    <3> DEFINE new == [inbound[h] EXCEPT !.pc = "read", !.copy = client']
    <3>1. client' \in Clients /\ client'.status # "NONE"
      BY <2>2, <2>4 DEF ReadText, Clients, NoClient
    <3>2. new \in HandlerStates /\ new.line = inbound[h].line /\ new.word = inbound[h].word /\ new.pc = "read"
      BY <2>2, <3>1 DEF HandlerStates
    <3>3. inbound' = [inbound EXCEPT ![h] = new] /\ rows' = rows /\ asked' = asked /\ stored' = stored /\ intake' = intake
      BY <2>4, <2>2 DEF ReadText, ConsentInv, ConsentTypeOK
    <3> HIDE DEF new
    <3>4. Handles(h, new)
      BY <2>2, <3>1, <3>2, <3>3 DEF Handles, RowsGrow
    <3> QED BY <3>4, HandlingKeeps
  <2>5. CASE JudgeText(h)
    <3> DEFINE in == Consented(inbound[h].line)
               out == inbound[h].copy.status = "OPTED_OUT" \/ (~in /\ EverStopped)
               new == [inbound[h] EXCEPT !.pc = "amend", !.in = in, !.out = out]
    <3>1. in \in BOOLEAN /\ out \in BOOLEAN
      BY <2>2 DEF Consented, EverStopped, Clients
    <3>2. inbound' = [inbound EXCEPT ![h] = new] /\ UNCHANGED <<client, rows, asked, stored, intake>>
          /\ inbound[h].pc = "read"
      BY <2>5, <2>2 DEF JudgeText, ConsentInv, ConsentTypeOK
    <3> HIDE DEF in, out
    <3>3. new \in HandlerStates /\ new.line = inbound[h].line /\ new.word = inbound[h].word /\ new.pc = "amend"
      BY <2>2, <3>1 DEF HandlerStates
    <3> HIDE DEF new
    <3>4. Handles(h, new)
      BY <2>2, <3>2, <3>3 DEF Handles, RowsGrow
    <3> QED BY <3>4, HandlingKeeps
  <2>6. CASE AmendClient(h)
    <3>1. client' \in Clients /\ client'.status # "NONE"
      BY <2>2, <2>6 DEF AmendClient, Clients
    <3> QED BY <2>2, <2>3, <2>6, <3>1 DEF AmendClient, RowsGrow
  <2>7. CASE StoreText(h)
    <3>1. PICK pending \in ValidPending(inbound[h].line) :
            LET d == Decision(h, pending)
            IN  /\ Goes(h, CASE d = "STOP" -> "revoke"
                          [] d = "START" -> "unask"
                          [] d = "CONFIRM_YES" -> "grant"
                          [] d = "REQUEST_YES" -> "ask"
                          [] d = "CONTEXTUAL_REPLY" -> "reply"
                          [] OTHER -> "done")
                /\ asked' = IF d = "CONFIRM_YES" THEN [asked EXCEPT ![inbound[h].line] = @ - 1] ELSE asked
      BY <2>7 DEF StoreText
    <3> DEFINE d == Decision(h, pending)
               pc == CASE d = "STOP" -> "revoke"
                          [] d = "START" -> "unask"
                          [] d = "CONFIRM_YES" -> "grant"
                          [] d = "REQUEST_YES" -> "ask"
                          [] d = "CONTEXTUAL_REPLY" -> "reply"
                          [] OTHER -> "done"
    <3>2. d = "CONFIRM_YES" => inbound[h].word = "YES" /\ pending
      BY <2>2 DEF Decision, Words
    <3>3. asked' \in [Lines -> 0..2]
      <4>1. d = "CONFIRM_YES" => asked[inbound[h].line] > 0
        BY <3>2 DEF ValidPending
      <4> HIDE DEF d
      <4> QED BY <2>2, <3>1, <4>1 DEF d
    <3> HIDE DEF d
    <3>4. pc \in {"revoke", "unask", "grant", "ask", "reply", "done"} /\ (pc = "grant" => d = "CONFIRM_YES")
      OBVIOUS
    <3>5. Goes(h, pc)
      BY <3>1 DEF d
    <3>6. /\ client' = client /\ stored' = stored \cup {h} /\ intake' = intake /\ RowsGrow(h)
          /\ inbound[h].pc = "store"
      BY <2>7 DEF StoreText, RowsGrow
    <3> HIDE DEF pc
    <3> QED BY <2>2, <2>3, <3>2, <3>3, <3>4, <3>5, <3>6
  <2>8. CASE Revoke(h) \/ Grant(h) \/ ReplyToText(h)
    <3>1. \/ /\ Goes(h, "unask") /\ inbound[h].pc = "revoke" /\ rows' = rows /\ asked' = asked
             /\ client' = [opt |-> FALSE, status |-> "OPTED_OUT"]
          \/ /\ Goes(h, "done") /\ inbound[h].pc = "grant" /\ asked' = asked
             /\ client' = [opt |-> TRUE, status |-> "OPTED_IN"]
             /\ rows' = Append(rows, Evidence(inbound[h].line))
          \/ /\ Goes(h, "done") /\ inbound[h].pc = "reply" /\ rows' = rows /\ asked' = asked
             /\ client' = client
      BY <2>8 DEF Revoke, Grant, ReplyToText
    <3>2. client' \in Clients /\ client'.status # "NONE" /\ asked' = asked /\ RowsGrow(h)
      <4>1. CASE inbound[h].pc = "revoke"
        <5>1. client' = [opt |-> FALSE, status |-> "OPTED_OUT"] /\ asked' = asked /\ rows' = rows
          BY <3>1, <4>1
        <5> QED BY <5>1 DEF Clients, RowsGrow
      <4>2. CASE inbound[h].pc = "grant"
        <5>1. h \in stored /\ inbound[h].word \in {"START", "YES"}
          BY <2>2, <4>2
        <5>2. client' = [opt |-> TRUE, status |-> "OPTED_IN"] /\ asked' = asked
              /\ rows' = Append(rows, Evidence(inbound[h].line))
          BY <3>1, <4>2
        <5> QED BY <5>1, <5>2 DEF Clients, RowsGrow
      <4>3. CASE inbound[h].pc = "reply"
        BY <2>2, <3>1, <4>3 DEF RowsGrow
      <4> QED BY <3>1, <4>1, <4>2, <4>3
    <3>3. stored' = stored /\ intake' = intake
      BY <2>8 DEF Revoke, Grant, ReplyToText
    <3> QED BY <2>2, <2>3, <3>1, <3>2, <3>3
  <2>9. CASE Unask(h)
    <3>1. asked' \in [Lines -> 0..2]
      BY <2>2, <2>9 DEF Unask
    <3>2. /\ \/ Goes(h, "grant") /\ inbound[h].word = "START"
             \/ Goes(h, "done")
          /\ inbound[h].pc = "unask" /\ UNCHANGED <<client, rows, stored, intake>>
      BY <2>9 DEF Unask
    <3> QED BY <2>2, <2>3, <3>1, <3>2 DEF RowsGrow
  <2>10. CASE AskForYes(h)
    <3>1. asked' \in [Lines -> 0..2]
      BY <2>2, <2>10 DEF AskForYes
    <3>2. Goes(h, "done") /\ inbound[h].pc = "ask" /\ UNCHANGED <<client, rows, stored, intake>>
      BY <2>10 DEF AskForYes
    <3> QED BY <2>2, <2>3, <3>1, <3>2 DEF RowsGrow
  <2> QED BY <2>1, <2>4, <2>5, <2>6, <2>7, <2>8, <2>9, <2>10 DEF ConsentStep
<1>2. CASE \E n \in Lines : SubmitForm(n)
  <2>1. PICK n \in Lines : SubmitForm(n)
    BY <1>2
  <2>2. /\ UNCHANGED <<asked, inbound, stored>> /\ client \in Clients /\ rows \in Seq(RowKinds)
        /\ intake \in [Lines -> 0..FormLimit + 1] /\ intake[n] <= FormLimit
        /\ intake' = [intake EXCEPT ![n] = @ + 1]
    BY <2>1 DEF SubmitForm, ConsentInv, ConsentTypeOK, ConsentGuards
  <2>3. intake' \in [Lines -> 0..FormLimit + 1]
    BY <2>2, ConsentModes
  <2>4. /\ client' \in Clients
        /\ client.status # "NONE" => client' = client /\ rows' = rows
        /\ client.status = "NONE" => rows' \in {rows, Append(rows, Evidence(n))}
    BY <2>1, <2>2 DEF SubmitForm, IntakeClient, Clients
  <2>5. CASE client.status # "NONE"
    <3>1. ConsentTypeOK'
      BY <2>2, <2>3, <2>4, <2>5 DEF ConsentInv, ConsentTypeOK
    <3>2. ConsentGuards'
      BY <2>2, <2>4, <2>5 DEF ConsentInv, ConsentGuards, TextedFor
    <3> QED BY <3>1, <3>2 DEF ConsentInv
  <2>6. CASE client.status = "NONE"
    <3>1. /\ stored = {} /\ \A h \in Texts : inbound[h].pc = "wait"
          /\ \A j \in 1..Len(rows) : rows[j] # Stop
      BY <2>6 DEF ConsentInv, ConsentTypeOK, ConsentGuards
    <3>2. Evidence(n) \in RowKinds /\ Evidence(n) # Stop
      BY DEF RowKinds, Evidence, Stop
    <3>3. rows' \in Seq(RowKinds) /\ \A j \in 1..Len(rows') : rows'[j] # Stop
      <4>1. CASE rows' = rows
        BY <2>2, <3>1, <4>1
      <4>2. CASE rows' = Append(rows, Evidence(n))
        <5>1. /\ rows' \in Seq(RowKinds) /\ Len(rows') = Len(rows) + 1 /\ rows'[Len(rows) + 1] = Evidence(n)
              /\ \A i \in 1..Len(rows) : rows'[i] = rows[i]
              /\ Len(rows) \in Nat
          BY <2>2, <3>2, <4>2
        <5>2. \A j \in 1..Len(rows') : j \in 1..Len(rows) \/ j = Len(rows) + 1
          BY <5>1
        <5> QED BY <3>1, <3>2, <5>1, <5>2
      <4> QED BY <2>4, <2>6, <4>1, <4>2
    <3>4. \A i \in 1..Len(rows') : rows'[i] \in RowKinds
      BY <3>3
    <3>5. ConsentTypeOK'
      BY <2>2, <2>3, <2>4, <3>1, <3>4 DEF ConsentInv, ConsentTypeOK, RowKinds
    <3>6. \A i \in 1..Len(rows') : ~(\E j \in 1..i : rows'[j] = Stop)
      <4>1. \A i \in 1..Len(rows') : \A j \in 1..i : j \in 1..Len(rows')
        BY <3>3
      <4> QED BY <3>3, <4>1
    <3>7. ConsentGuards'
      BY <2>2, <3>1, <3>3, <3>6 DEF ConsentGuards
    <3> QED BY <3>5, <3>7 DEF ConsentInv
  <2> QED BY <2>5, <2>6
<1>3. CASE UNCHANGED consentVars
  <2>1. ConsentTypeOK'
    BY <1>3 DEF consentVars, ConsentInv, ConsentTypeOK
  <2>2. ConsentGuards'
    BY <1>3 DEF consentVars, ConsentInv, ConsentGuards, TextedFor
  <2> QED BY <2>1, <2>2 DEF ConsentInv
<1> QED BY <1>1, <1>2, <1>3 DEF ConsentNext

LEMMA ConsentHolds == ConsentInv => ConsentSafe
<1> SUFFICES ASSUME ConsentInv PROVE NoResurrection
  BY DEF ConsentInv, ConsentSafe
<1> SUFFICES ASSUME NEW n \in Lines, EverStopped, Consented(n)
             PROVE  \E i \in 1..Len(rows) : /\ rows[i] = Evidence(n)
                                            /\ \A j \in i..Len(rows) : rows[j] # Stop
                                            /\ TextedFor(n)
  BY DEF NoResurrection, TextedFor
<1>1. PICK i \in 1..Len(rows) : rows[i] = Evidence(n) /\ After(i)
  BY DEF Consented
<1>2. PICK k \in 1..Len(rows) : rows[k] = Stop
  BY DEF EverStopped
<1>3. Len(rows) \in Nat
  BY DEF ConsentInv, ConsentGuards
<1>4. k \in 1..i
  BY <1>1, <1>2, <1>3 DEF After
<1>5. TextedFor(n)
  BY <1>1, <1>2, <1>4 DEF ConsentInv, ConsentGuards
<1> QED BY <1>1, <1>5 DEF After

\* No artist's earlier consent comes back after the client's STOP: it takes a START or
\* a YES that the client texts to that number.
THEOREM StopIsKept == ConsentSpec => []ConsentSafe
<1>1. ConsentInit => ConsentInv
  BY ConsentStarts
<1>2. ConsentInv /\ [ConsentNext]_consentVars => ConsentInv'
  BY ConsentKept
<1>3. ConsentInv => ConsentSafe
  BY ConsentHolds
<1> QED BY <1>1, <1>2, <1>3, PTL DEF ConsentSpec

-----------------------------------------------------------------------------
(* Draft replies.                                                           *)

Unsent == {"PENDING", "DISCARDED"}
Sending == {"check", "record", "failed", "count", "finish"}

DraftRows == [version : Nat, source : Nat, status : DraftStatus, job : BOOLEAN, wire : 0..1]
DeskRows ==
    [kind : {"job", "prepare", "edit", "discard", "send", "write", "none"},
     pc : {"idle", "source", "save", "approve", "claim", "done"} \cup Sending,
     draft : Nat, version : Nat, source : Nat]

Talks ==
    [version : Nat, mode : {"DRAFT", "ASSISTED"}, closed : BOOLEAN,
     owed : 0..LastMessage, switches : 0..LastSwitch]

\* Requests that stored a reply and have not counted it.
Counting == {d \in Desks : desk[d].pc = "count"}

DraftShape ==
    /\ DraftTypeOK
    /\ drafts \in Seq(DraftRows) /\ desk \in [Desks -> DeskRows] /\ thread \in Seq({"user", "assistant"})
    /\ talk.version + talk.owed + Cardinality(Counting) <= Len(thread) + talk.switches
    /\ talk.owed <= Len(thread)

\* A draft is as old as its version says; one that is sent is of an earlier version.
RowHolds(i) ==
    /\ drafts[i].version <= talk.version
    /\ drafts[i].status \in Unsent => drafts[i].wire = 0
    /\ drafts[i].status = "SENT" => drafts[i].version < talk.version

\* A draft of the version of a later one was never given to the provider.
RowsOrdered ==
    \A i, j \in 1..Len(drafts) : i < j =>
        /\ drafts[i].version <= drafts[j].version
        /\ drafts[i].version = drafts[j].version => drafts[i].status \in Unsent

\* What an approval read is still so when it writes, the draft's own row apart.
Claimable(d) ==
    /\ desk[d].draft = Len(drafts) /\ talk.mode = "DRAFT" /\ ~talk.closed
    /\ drafts[desk[d].draft].version = talk.version
    /\ drafts[desk[d].draft].status \in Unsent /\ Unanswered(drafts[desk[d].draft].source)

\* The draft of a request that delivers it is SENDING, first without a delivery.
Delivers(d) == desk[d].draft # 0 /\ desk[d].pc \in Sending
Delivering(d) ==
    /\ drafts[desk[d].draft].status = "SENDING"
    /\ desk[d].pc = "check" => drafts[desk[d].draft].wire = 0
    /\ desk[d].pc = "finish" => drafts[desk[d].draft].version < talk.version

DeskFits(d) ==
    /\ desk[d].draft # 0 => desk[d].kind = "send" /\ desk[d].pc \notin {"idle", "source", "save"}
    /\ desk[d].pc \in {"approve", "claim"} => desk[d].draft # 0
    /\ desk[d].pc = "claim" => Claimable(d)
    /\ Delivers(d) => Delivering(d)

\* One request approves at a time, and one delivers a draft.
OneDesk ==
    /\ \A c, d \in Desks : desk[c].pc = "claim" /\ desk[d].pc = "claim" => c = d
    /\ \A c, d \in Desks : Delivers(c) /\ Delivers(d) /\ desk[c].draft = desk[d].draft => c = d

DraftGuards ==
    /\ \A i \in 1..Len(drafts) : RowHolds(i)
    /\ RowsOrdered
    /\ \A d \in Desks : DeskFits(d)
    /\ OneDesk

DraftInv == DraftShape /\ DraftGuards

LEMMA DraftsStart == DraftInit => DraftInv
<1> SUFFICES ASSUME DraftInit PROVE DraftInv
  OBVIOUS
<1>1. PICK kinds \in DeskKinds :
        desk = [d \in Desks |-> [kind |-> kinds[d], pc |-> "idle", draft |-> 0, version |-> 0, source |-> 0]]
  BY DEF DraftInit
<1>2. desk \in [Desks -> DeskRows] /\ \A d \in Desks : desk[d].pc = "idle" /\ desk[d].draft = 0
  BY <1>1, DeskRequests DEF DeskRows
<1>3. drafts = <<>> /\ thread = <<>> /\ Len(drafts) = 0 /\ Len(thread) = 0
  BY DEF DraftInit
<1>4. Cardinality(Counting) = 0
  <2>1. Counting = {}
    BY <1>2 DEF Counting
  <2> QED BY <2>1, FS_EmptySet
<1>5. talk.version = 0 /\ talk.owed = 0 /\ talk.switches = 0
  BY DEF DraftInit
<1>6. DraftTypeOK
  <2>1. talk \in [version : 0..(LastMessage + LastSwitch), mode : {"DRAFT", "ASSISTED"},
                  closed : BOOLEAN, owed : 0..LastMessage, switches : 0..LastSwitch]
    BY DraftBounds DEF DraftInit
  <2> QED BY <2>1, <1>2, <1>3, DraftBounds DEF DraftTypeOK
<1>7. DraftShape
  BY <1>2, <1>3, <1>4, <1>5, <1>6 DEF DraftShape
<1>8. DraftGuards
  BY <1>2, <1>3 DEF DraftGuards, RowsOrdered, DeskFits, OneDesk, Delivers
<1> QED BY <1>7, <1>8 DEF DraftInv

LEMMA CountMoves ==
    ASSUME desk \in [Desks -> DeskRows], NEW d \in Desks, NEW new \in DeskRows, desk' = [desk EXCEPT ![d] = new]
    PROVE  /\ Cardinality(Counting) \in Nat /\ Cardinality(Counting') \in Nat
           /\ new.pc = "count" => Cardinality(Counting') <= Cardinality(Counting) + 1
           /\ new.pc = desk[d].pc \/ new.pc # "count" => Cardinality(Counting') <= Cardinality(Counting)
           /\ new.pc # "count" /\ desk[d].pc = "count" => Cardinality(Counting') = Cardinality(Counting) - 1
<1>1. IsFiniteSet(Counting) /\ Cardinality(Counting) \in Nat
  <2>1. Counting \subseteq Desks
    BY DEF Counting
  <2> QED BY <2>1, DeskRequests, FS_Subset, FS_CardinalityType
<1>2. \A c \in Desks : desk'[c].pc = IF c = d THEN new.pc ELSE desk[c].pc
  OBVIOUS
<1>3. CASE new.pc = "count" /\ desk[d].pc # "count"
  <2>1. Counting' = Counting \cup {d} /\ d \notin Counting
    BY <1>2, <1>3 DEF Counting
  <2>2. Cardinality(Counting') = Cardinality(Counting) + 1
    BY <1>1, <2>1, FS_AddElement
  <2> QED BY <1>1, <1>3, <2>2
<1>4. CASE new.pc # "count" /\ desk[d].pc = "count"
  <2>1. Counting' = Counting \ {d} /\ d \in Counting
    BY <1>2, <1>4 DEF Counting
  <2> QED BY <1>1, <1>4, <2>1, FS_RemoveElement, FS_CardinalityType, FS_Subset
<1>5. CASE new.pc = "count" <=> desk[d].pc = "count"
  <2>1. Counting' = Counting
    BY <1>2, <1>5 DEF Counting
  <2> QED BY <1>1, <1>5, <2>1
<1> QED BY <1>3, <1>4, <1>5

\* What a step of one request does: it moves on and turns one draft at most, which no
\* other request delivers; the conversation moves only while nobody approves.
DeskMoves(d, new, k) ==
    /\ new \in DeskRows /\ new.draft \in 0..Len(drafts) /\ desk' = [desk EXCEPT ![d] = new]
    /\ drafts' \in Seq(DraftRows) /\ Len(drafts') = Len(drafts)
    /\ \A i \in 1..Len(drafts) : /\ drafts'[i].version = drafts[i].version
                                 /\ drafts'[i].source = drafts[i].source
                                 /\ i # k => drafts'[i] = drafts[i]
    /\ \A j \in 1..Len(drafts) : k \in 1..Len(drafts) /\ k < j /\ drafts[k].version = drafts[j].version
                                   => drafts'[k].status \in Unsent
    /\ k \in 1..Len(drafts) => RowHolds(k)'
    /\ \A c \in Desks \ {d} : k # 0 /\ desk[c].draft = k =>
        ~Delivers(c) /\ (desk[c].pc = "claim" => drafts'[k].status \in Unsent)
    /\ DeskFits(d)'
    /\ new.pc = "claim" => RowFree
    /\ new.draft # 0 /\ new.pc \in Sending => new.draft = k \/ (Delivers(d) /\ desk[d].draft = new.draft)

\* What the step does to the conversation.
TalkMoves ==
    /\ UNCHANGED <<talk, thread>> \/ RowFree
    /\ thread' \in Seq({"user", "assistant"}) /\ Len(thread') \in Len(thread)..LastMessage
    /\ \A i \in 1..Len(thread) : thread'[i] = thread[i]
    /\ talk' \in Talks
    /\ talk'.version >= talk.version
    /\ talk'.version + talk'.owed + Cardinality(Counting') <= Len(thread') + talk'.switches
    /\ talk'.owed <= Len(thread')

LEMMA ShapeKeeps ==
    ASSUME DraftInv, TalkMoves, Cardinality(Counting') \in Nat,
           drafts' \in Seq(DraftRows), Len(drafts') <= LastDraft, desk' \in [Desks -> DeskRows],
           \A d \in Desks : desk'[d].draft \in 0..Len(drafts'),
           \A i \in 1..Len(drafts') :
               /\ drafts'[i].status \in Unsent => drafts'[i].wire = 0
               /\ drafts'[i].source \in 1..Len(thread') /\ thread'[drafts'[i].source] = "user"
    PROVE  DraftShape'
<1>1. talk'.version \in 0..(LastMessage + LastSwitch)
  <2>1. /\ talk'.version \in Nat /\ talk'.owed \in Nat /\ talk'.switches \in 0..LastSwitch
        /\ Len(thread') \in Len(thread)..LastMessage /\ Len(thread) \in Nat
        /\ talk'.version + talk'.owed + Cardinality(Counting') <= Len(thread') + talk'.switches
    BY DraftBounds DEF TalkMoves, DraftInv, DraftShape, Talks
  <2> QED BY <2>1, DraftBounds, SMTT(30)
<1>2. talk' \in [version : 0..(LastMessage + LastSwitch), mode : {"DRAFT", "ASSISTED"},
                 closed : BOOLEAN, owed : 0..LastMessage, switches : 0..LastSwitch]
  BY <1>1 DEF TalkMoves, Talks
<1>3. thread' \in Seq({"user", "assistant"}) /\ Len(thread') <= LastMessage
  BY DEF TalkMoves, DraftInv, DraftShape, DraftTypeOK
<1>4. \A i \in 1..Len(drafts') : drafts'[i] \in DraftRows
  OBVIOUS
<1>5. \A i \in 1..Len(drafts') :
        /\ drafts'[i].status \in DraftStatus
        /\ drafts'[i].status = "PENDING" => drafts'[i].wire = 0
  BY <1>4 DEF DraftRows, Unsent
<1>6. DraftTypeOK'
  BY <1>2, <1>3, <1>5 DEF DraftTypeOK
<1> QED BY <1>3, <1>6 DEF DraftShape, TalkMoves

LEMMA DeskMovesKeep ==
    ASSUME DraftInv, NEW d \in Desks, NEW new, NEW k, DeskMoves(d, new, k), TalkMoves
    PROVE  DraftInv'
<1>1. /\ drafts \in Seq(DraftRows) /\ desk \in [Desks -> DeskRows] /\ thread \in Seq({"user", "assistant"})
      /\ Len(drafts) \in Nat /\ Len(thread) \in Nat /\ Len(drafts) <= LastDraft
      /\ talk.version \in Nat /\ talk'.version \in Nat /\ talk'.version >= talk.version
      /\ \A i \in 1..Len(drafts) : drafts[i] \in DraftRows /\ drafts'[i] \in DraftRows
  BY SMTT(30) DEF DraftInv, DraftShape, DraftTypeOK, DeskMoves, TalkMoves, Talks
<1>2. /\ new \in DeskRows /\ desk' = [desk EXCEPT ![d] = new] /\ Len(drafts') = Len(drafts)
      /\ drafts' \in Seq(DraftRows)
      /\ \A i \in 1..Len(drafts) : /\ drafts'[i].version = drafts[i].version
                                   /\ drafts'[i].source = drafts[i].source
                                   /\ i # k => drafts'[i] = drafts[i]
  BY DEF DeskMoves
<1>3. \A c \in Desks : desk'[c] = IF c = d THEN new ELSE desk[c]
  BY <1>1, <1>2
<1>4. \A i \in 1..Len(drafts') : RowHolds(i)'
  <2> SUFFICES ASSUME NEW i \in 1..Len(drafts') PROVE RowHolds(i)'
    OBVIOUS
  <2>1. CASE i = k
    BY <1>2, <2>1 DEF DeskMoves
  <2>2. CASE i # k
    <3>1. RowHolds(i)
      BY <1>2 DEF DraftInv, DraftGuards
    <3>2. drafts'[i] = drafts[i] /\ drafts[i].version \in Nat
      BY <1>1, <1>2, <2>2 DEF DraftRows
    <3> QED BY <1>1, <3>1, <3>2 DEF RowHolds
  <2> QED BY <2>1, <2>2
<1>5. RowsOrdered'
  <2> SUFFICES ASSUME NEW i \in 1..Len(drafts'), NEW j \in 1..Len(drafts'), i < j
               PROVE  /\ drafts'[i].version <= drafts'[j].version
                      /\ drafts'[i].version = drafts'[j].version => drafts'[i].status \in Unsent
    BY DEF RowsOrdered
  <2>1. /\ drafts[i].version <= drafts[j].version
        /\ drafts[i].version = drafts[j].version => drafts[i].status \in Unsent
    BY <1>2 DEF DraftInv, DraftGuards, RowsOrdered
  <2>2. CASE i = k
    BY <1>2, <2>1, <2>2 DEF DeskMoves
  <2>3. CASE i # k
    BY <1>2, <2>1, <2>3
  <2> QED BY <2>2, <2>3
<1>6. Cardinality(Counting') \in Nat
  BY <1>1, <1>2, CountMoves
<1>7. DraftShape'
  <2>1. desk' \in [Desks -> DeskRows]
    BY <1>1, <1>2
  <2>2. \A c \in Desks : desk'[c].draft \in 0..Len(drafts')
    BY <1>2, <1>3 DEF DeskMoves, DraftInv, DraftShape, DraftTypeOK
  <2>3. \A i \in 1..Len(drafts') :
          /\ drafts'[i].status \in Unsent => drafts'[i].wire = 0
          /\ drafts'[i].source \in 1..Len(thread') /\ thread'[drafts'[i].source] = "user"
    <3> SUFFICES ASSUME NEW i \in 1..Len(drafts')
                 PROVE  /\ drafts'[i].status \in Unsent => drafts'[i].wire = 0
                        /\ drafts'[i].source \in 1..Len(thread') /\ thread'[drafts'[i].source] = "user"
      OBVIOUS
    <3>1. drafts[i].source \in 1..Len(thread) /\ thread[drafts[i].source] = "user"
      BY <1>2 DEF DraftInv, DraftShape, DraftTypeOK
    <3>2. Len(thread') \in Len(thread)..LastMessage /\ thread'[drafts[i].source] = thread[drafts[i].source]
      BY <3>1 DEF TalkMoves
    <3>3. drafts[i].source \in 1..Len(thread')
      BY <1>1, <3>1, <3>2, DraftBounds
    <3>4. drafts'[i].status \in Unsent => drafts'[i].wire = 0
      BY <1>4 DEF RowHolds
    <3> QED BY <1>2, <3>1, <3>2, <3>3, <3>4
  <2> QED BY <1>1, <1>2, <1>6, <2>1, <2>2, <2>3, ShapeKeeps
<1>8. \A c \in Desks : DeskFits(c)'
  <2> SUFFICES ASSUME NEW c \in Desks, c # d PROVE DeskFits(c)'
    BY DEF DeskMoves
  <2>1. desk'[c] = desk[c] /\ DeskFits(c) /\ desk[c].draft \in 0..Len(drafts)
    BY <1>3 DEF DraftInv, DraftGuards, DraftShape, DraftTypeOK
  <2>2. ASSUME desk[c].pc = "claim" PROVE Claimable(c)'
    <3>1. Claimable(c) /\ talk' = talk /\ thread' = thread /\ desk[c].draft # 0
      BY <2>1, <2>2 DEF DeskFits, TalkMoves, RowFree
    <3>2. desk[c].draft \in 1..Len(drafts)
      BY <1>1, <2>1, <3>1
    <3>3. drafts'[desk[c].draft].status \in Unsent
      <4>1. CASE desk[c].draft = k
        BY <2>2, <3>1, <4>1 DEF DeskMoves
      <4>2. CASE desk[c].draft # k
        BY <1>2, <3>1, <3>2, <4>2 DEF Claimable
      <4> QED BY <4>1, <4>2
    <3> QED BY <1>2, <2>1, <3>1, <3>2, <3>3 DEF Claimable, Unanswered, LastIsClients, Last
  <2>3. ASSUME Delivers(c) PROVE Delivering(c)'
    <3>1. desk[c].draft # k /\ desk[c].draft \in 1..Len(drafts)
      BY <1>1, <2>1, <2>3 DEF DeskMoves, Delivers
    <3>2. Delivering(c) /\ drafts'[desk[c].draft] = drafts[desk[c].draft]
      BY <1>2, <2>1, <2>3, <3>1 DEF DeskFits
    <3>3. drafts[desk[c].draft].version \in Nat
      BY <1>1, <3>1 DEF DraftRows
    <3> QED BY <1>1, <2>1, <3>2, <3>3 DEF Delivering
  <2> QED BY <2>1, <2>2, <2>3 DEF DeskFits, Delivers
<1>9. OneDesk'
  <2>1. \A a, b \in Desks : desk'[a].pc = "claim" /\ desk'[b].pc = "claim" => a = b
    <3>1. \A c \in Desks : c # d => ~(desk'[d].pc = "claim" /\ desk'[c].pc = "claim")
      BY <1>3 DEF DeskMoves, RowFree
    <3> QED BY <1>3, <3>1 DEF DraftInv, DraftGuards, OneDesk
  <2>2. \A c \in Desks : c # d => ~(Delivers(c)' /\ Delivers(d)' /\ desk'[c].draft = desk'[d].draft)
    <3> SUFFICES ASSUME NEW c \in Desks, c # d, Delivers(c), new.draft # 0, new.pc \in Sending,
                        desk[c].draft = new.draft
                 PROVE  FALSE
      BY <1>3 DEF Delivers
    <3>1. CASE new.draft = k
      BY <3>1 DEF DeskMoves
    <3>2. CASE Delivers(d) /\ desk[d].draft = new.draft
      BY <3>2 DEF DraftInv, DraftGuards, OneDesk
    <3> QED BY <3>1, <3>2 DEF DeskMoves
  <2>3. \A a, b \in Desks : a # d /\ b # d /\ Delivers(a)' /\ Delivers(b)' /\ desk'[a].draft = desk'[b].draft => a = b
    BY <1>3 DEF DraftInv, DraftGuards, OneDesk, Delivers
  <2> QED BY <2>1, <2>2, <2>3 DEF OneDesk
<1> QED BY <1>4, <1>5, <1>7, <1>8, <1>9 DEF DraftInv, DraftGuards

\* The conversation moves while no request approves a draft.
LEMMA TalkMovesKeep ==
    ASSUME DraftInv, RowFree, TalkMoves, UNCHANGED <<drafts, desk>>
    PROVE  DraftInv'
<1>1. /\ drafts \in Seq(DraftRows) /\ desk \in [Desks -> DeskRows]
      /\ Len(drafts) \in Nat /\ Len(thread) \in Nat /\ Len(drafts) <= LastDraft
      /\ talk.version \in Nat /\ talk'.version \in Nat /\ talk'.version >= talk.version
      /\ \A i \in 1..Len(drafts) : drafts[i].version \in Nat
  <2>1. /\ drafts \in Seq(DraftRows) /\ desk \in [Desks -> DeskRows]
        /\ Len(drafts) \in Nat /\ Len(thread) \in Nat /\ Len(drafts) <= LastDraft
        /\ talk.version \in Nat /\ talk'.version \in Nat /\ talk'.version >= talk.version
        /\ \A i \in 1..Len(drafts) : drafts[i] \in DraftRows
    BY DEF DraftInv, DraftShape, DraftTypeOK, TalkMoves, Talks
  <2> QED BY <2>1 DEF DraftRows
<1>2. Cardinality(Counting') \in Nat
  <2>1. Counting' = Counting /\ Counting \subseteq Desks
    BY DEF Counting
  <2> QED BY <2>1, DeskRequests, FS_Subset, FS_CardinalityType
<1>3. \A i \in 1..Len(drafts') : RowHolds(i)'
  BY <1>1 DEF DraftInv, DraftGuards, RowHolds
<1>4. DraftShape'
  <2>1. \A i \in 1..Len(drafts') :
          /\ drafts'[i].status \in Unsent => drafts'[i].wire = 0
          /\ drafts'[i].source \in 1..Len(thread') /\ thread'[drafts'[i].source] = "user"
    <3> SUFFICES ASSUME NEW i \in 1..Len(drafts)
                 PROVE  /\ drafts[i].status \in Unsent => drafts[i].wire = 0
                        /\ drafts[i].source \in 1..Len(thread') /\ thread'[drafts[i].source] = "user"
      OBVIOUS
    <3>1. drafts[i].source \in 1..Len(thread) /\ thread[drafts[i].source] = "user" /\ RowHolds(i)
      BY DEF DraftInv, DraftShape, DraftTypeOK, DraftGuards
    <3>2. Len(thread') \in Len(thread)..LastMessage /\ thread'[drafts[i].source] = thread[drafts[i].source]
      BY <3>1 DEF TalkMoves
    <3>3. drafts[i].source \in 1..Len(thread')
      BY <1>1, <3>1, <3>2, DraftBounds
    <3> QED BY <3>1, <3>2, <3>3 DEF RowHolds
  <2>2. \A c \in Desks : desk'[c].draft \in 0..Len(drafts')
    BY DEF DraftInv, DraftShape, DraftTypeOK
  <2> QED BY <1>1, <1>2, <2>1, <2>2, ShapeKeeps
<1>5. RowsOrdered'
  BY DEF DraftInv, DraftGuards, RowsOrdered
<1>6. \A c \in Desks : DeskFits(c)'
  <2> SUFFICES ASSUME NEW c \in Desks PROVE DeskFits(c)'
    OBVIOUS
  <2>1. desk' = desk /\ drafts' = drafts /\ DeskFits(c) /\ desk[c].draft \in 0..Len(drafts) /\ desk[c].pc # "claim"
    BY DEF DraftInv, DraftGuards, DraftShape, DraftTypeOK, RowFree
  <2>2. ASSUME Delivers(c) PROVE Delivering(c)'
    <3>1. desk[c].draft \in 1..Len(drafts) /\ Delivering(c)
      BY <1>1, <2>1, <2>2 DEF Delivers, DeskFits
    <3> QED BY <1>1, <2>1, <3>1 DEF Delivering
  <2> QED BY <2>1, <2>2 DEF DeskFits, Delivers
<1>7. OneDesk'
  BY DEF DraftInv, DraftGuards, OneDesk, Delivers
<1> QED BY <1>3, <1>4, <1>5, <1>6, <1>7 DEF DraftInv, DraftGuards

\* The conversation as a request's step that leaves it alone sees it.
LEMMA TalkStays ==
    ASSUME DraftInv, UNCHANGED <<talk, thread>>, Cardinality(Counting') \in Nat,
           Cardinality(Counting) \in Nat, Cardinality(Counting') <= Cardinality(Counting)
    PROVE  TalkMoves
<1>1. /\ thread \in Seq({"user", "assistant"}) /\ Len(thread) \in Nat /\ Len(thread) <= LastMessage
      /\ talk \in Talks /\ talk.owed <= Len(thread)
      /\ talk.version + talk.owed + Cardinality(Counting) <= Len(thread) + talk.switches
  BY DraftBounds DEF DraftInv, DraftShape, DraftTypeOK, Talks
<1>2. talk.version \in Nat /\ talk.owed \in Nat /\ talk.switches \in Nat
  BY <1>1 DEF Talks
<1>3. talk'.version + talk'.owed + Cardinality(Counting') <= Len(thread') + talk'.switches
  BY <1>1, <1>2
<1> QED BY <1>1, <1>2, <1>3, DraftBounds DEF TalkMoves

\* A step that only moves a request on, to a place where it neither approves nor delivers.
LEMMA DeskTurns ==
    ASSUME DraftInv, NEW d \in Desks, NEW new \in DeskRows, desk' = [desk EXCEPT ![d] = new],
           UNCHANGED <<talk, thread, drafts>>, new.draft \in 0..Len(drafts), new.pc # "count",
           new.draft # 0 => new.kind = "send" /\ new.pc \notin {"idle", "source", "save"} \cup Sending,
           new.pc = "approve" => new.draft # 0, new.pc # "claim"
    PROVE  DraftInv'
<1>1. desk \in [Desks -> DeskRows] /\ desk'[d] = new
  BY DEF DraftInv, DraftShape
<1>2. TalkMoves
  BY <1>1, CountMoves, TalkStays
<1>3. DeskFits(d)'
  BY <1>1 DEF DeskFits, Delivers
<1>4. DeskMoves(d, new, 0)
  BY <1>3 DEF DeskMoves, DraftInv, DraftShape
<1> QED BY <1>2, <1>4, DeskMovesKeep

LEMMA TalkFits ==
    ASSUME NEW t \in Talks, NEW v \in Nat, NEW m \in {"DRAFT", "ASSISTED"},
           NEW o \in 0..LastMessage, NEW s \in 0..LastSwitch
    PROVE  /\ [t EXCEPT !.owed = o] \in Talks
           /\ [t EXCEPT !.version = v] \in Talks
           /\ [t EXCEPT !.owed = o, !.version = v, !.closed = FALSE] \in Talks
           /\ [t EXCEPT !.mode = m, !.version = v, !.switches = s] \in Talks
           /\ [t EXCEPT !.closed = TRUE, !.switches = s] \in Talks
  BY DEF Talks

LEMMA ThreadKept ==
    ASSUME DraftInv, ClientSays \/ ClientCounted \/ SwitchMode \/ CloseTalk
    PROVE  DraftInv'
<1>1. /\ thread \in Seq({"user", "assistant"}) /\ Len(thread) \in Nat /\ Len(thread) <= LastMessage
      /\ talk \in Talks /\ talk.owed <= Len(thread)
      /\ talk.version + talk.owed + Cardinality(Counting) <= Len(thread) + talk.switches
  BY DraftBounds DEF DraftInv, DraftShape, DraftTypeOK, Talks
<1>2. /\ talk.version \in Nat /\ talk.owed \in 0..LastMessage /\ talk.switches \in 0..LastSwitch
      /\ talk.mode \in {"DRAFT", "ASSISTED"}
  BY <1>1 DEF Talks
<1>3. RowFree /\ UNCHANGED <<drafts, desk>>
  BY DEF ClientSays, ClientCounted, SwitchMode, CloseTalk
<1>4. Cardinality(Counting) \in Nat /\ Counting' = Counting
  <2>1. Counting' = Counting /\ Counting \subseteq Desks
    BY <1>3 DEF Counting
  <2> QED BY <2>1, DeskRequests, FS_Subset, FS_CardinalityType
<1>5. CASE ClientSays
  <2>1. /\ thread' = Append(thread, "user") /\ Len(thread) < LastMessage
        /\ talk' = [talk EXCEPT !.owed = talk.owed + 1]
    BY <1>5 DEF ClientSays
  <2>2. talk.owed + 1 \in 0..LastMessage
    <3>1. talk.owed \in Nat /\ talk.owed < LastMessage
      BY <1>1, <1>2, <2>1, DraftBounds
    <3> QED BY <3>1, DraftBounds
  <2>3. talk' \in Talks
    BY <1>1, <1>2, <2>1, <2>2, TalkFits
  <2>4. talk'.version = talk.version /\ talk'.owed = talk.owed + 1 /\ talk'.switches = talk.switches
    BY <1>1, <2>1 DEF Talks
  <2>5. /\ thread' \in Seq({"user", "assistant"}) /\ Len(thread') = Len(thread) + 1
        /\ \A i \in 1..Len(thread) : thread'[i] = thread[i]
    BY <1>1, <2>1
  <2>6. Len(thread') \in Len(thread)..LastMessage
    BY <1>1, <2>1, <2>5, DraftBounds
  <2>7. /\ talk'.version + talk'.owed + Cardinality(Counting') <= Len(thread') + talk'.switches
        /\ talk'.owed <= Len(thread') /\ talk'.version >= talk.version
    <3>1. talk'.version \in Nat /\ talk'.owed \in Nat /\ talk'.switches \in Nat
      BY <2>3 DEF Talks
    <3> QED BY <1>1, <1>2, <1>4, <2>4, <2>5, <3>1, SMTT(30)
  <2>8. TalkMoves
    BY <1>3, <2>3, <2>5, <2>6, <2>7 DEF TalkMoves
  <2> QED BY <1>3, <2>8, TalkMovesKeep
<1>6. CASE ClientCounted
  <2>1. /\ thread' = thread /\ talk.owed > 0
        /\ talk' = [talk EXCEPT !.owed = talk.owed - 1, !.version = talk.version + 1, !.closed = FALSE]
    BY <1>6 DEF ClientCounted
  <2>2. talk' \in Talks
    <3>1. talk.owed - 1 \in 0..LastMessage /\ talk.version + 1 \in Nat
      BY <1>2, <2>1, DraftBounds
    <3> QED BY <1>1, <1>2, <2>1, <3>1, TalkFits
  <2>3. talk'.version = talk.version + 1 /\ talk'.owed = talk.owed - 1 /\ talk'.switches = talk.switches
    BY <1>1, <2>1 DEF Talks
  <2>4. thread' = thread
    BY <2>1
  <2>5. /\ talk'.version + talk'.owed + Cardinality(Counting') <= Len(thread') + talk'.switches
        /\ talk'.owed <= Len(thread') /\ talk'.version >= talk.version
    BY <1>1, <1>2, <1>4, <2>3, <2>4, SMTT(30)
  <2>6. Len(thread') \in Len(thread)..LastMessage
    BY <1>1, <2>4, DraftBounds
  <2>7. TalkMoves
    BY <1>1, <1>3, <2>2, <2>4, <2>5, <2>6 DEF TalkMoves
  <2> QED BY <1>3, <2>7, TalkMovesKeep
<1>7. CASE SwitchMode
  <2>1. /\ thread' = thread /\ talk.switches < LastSwitch
        /\ talk' = [talk EXCEPT !.mode = IF talk.mode = "DRAFT" THEN "ASSISTED" ELSE "DRAFT",
                                !.version = talk.version + 1, !.switches = talk.switches + 1]
    BY <1>7 DEF SwitchMode
  <2>2. talk' \in Talks
    <3>1. talk.switches + 1 \in 0..LastSwitch /\ talk.version + 1 \in Nat
      BY <1>2, <2>1, DraftBounds
    <3> QED BY <1>1, <1>2, <2>1, <3>1, TalkFits
  <2>3. talk'.version = talk.version + 1 /\ talk'.owed = talk.owed /\ talk'.switches = talk.switches + 1
    BY <1>1, <2>1 DEF Talks
  <2>4. thread' = thread
    BY <2>1
  <2>5. /\ talk'.version + talk'.owed + Cardinality(Counting') <= Len(thread') + talk'.switches
        /\ talk'.owed <= Len(thread') /\ talk'.version >= talk.version
    BY <1>1, <1>2, <1>4, <2>3, <2>4
  <2>6. Len(thread') \in Len(thread)..LastMessage
    BY <1>1, <2>4, DraftBounds
  <2>7. TalkMoves
    BY <1>1, <1>3, <2>2, <2>4, <2>5, <2>6 DEF TalkMoves
  <2> QED BY <1>3, <2>7, TalkMovesKeep
<1>8. CASE CloseTalk
  <2>1. /\ thread' = thread /\ talk.switches < LastSwitch
        /\ talk' = [talk EXCEPT !.closed = TRUE, !.switches = talk.switches + 1]
    BY <1>8 DEF CloseTalk
  <2>2. talk' \in Talks
    <3>1. talk.switches + 1 \in 0..LastSwitch /\ talk.version + 1 \in Nat
      BY <1>2, <2>1, DraftBounds
    <3> QED BY <1>1, <1>2, <2>1, <3>1, TalkFits
  <2>3. talk'.version = talk.version /\ talk'.owed = talk.owed /\ talk'.switches = talk.switches + 1
    BY <1>1, <2>1 DEF Talks
  <2>4. thread' = thread
    BY <2>1
  <2>5. /\ talk'.version + talk'.owed + Cardinality(Counting') <= Len(thread') + talk'.switches
        /\ talk'.owed <= Len(thread') /\ talk'.version >= talk.version
    BY <1>1, <1>2, <1>4, <2>3, <2>4
  <2>6. Len(thread') \in Len(thread)..LastMessage
    BY <1>1, <2>4, DraftBounds
  <2>7. TalkMoves
    BY <1>1, <1>3, <2>2, <2>4, <2>5, <2>6 DEF TalkMoves
  <2> QED BY <1>3, <2>7, TalkMovesKeep
<1> QED BY <1>5, <1>6, <1>7, <1>8

\* A step of the request that approves or delivers draft k, which turns the draft's row.
LEMMA RowTurns ==
    ASSUME DraftInv, NEW d \in Desks, NEW new \in DeskRows, desk' = [desk EXCEPT ![d] = new],
           UNCHANGED <<talk, thread>>, NEW k \in 1..Len(drafts), NEW row \in DraftRows,
           drafts' = [drafts EXCEPT ![k] = row],
           row.version = drafts[k].version, row.source = drafts[k].source,
           desk[d].draft = k, Delivers(d) \/ desk[d].pc = "claim",
           new.draft = k, new.kind = desk[d].kind, new.pc \in {"check", "record", "failed", "done"},
           row.status \in Unsent => row.wire = 0,
           row.status = "SENT" => row.version < talk.version,
           new.pc # "done" => row.status = "SENDING",
           new.pc = "check" => row.wire = 0
    PROVE  DraftInv'
<1>1. /\ drafts \in Seq(DraftRows) /\ desk \in [Desks -> DeskRows] /\ Len(drafts) \in Nat
      /\ desk'[d] = new /\ talk.version \in Nat
  BY DEF DraftInv, DraftShape, DraftTypeOK
<1>2. /\ DeskFits(d) /\ RowsOrdered /\ RowHolds(k) /\ drafts[k].version \in Nat
  BY <1>1 DEF DraftInv, DraftGuards, DraftRows
<1>3. /\ drafts' \in Seq(DraftRows) /\ Len(drafts') = Len(drafts) /\ drafts'[k] = row
      /\ \A i \in 1..Len(drafts) : i # k => drafts'[i] = drafts[i]
  BY <1>1
<1>4. TalkMoves
  BY <1>1, CountMoves, TalkStays
<1>5. desk[d].draft # 0
  BY <1>1
<1>6. CASE Delivers(d)
  <2>1. drafts[k].status = "SENDING" /\ desk[d].kind = "send"
    BY <1>2, <1>5, <1>6 DEF DeskFits, Delivering
  <2>2. \A j \in 1..Len(drafts) : ~(k < j /\ drafts[k].version = drafts[j].version)
    BY <1>2, <2>1 DEF RowsOrdered, Unsent
  <2>3. \A c \in Desks \ {d} : desk[c].draft = k => ~Delivers(c) /\ desk[c].pc # "claim"
    <3> SUFFICES ASSUME NEW c \in Desks \ {d}, desk[c].draft = k PROVE ~Delivers(c) /\ desk[c].pc # "claim"
      OBVIOUS
    <3>1. ~Delivers(c)
      BY <1>6 DEF DraftInv, DraftGuards, OneDesk
    <3>2. desk[c].pc = "claim" => drafts[k].status \in Unsent
      BY DEF DraftInv, DraftGuards, DeskFits, Claimable
    <3> QED BY <2>1, <3>1, <3>2 DEF Unsent
  <2>4. DeskFits(d)'
    BY <1>1, <1>3, <2>1 DEF DeskFits, Delivers, Delivering, Sending
  <2>5. RowHolds(k)'
    BY <1>2, <1>3 DEF RowHolds
  <2>6. \A i \in 1..Len(drafts) : /\ drafts'[i].version = drafts[i].version
                                  /\ drafts'[i].source = drafts[i].source
    BY <1>3
  <2>7. new.draft \in 0..Len(drafts) /\ k # 0
    BY <1>1
  <2>8. DeskMoves(d, new, k)
    BY <1>3, <2>2, <2>3, <2>4, <2>5, <2>6, <2>7 DEF DeskMoves
  <2> QED BY <1>4, <2>8, DeskMovesKeep
<1>7. CASE desk[d].pc = "claim"
  <2>1. k = Len(drafts) /\ drafts[k].status \in Unsent /\ desk[d].kind = "send"
    BY <1>2, <1>5, <1>7 DEF DeskFits, Claimable
  <2>2. \A j \in 1..Len(drafts) : ~(k < j)
    BY <1>1, <2>1
  <2>3. \A c \in Desks \ {d} : desk[c].draft = k => ~Delivers(c) /\ desk[c].pc # "claim"
    <3> SUFFICES ASSUME NEW c \in Desks \ {d}, desk[c].draft = k PROVE ~Delivers(c) /\ desk[c].pc # "claim"
      OBVIOUS
    <3>1. desk[c].pc # "claim"
      BY <1>7 DEF DraftInv, DraftGuards, OneDesk
    <3>2. Delivers(c) => drafts[k].status = "SENDING"
      BY DEF DraftInv, DraftGuards, DeskFits, Delivering
    <3> QED BY <2>1, <3>1, <3>2 DEF Unsent
  <2>4. DeskFits(d)'
    BY <1>1, <1>3, <2>1 DEF DeskFits, Delivers, Delivering, Sending
  <2>5. RowHolds(k)'
    BY <1>2, <1>3 DEF RowHolds
  <2>6. \A i \in 1..Len(drafts) : /\ drafts'[i].version = drafts[i].version
                                  /\ drafts'[i].source = drafts[i].source
    BY <1>3
  <2>7. new.draft \in 0..Len(drafts) /\ k # 0
    BY <1>1
  <2>8. DeskMoves(d, new, k)
    BY <1>3, <2>2, <2>3, <2>4, <2>5, <2>6, <2>7 DEF DeskMoves
  <2> QED BY <1>4, <2>8, DeskMovesKeep
<1> QED BY <1>6, <1>7

LEMMA DeskRowFits ==
    ASSUME NEW r \in DeskRows, NEW v \in Nat, NEW i \in Nat,
           NEW pc \in {"idle", "source", "save", "approve", "claim", "done"} \cup Sending
    PROVE  /\ [r EXCEPT !.pc = pc] \in DeskRows
           /\ [r EXCEPT !.pc = pc, !.version = v] \in DeskRows
           /\ [r EXCEPT !.pc = pc, !.source = i] \in DeskRows
           /\ [r EXCEPT !.pc = pc, !.version = v, !.source = i] \in DeskRows
           /\ [r EXCEPT !.pc = pc, !.draft = i] \in DeskRows
  BY DEF DeskRows

LEMMA PreparingKept ==
    ASSUME DraftInv, NEW d \in Desks, Compose(d) \/ ReadSource(d) \/ EditDraft(d) \/ RunAgain(d)
    PROVE  DraftInv'
<1>1. /\ desk \in [Desks -> DeskRows] /\ desk[d] \in DeskRows /\ talk.version \in Nat /\ Len(thread) \in Nat
      /\ DeskFits(d) /\ desk[d].draft \in 0..Len(drafts) /\ Len(drafts) \in Nat
  BY DraftBounds DEF DraftInv, DraftShape, DraftGuards, DraftTypeOK
<1>2. UNCHANGED <<talk, thread, drafts>>
  BY DEF Compose, ReadSource, EditDraft, RunAgain
<1>3. desk[d].draft = 0
  BY <1>1 DEF DeskFits, Compose, ReadSource, EditDraft, RunAgain
<1>4. ASSUME NEW new \in DeskRows, desk' = [desk EXCEPT ![d] = new], new.draft = desk[d].draft,
             new.pc \in {"idle", "source", "save"}
      PROVE  DraftInv'
  <2>1. new.draft \in 0..Len(drafts) /\ new.draft = 0 /\ new.pc # "count" /\ new.pc # "approve" /\ new.pc # "claim"
    BY <1>1, <1>3, <1>4
  <2> QED BY <1>2, <1>4, <2>1, DeskTurns
<1>5. CASE Compose(d)
  <2> DEFINE new == [desk[d] EXCEPT !.pc = "source", !.version = talk.version]
  <2>1. desk' = [desk EXCEPT ![d] = new]
    BY <1>1, <1>5 DEF Compose
  <2>2. new \in DeskRows
    BY <1>1 DEF DeskRows
  <2>3. new.draft = desk[d].draft /\ new.pc = "source"
    BY <1>1 DEF DeskRows
  <2> HIDE DEF new
  <2> QED BY <1>4, <2>1, <2>2, <2>3
<1>6. CASE ReadSource(d)
  <2>1. PICK i \in 0..Len(thread) : desk' = [desk EXCEPT ![d].pc = "save", ![d].source = i]
    BY <1>6 DEF ReadSource
  <2> DEFINE new == [desk[d] EXCEPT !.pc = "save", !.source = i]
  <2>2. desk' = [desk EXCEPT ![d] = new]
    BY <1>1, <2>1
  <2>3. new \in DeskRows
    <3>1. i \in Nat /\ desk[d] \in DeskRows
      BY <1>1
    <3> QED BY <3>1, DeskRowFits
  <2>4. new.draft = desk[d].draft /\ new.pc = "save"
    BY <1>1 DEF DeskRows
  <2> HIDE DEF new
  <2> QED BY <1>4, <2>2, <2>3, <2>4
<1>7. CASE EditDraft(d)
  <2> DEFINE new == [desk[d] EXCEPT !.pc = "save", !.version = talk.version, !.source = Len(thread)]
  <2>1. desk' = [desk EXCEPT ![d] = new]
    BY <1>1, <1>7 DEF EditDraft
  <2>2. new \in DeskRows
    BY <1>1 DEF DeskRows
  <2>3. new.draft = desk[d].draft /\ new.pc = "save"
    BY <1>1 DEF DeskRows
  <2> HIDE DEF new
  <2> QED BY <1>4, <2>1, <2>2, <2>3
<1>8. CASE RunAgain(d)
  <2> DEFINE new == [desk[d] EXCEPT !.pc = "idle"]
  <2>1. desk' = [desk EXCEPT ![d] = new]
    BY <1>8 DEF RunAgain, Goto
  <2>2. new \in DeskRows
    BY <1>1 DEF DeskRows
  <2>3. new.draft = desk[d].draft /\ new.pc = "idle"
    BY <1>1 DEF DeskRows
  <2> HIDE DEF new
  <2> QED BY <1>4, <2>1, <2>2, <2>3
<1> QED BY <1>5, <1>6, <1>7, <1>8

LEMMA PressKept ==
    ASSUME DraftInv, NEW d \in Desks, PressSend(d)
    PROVE  DraftInv'
<1>1. /\ desk \in [Desks -> DeskRows] /\ desk[d] \in DeskRows
      /\ DeskFits(d) /\ desk[d].draft \in 0..Len(drafts) /\ Len(drafts) \in Nat
  BY DraftBounds DEF DraftInv, DraftShape, DraftGuards, DraftTypeOK
<1>2. UNCHANGED <<talk, thread, drafts>> /\ desk[d].draft = 0
  BY <1>1 DEF PressSend, DeskFits
<1>3. CASE desk[d].kind = "send" /\ \E i \in 1..Len(drafts) :
             desk' = [desk EXCEPT ![d].pc = "approve", ![d].draft = i]
  <2>1. PICK i \in 1..Len(drafts) : desk' = [desk EXCEPT ![d].pc = "approve", ![d].draft = i]
    BY <1>3
  <2> DEFINE new == [desk[d] EXCEPT !.pc = "approve", !.draft = i]
  <2>2. desk' = [desk EXCEPT ![d] = new]
    BY <1>1, <2>1
  <2>3. new \in DeskRows
    <3>1. i \in Nat /\ desk[d] \in DeskRows
      BY <1>1
    <3> QED BY <3>1, DeskRowFits
  <2>4. new.draft = i /\ new.pc = "approve" /\ new.kind = desk[d].kind
    BY <1>1 DEF DeskRows
  <2> HIDE DEF new
  <2>5. new.draft \in 0..Len(drafts) /\ new.draft # 0 /\ new.pc \notin {"idle", "source", "save"} \cup Sending
    BY <1>1, <2>4 DEF Sending
  <2> QED BY <1>2, <1>3, <2>2, <2>3, <2>4, <2>5, DeskTurns
<1>4. CASE Goto(d, "check")
  <2> DEFINE new == [desk[d] EXCEPT !.pc = "check"]
  <2>1. desk' = [desk EXCEPT ![d] = new]
    BY <1>4 DEF Goto
  <2>2. new \in DeskRows
    BY <1>1, DeskRowFits DEF Sending
  <2>3. new.draft = desk[d].draft /\ new.pc = "check"
    BY <1>1 DEF DeskRows
  <2> HIDE DEF new
  <2> QED BY <1>1, <1>2, <2>1, <2>2, <2>3, DeskTurns
<1> QED BY <1>3, <1>4 DEF PressSend

LEMMA ReadClaimKept ==
    ASSUME DraftInv, NEW d \in Desks, ReadClaim(d)
    PROVE  DraftInv'
<1>1. /\ desk \in [Desks -> DeskRows] /\ desk[d] \in DeskRows /\ drafts \in Seq(DraftRows)
      /\ DeskFits(d) /\ desk[d].draft \in 0..Len(drafts) /\ Len(drafts) \in Nat
  BY DraftBounds DEF DraftInv, DraftShape, DraftGuards, DraftTypeOK
<1>2. /\ UNCHANGED <<talk, thread, drafts>> /\ RowFree /\ desk[d].pc = "approve"
      /\ desk[d].draft # 0 /\ desk[d].kind = "send"
  BY <1>1 DEF ReadClaim, DeskFits
<1> DEFINE new(pc) == [desk[d] EXCEPT !.pc = pc]
<1>3. \A pc \in {"claim", "done"} :
        new(pc) \in DeskRows /\ new(pc).pc = pc /\ new(pc).draft = desk[d].draft /\ new(pc).kind = desk[d].kind
  BY <1>1 DEF DeskRows
<1>4. CASE Goto(d, "done")
  <2>1. desk' = [desk EXCEPT ![d] = new("done")]
    BY <1>4 DEF Goto
  <2>2. new("done").pc \notin {"idle", "source", "save"} \cup Sending
    BY <1>3 DEF Sending
  <2> HIDE DEF new
  <2> QED BY <1>1, <1>2, <1>3, <2>1, <2>2, DeskTurns
<1>5. CASE /\ Goto(d, "claim")
           /\ ~talk.closed /\ Reviewable(desk[d].draft, talk.version) /\ Unanswered(drafts[desk[d].draft].source)
  <2>1. desk' = [desk EXCEPT ![d] = new("claim")]
    BY <1>5 DEF Goto
  <2> HIDE DEF new
  <2>2. desk'[d] = new("claim") /\ desk'[d].draft = desk[d].draft
    BY <1>1, <1>3, <2>1
  <2>3. Claimable(d)'
    BY <1>2, <1>5, <2>2 DEF Claimable, Reviewable, Unsent, Unanswered, LastIsClients, Last
  <2>4. DeskFits(d)'
    BY <1>2, <1>3, <2>2, <2>3 DEF DeskFits, Delivers, Sending
  <2>5. DeskMoves(d, new("claim"), 0)
    BY <1>1, <1>2, <1>3, <2>1, <2>4 DEF DeskMoves, Sending
  <2>6. TalkMoves
    BY <1>1, <1>2, <1>3, <2>1, CountMoves, TalkStays
  <2> QED BY <2>5, <2>6, DeskMovesKeep
<1> QED BY <1>4, <1>5 DEF ReadClaim

LEMMA WriteClaimKept ==
    ASSUME DraftInv, NEW d \in Desks, WriteClaim(d)
    PROVE  DraftInv'
<1>1. /\ desk \in [Desks -> DeskRows] /\ desk[d] \in DeskRows /\ drafts \in Seq(DraftRows)
      /\ DeskFits(d) /\ desk[d].draft \in 0..Len(drafts) /\ Len(drafts) \in Nat
      /\ \A i \in 1..Len(drafts) : RowHolds(i)
  BY DraftBounds DEF DraftInv, DraftShape, DraftGuards, DraftTypeOK
<1>2. /\ UNCHANGED <<talk, thread>> /\ desk[d].pc = "claim" /\ desk[d].draft \in 1..Len(drafts)
      /\ drafts[desk[d].draft].status \in Unsent
  BY <1>1 DEF WriteClaim, DeskFits, Claimable
<1> DEFINE new == [desk[d] EXCEPT !.pc = "check"]
           row == [drafts[desk[d].draft] EXCEPT !.status = "SENDING"]
<1>3. new \in DeskRows /\ new.pc = "check" /\ new.draft = desk[d].draft /\ new.kind = desk[d].kind
  BY <1>1 DEF DeskRows, Sending
<1>4. drafts[desk[d].draft] \in DraftRows /\ drafts[desk[d].draft].wire = 0
  BY <1>1, <1>2 DEF RowHolds
<1>5. /\ row \in DraftRows /\ row.status = "SENDING" /\ row.wire = 0
      /\ row.version = drafts[desk[d].draft].version /\ row.source = drafts[desk[d].draft].source
  BY <1>4 DEF DraftRows, DraftStatus
<1>6. desk' = [desk EXCEPT ![d] = new] /\ drafts' = [drafts EXCEPT ![desk[d].draft] = row]
  BY DEF WriteClaim, Goto
<1> HIDE DEF new, row
<1> QED BY <1>2, <1>3, <1>5, <1>6, RowTurns DEF Unsent

\* A request that delivers draft k marks it and is done, or calls the provider.
LEMMA DeliveryTurns ==
    ASSUME DraftInv, NEW d \in Desks, desk[d].pc \in Sending, UNCHANGED <<talk, thread>>,
           NEW k \in 1..Len(drafts), desk[d].draft = k, NEW row \in DraftRows,
           drafts' = [drafts EXCEPT ![k] = row],
           row.version = drafts[k].version, row.source = drafts[k].source,
           NEW pc \in {"record", "failed", "done"}, Goto(d, pc),
           row.status \in Unsent => row.wire = 0,
           row.status = "SENT" => desk[d].pc = "finish",
           pc # "done" => row.status = "SENDING"
    PROVE  DraftInv'
<1>1. /\ desk \in [Desks -> DeskRows] /\ desk[d] \in DeskRows
      /\ DeskFits(d) /\ desk[d].draft # 0 /\ Len(drafts) \in Nat
  BY DraftBounds DEF DraftInv, DraftShape, DraftGuards, DraftTypeOK
<1>2. Delivers(d) /\ Delivering(d)
  BY <1>1 DEF Delivers, DeskFits
<1> DEFINE new == [desk[d] EXCEPT !.pc = pc]
<1>3. new \in DeskRows /\ new.pc = pc /\ new.draft = k /\ new.kind = desk[d].kind
  BY <1>1 DEF DeskRows, Sending
<1>4. desk' = [desk EXCEPT ![d] = new]
  BY DEF Goto
<1>5. row.status = "SENT" => row.version < talk.version
  BY <1>2 DEF Delivering
<1> HIDE DEF new
<1>6. new.pc \in {"check", "record", "failed", "done"} /\ new.pc # "check"
  BY <1>3
<1> QED BY <1>2, <1>3, <1>4, <1>5, <1>6, RowTurns

\* The end of a request: its draft gets the status, or there is none to mark.
LEMMA FinishedKept ==
    ASSUME DraftInv, NEW d \in Desks, desk[d].pc \in Sending, UNCHANGED <<talk, thread>>, Goto(d, "done"),
           NEW status \in DraftStatus, drafts' = Finished(d, status),
           status \in Unsent => desk[d].pc = "check", status = "SENT" => desk[d].pc = "finish"
    PROVE  DraftInv'
<1>1. /\ desk \in [Desks -> DeskRows] /\ desk[d] \in DeskRows /\ drafts \in Seq(DraftRows)
      /\ DeskFits(d) /\ desk[d].draft \in 0..Len(drafts) /\ Len(drafts) \in Nat
  BY DraftBounds DEF DraftInv, DraftShape, DraftGuards, DraftTypeOK
<1>2. CASE desk[d].draft = 0
  <2> DEFINE new == [desk[d] EXCEPT !.pc = "done"]
  <2>1. new \in DeskRows /\ new.pc = "done" /\ new.draft = 0
    BY <1>1, <1>2 DEF DeskRows
  <2>2. desk' = [desk EXCEPT ![d] = new] /\ drafts' = drafts
    BY <1>2 DEF Goto, Finished
  <2> HIDE DEF new
  <2>3. UNCHANGED <<talk, thread, drafts>> /\ new.draft \in 0..Len(drafts)
    BY <1>1, <2>1, <2>2
  <2> QED BY <2>1, <2>2, <2>3, DeskTurns
<1>3. CASE desk[d].draft # 0
  <2> DEFINE k == desk[d].draft
             row == [drafts[k] EXCEPT !.status = status]
  <2>1. Delivering(d) /\ k \in 1..Len(drafts) /\ drafts[k] \in DraftRows
    BY <1>1, <1>3 DEF Delivers, DeskFits
  <2>2. drafts[k].status = "SENDING" /\ (desk[d].pc = "check" => drafts[k].wire = 0)
    BY <2>1 DEF Delivering
  <2>3. /\ row \in DraftRows /\ row.version = drafts[k].version /\ row.source = drafts[k].source
        /\ row.status = status /\ row.wire = drafts[k].wire
    BY <2>1 DEF DraftRows
  <2>4. drafts' = [drafts EXCEPT ![k] = row] /\ desk[d].draft = k
    BY <1>3, <2>2 DEF Finished
  <2> HIDE DEF k, row
  <2> QED BY <2>1, <2>2, <2>3, <2>4, DeliveryTurns
<1> QED BY <1>2, <1>3

LEMMA CallKept ==
    ASSUME DraftInv, NEW d \in Desks, CallProvider(d)
    PROVE  DraftInv'
<1>1. /\ desk \in [Desks -> DeskRows] /\ desk[d] \in DeskRows /\ drafts \in Seq(DraftRows)
      /\ DeskFits(d) /\ desk[d].draft \in 0..Len(drafts) /\ Len(drafts) \in Nat
  BY DraftBounds DEF DraftInv, DraftShape, DraftGuards, DraftTypeOK
<1>2. UNCHANGED <<talk, thread>> /\ desk[d].pc = "check" /\ desk[d].pc \in Sending
  BY DEF CallProvider, Sending
<1>3. CASE desk[d].draft = 0
  <2>1. PICK pc \in {"record", "failed"} : Goto(d, pc) /\ drafts' = drafts
    BY <1>3 DEF CallProvider
  <2> DEFINE new == [desk[d] EXCEPT !.pc = pc]
  <2>2. new \in DeskRows /\ new.pc = pc /\ new.draft = 0
    BY <1>1, <1>3 DEF DeskRows, Sending
  <2>3. desk' = [desk EXCEPT ![d] = new]
    BY <2>1 DEF Goto
  <2> HIDE DEF new
  <2>4. UNCHANGED <<talk, thread, drafts>> /\ new.draft \in 0..Len(drafts)
    BY <1>1, <1>2, <2>1, <2>2
  <2> QED BY <2>2, <2>3, <2>4, DeskTurns
<1>4. CASE desk[d].draft # 0
  <2> DEFINE k == desk[d].draft
             row == [drafts[k] EXCEPT !.wire = @ + 1]
  <2>1. k \in 1..Len(drafts) /\ drafts[k] \in DraftRows /\ drafts[k].wire = 0 /\ drafts[k].status = "SENDING"
    BY <1>1, <1>2, <1>4 DEF DeskFits, Delivers, Delivering
  <2>2. /\ row \in DraftRows /\ row.version = drafts[k].version /\ row.source = drafts[k].source
        /\ row.status = "SENDING"
    BY <2>1 DEF DraftRows
  <2>3. "SENDING" \notin Unsent /\ desk[d].draft = k
    BY DEF Unsent
  <2>4. /\ \E pc \in {"record", "failed"} : Goto(d, pc)
        /\ drafts' = drafts \/ drafts' = [drafts EXCEPT ![k] = row]
    BY <1>4 DEF CallProvider
  <2>5. PICK pc \in {"record", "failed"} : Goto(d, pc)
    BY <2>4
  <2> HIDE DEF k, row
  <2>6. CASE drafts' = drafts
    <3>1. drafts' = [drafts EXCEPT ![k] = drafts[k]]
      BY <1>1, <2>1, <2>6
    <3> QED BY <1>2, <2>1, <2>3, <2>5, <3>1, DeliveryTurns
  <2>7. CASE drafts' = [drafts EXCEPT ![k] = row]
    BY <1>2, <2>1, <2>2, <2>3, <2>5, <2>7, DeliveryTurns
  <2> QED BY <2>4, <2>6, <2>7
<1> QED BY <1>3, <1>4

LEMMA EndKept ==
    ASSUME DraftInv, NEW d \in Desks, RefuseReply(d) \/ FinishReply(d) \/ LeaveForReview(d)
    PROVE  DraftInv'
<1>1. CASE RefuseReply(d)
  BY <1>1, FinishedKept DEF RefuseReply, Sending, DraftStatus
<1>2. CASE FinishReply(d)
  BY <1>2, FinishedKept DEF FinishReply, Sending, DraftStatus, Unsent
<1>3. CASE LeaveForReview(d)
  BY <1>3, FinishedKept DEF LeaveForReview, Sending, DraftStatus, Unsent
<1> QED BY <1>1, <1>2, <1>3

LEMMA StoringKept ==
    ASSUME DraftInv, NEW d \in Desks, RecordReply(d) \/ CountReply(d)
    PROVE  DraftInv'
<1>1. /\ desk \in [Desks -> DeskRows] /\ desk[d] \in DeskRows /\ drafts \in Seq(DraftRows)
      /\ DeskFits(d) /\ desk[d].draft \in 0..Len(drafts) /\ Len(drafts) \in Nat
      /\ \A i \in 1..Len(drafts) : RowHolds(i)
      /\ thread \in Seq({"user", "assistant"}) /\ Len(thread) \in Nat /\ Len(thread) <= LastMessage
      /\ talk \in Talks /\ talk.owed <= Len(thread)
      /\ talk.version + talk.owed + Cardinality(Counting) <= Len(thread) + talk.switches
  BY DraftBounds DEF DraftInv, DraftShape, DraftGuards, DraftTypeOK, Talks
<1>2. talk.version \in Nat /\ talk.owed \in 0..LastMessage /\ talk.switches \in Nat
      /\ talk.owed \in Nat
  BY <1>1, DraftBounds DEF Talks
<1>9. talk.owed <= Len(thread) /\ Len(thread) \in Nat
      /\ talk.version + talk.owed + Cardinality(Counting) <= Len(thread) + talk.switches
  BY <1>1
<1>3. /\ RowFree /\ drafts' = drafts /\ desk[d].pc \in {"record", "count"}
  BY DEF RecordReply, CountReply
<1> DEFINE new(pc) == [desk[d] EXCEPT !.pc = pc]
<1>4. \A pc \in {"count", "finish"} :
        new(pc) \in DeskRows /\ new(pc).pc = pc /\ new(pc).draft = desk[d].draft /\ new(pc).kind = desk[d].kind
  BY <1>1 DEF DeskRows, Sending
<1>5. ASSUME NEW pc \in {"count", "finish"}, desk' = [desk EXCEPT ![d] = new(pc)], TalkMoves,
             pc = "finish" => talk'.version = talk.version + 1
      PROVE  DraftInv'
  <2> DEFINE row == new(pc)
  <2>1. row \in DeskRows /\ row.pc = pc /\ row.draft = desk[d].draft /\ row.kind = desk[d].kind
        /\ desk' = [desk EXCEPT ![d] = row]
    BY <1>4, <1>5
  <2> HIDE DEF new, row
  <2>2. desk'[d] = row
    BY <1>1, <2>1
  <2>3. ASSUME desk[d].draft # 0 PROVE Delivers(d) /\ Delivering(d)'
    <3>1. Delivers(d) /\ Delivering(d) /\ desk[d].draft \in 1..Len(drafts)
      BY <1>1, <1>3, <2>3 DEF Delivers, DeskFits, Sending
    <3>2. drafts[desk[d].draft].version \in Nat /\ drafts[desk[d].draft].version <= talk.version
      <4>1. drafts[desk[d].draft] \in DraftRows /\ RowHolds(desk[d].draft)
        BY <1>1, <3>1
      <4> QED BY <4>1 DEF RowHolds, DraftRows
    <3>3. pc = "finish" => drafts[desk[d].draft].version < talk'.version
      BY <1>2, <1>5, <3>2
    <3>4. drafts' = drafts /\ desk'[d].draft = desk[d].draft /\ desk'[d].pc = pc
      BY <1>3, <2>1, <2>2
    <3> QED BY <3>1, <3>3, <3>4 DEF Delivering
  <2>4. DeskFits(d)'
    BY <1>1, <1>3, <2>1, <2>2, <2>3 DEF DeskFits, Delivers, Sending
  <2>5. DeskMoves(d, row, 0)
    BY <1>1, <1>3, <2>1, <2>3, <2>4 DEF DeskMoves
  <2> QED BY <1>5, <2>5, DeskMovesKeep
<1>6. CASE RecordReply(d)
  <2>1. /\ desk[d].pc = "record" /\ thread' = Append(thread, "assistant") /\ Len(thread) < LastMessage
        /\ talk' = talk /\ desk' = [desk EXCEPT ![d] = new("count")]
    BY <1>6 DEF RecordReply, Goto
  <2>2. /\ thread' \in Seq({"user", "assistant"}) /\ Len(thread') = Len(thread) + 1
        /\ \A i \in 1..Len(thread) : thread'[i] = thread[i]
    BY <1>1, <2>1
  <2>3. Len(thread') \in Len(thread)..LastMessage
    BY <1>1, <2>1, <2>2, DraftBounds
  <2> HIDE DEF new
  <2>4. /\ Cardinality(Counting) \in Nat /\ Cardinality(Counting') \in Nat
        /\ Cardinality(Counting') <= Cardinality(Counting) + 1
    BY <1>1, <1>4, <2>1, CountMoves
  <2>5. /\ talk'.version + talk'.owed + Cardinality(Counting') <= Len(thread') + talk'.switches
        /\ talk'.owed <= Len(thread') /\ talk'.version >= talk.version /\ talk' \in Talks
    <3>1. talk' = talk /\ Len(thread') = Len(thread) + 1
      BY <2>1, <2>2
    <3>2. talk.version + talk.owed + Cardinality(Counting') <= Len(thread') + talk.switches
      BY <1>2, <1>9, <2>4, <3>1
    <3>3. talk.owed <= Len(thread')
      BY <1>2, <1>9, <3>1
    <3>4. talk.version >= talk.version
      BY <1>2
    <3>5. talk \in Talks
      BY <1>1
    <3> QED BY <3>1, <3>2, <3>3, <3>4, <3>5
  <2>6. TalkMoves
    BY <1>3, <2>2, <2>3, <2>5 DEF TalkMoves
  <2> QED BY <1>5, <2>1, <2>6
<1>7. CASE CountReply(d)
  <2>1. /\ desk[d].pc = "count" /\ thread' = thread
        /\ talk' = [talk EXCEPT !.version = talk.version + 1] /\ desk' = [desk EXCEPT ![d] = new("finish")]
    BY <1>7 DEF CountReply, Goto
  <2>2. thread' = thread /\ Len(thread') \in Len(thread)..LastMessage
    BY <1>1, <2>1, DraftBounds
  <2> HIDE DEF new
  <2>3. /\ Cardinality(Counting) \in Nat /\ Cardinality(Counting') \in Nat
        /\ Cardinality(Counting') = Cardinality(Counting) - 1
    BY <1>1, <1>4, <2>1, CountMoves
  <2>4. talk' \in Talks
    <3>1. talk \in Talks /\ talk.version + 1 \in Nat
      BY <1>1, <1>2
    <3> QED BY <1>2, <2>1, <3>1 DEF Talks
  <2>5. talk'.version = talk.version + 1 /\ talk'.owed = talk.owed /\ talk'.switches = talk.switches
    <3>1. talk \in Talks /\ talk' = [talk EXCEPT !.version = talk.version + 1]
      BY <1>1, <2>1
    <3> QED BY <3>1 DEF Talks
  <2>6. /\ talk'.version + talk'.owed + Cardinality(Counting') <= Len(thread') + talk'.switches
        /\ talk'.owed <= Len(thread') /\ talk'.version >= talk.version
    <3>1. (talk.version + 1) + talk.owed + Cardinality(Counting') <= Len(thread) + talk.switches
      BY <1>2, <1>9, <2>3
    <3>2. talk.version + 1 >= talk.version
      BY <1>2
    <3> QED BY <1>9, <2>2, <2>5, <3>1, <3>2
  <2>7. thread' \in Seq({"user", "assistant"}) /\ \A i \in 1..Len(thread) : thread'[i] = thread[i]
    BY <1>1, <2>2
  <2>8. TalkMoves
    BY <1>3, <2>2, <2>4, <2>6, <2>7 DEF TalkMoves
  <2> QED BY <1>5, <2>1, <2>5, <2>8
<1> QED BY <1>6, <1>7

LEMMA DiscardKept ==
    ASSUME DraftInv, NEW d \in Desks, DiscardDraft(d)
    PROVE  DraftInv'
<1>1. /\ desk \in [Desks -> DeskRows] /\ desk[d] \in DeskRows /\ drafts \in Seq(DraftRows)
      /\ DeskFits(d) /\ desk[d].draft \in 0..Len(drafts) /\ Len(drafts) \in Nat
      /\ \A i \in 1..Len(drafts) : RowHolds(i)
  BY DraftBounds DEF DraftInv, DraftShape, DraftGuards, DraftTypeOK
<1>2. PICK k \in 1..Len(drafts) :
        drafts[k].status = "PENDING" /\ drafts' = [drafts EXCEPT ![k].status = "DISCARDED"]
  BY DEF DiscardDraft
<1>3. UNCHANGED <<talk, thread>> /\ Goto(d, "done") /\ desk[d].draft = 0
  BY <1>1 DEF DiscardDraft, DeskFits
<1> DEFINE new == [desk[d] EXCEPT !.pc = "done"]
           row == [drafts[k] EXCEPT !.status = "DISCARDED"]
<1>4. new \in DeskRows /\ new.pc = "done" /\ new.draft = 0
  BY <1>1, <1>3 DEF DeskRows
<1>5. drafts[k] \in DraftRows /\ drafts[k].wire = 0 /\ RowHolds(k)
  BY <1>1, <1>2 DEF RowHolds, Unsent
<1>6. /\ row \in DraftRows /\ row.status = "DISCARDED" /\ row.wire = 0
      /\ row.version = drafts[k].version /\ row.source = drafts[k].source
  BY <1>5 DEF DraftRows, DraftStatus
<1>7. desk' = [desk EXCEPT ![d] = new] /\ drafts' = [drafts EXCEPT ![k] = row]
  BY <1>2, <1>3 DEF Goto
<1> HIDE DEF new, row
<1>8. /\ drafts' \in Seq(DraftRows) /\ Len(drafts') = Len(drafts) /\ drafts'[k] = row
      /\ \A i \in 1..Len(drafts) : i # k => drafts'[i] = drafts[i]
  BY <1>1, <1>6, <1>7
<1>9. \A i \in 1..Len(drafts) : /\ drafts'[i].version = drafts[i].version
                                /\ drafts'[i].source = drafts[i].source
  BY <1>6, <1>8
<1>10. RowHolds(k)'
  BY <1>3, <1>5, <1>6, <1>8 DEF RowHolds
<1>11. \A c \in Desks \ {d} : desk[c].draft = k =>
         ~Delivers(c) /\ (desk[c].pc = "claim" => drafts'[k].status \in Unsent)
  BY <1>2, <1>6, <1>8 DEF DraftInv, DraftGuards, DeskFits, Delivering, Unsent
<1>12. DeskFits(d)' /\ desk'[d] = new
  BY <1>1, <1>4, <1>7 DEF DeskFits, Delivers
<1>13. drafts'[k].status \in Unsent /\ new.draft \in 0..Len(drafts)
  BY <1>1, <1>4, <1>6, <1>8 DEF Unsent
<1>14. DeskMoves(d, new, k)
  BY <1>4, <1>7, <1>8, <1>9, <1>10, <1>11, <1>12, <1>13 DEF DeskMoves
<1>15. TalkMoves
  BY <1>1, <1>3, <1>4, <1>7, CountMoves, TalkStays
<1> QED BY <1>14, <1>15, DeskMovesKeep

\* A saved draft is the newest, of the current version; no draft of that version was sent.
LEMMA SaveKept ==
    ASSUME DraftInv, NEW d \in Desks, SaveDraft(d)
    PROVE  DraftInv'
<1>1. /\ desk \in [Desks -> DeskRows] /\ desk[d] \in DeskRows /\ drafts \in Seq(DraftRows)
      /\ DeskFits(d) /\ Len(drafts) \in Nat /\ Len(thread) \in Nat
      /\ \A c \in Desks : desk[c].draft \in 0..Len(drafts)
      /\ \A i \in 1..Len(drafts) : RowHolds(i) /\ drafts[i] \in DraftRows
      /\ talk.version \in Nat
  BY DraftBounds DEF DraftInv, DraftShape, DraftGuards, DraftTypeOK
<1>2. UNCHANGED <<talk, thread>> /\ RowFree /\ Goto(d, "done") /\ desk[d].draft = 0
  BY <1>1 DEF SaveDraft, DeskFits
<1> DEFINE new == [desk[d] EXCEPT !.pc = "done"]
<1>3. new \in DeskRows /\ new.pc = "done" /\ new.draft = 0
  BY <1>1, <1>2 DEF DeskRows
<1>4. desk' = [desk EXCEPT ![d] = new]
  BY <1>2 DEF Goto
<1> HIDE DEF new
<1>5. CASE drafts' = drafts
  <2>1. UNCHANGED <<talk, thread, drafts>> /\ new.draft \in 0..Len(drafts)
    BY <1>1, <1>2, <1>3, <1>5
  <2> QED BY <1>3, <1>4, <2>1, DeskTurns
<1>6. CASE /\ talk.version = desk[d].version /\ Unanswered(desk[d].source) /\ ~DeliveryOpen(desk[d].version)
           /\ Len(drafts) < LastDraft /\ drafts' = Append(drafts, NewDraft(d))
  <2> DEFINE row == NewDraft(d)
             n == Len(drafts) + 1
  <2>1. /\ row \in DraftRows /\ row.version = talk.version /\ row.source = desk[d].source
        /\ row.status = "PENDING" /\ row.wire = 0
    <3>1. (desk[d].kind = "job") \in BOOLEAN
      OBVIOUS
    <3> QED BY <1>1, <1>6, <3>1 DEF NewDraft, DraftRows, DeskRows, DraftStatus
  <2>2. drafts' = Append(drafts, row)
    BY <1>6
  <2> HIDE DEF row
  <2>3. /\ drafts' \in Seq(DraftRows) /\ Len(drafts') = n /\ drafts'[n] = row
        /\ \A i \in 1..Len(drafts) : drafts'[i] = drafts[i]
    BY <1>1, <2>1, <2>2
  <2>4. \A i \in 1..Len(drafts') : i \in 1..Len(drafts) \/ i = n
    BY <1>1, <2>3
  <2>5. desk[d].source \in 1..Len(thread) /\ thread[desk[d].source] = "user"
    BY <1>1, <1>6 DEF Unanswered, LastIsClients, Last
  <2>6. \A i \in 1..Len(drafts) : drafts[i].version = talk.version => drafts[i].status \in Unsent
    <3> SUFFICES ASSUME NEW i \in 1..Len(drafts), drafts[i].version = talk.version
                 PROVE  drafts[i].status \in Unsent
      OBVIOUS
    <3>1. drafts # <<>> /\ Len(drafts) \in 1..Len(drafts)
      BY <1>1
    <3>2. CASE i = Len(drafts)
      <4>1. drafts[i].status \notin {"SENDING", "REVIEW_REQUIRED"}
        BY <1>6, <3>1, <3>2 DEF DeliveryOpen, Last
      <4>2. drafts[i].status # "SENT"
        BY <1>1 DEF RowHolds
      <4>3. drafts[i].status \in DraftStatus
        BY <1>1 DEF DraftRows
      <4> QED BY <4>1, <4>2, <4>3 DEF DraftStatus, Unsent
    <3>3. CASE i # Len(drafts)
      <4>1. i < Len(drafts) /\ i \in 1..Len(drafts)
        BY <1>1, <3>3
      <4>2. drafts[i].version <= drafts[Len(drafts)].version
            /\ (drafts[i].version = drafts[Len(drafts)].version => drafts[i].status \in Unsent)
        BY <3>1, <4>1 DEF DraftInv, DraftGuards, RowsOrdered
      <4>3. drafts[Len(drafts)].version <= talk.version
        BY <1>1, <3>1 DEF RowHolds
      <4>4. drafts[Len(drafts)].version \in Nat
        <5>1. drafts[Len(drafts)] \in DraftRows
          BY <1>1, <3>1
        <5> QED BY <5>1 DEF DraftRows
      <4> QED BY <1>1, <4>2, <4>3, <4>4
    <3> QED BY <3>2, <3>3
  <2>7. \A i \in 1..Len(drafts') : RowHolds(i)'
    <3>1. \A i \in 1..Len(drafts) : RowHolds(i)'
      BY <1>1, <1>2, <2>3 DEF RowHolds
    <3>2. \A i \in 1..Len(drafts') : i = n => RowHolds(i)'
      BY <1>1, <1>2, <2>1, <2>3 DEF RowHolds
    <3> QED BY <2>4, <3>1, <3>2
  <2>8. RowsOrdered'
    <3> SUFFICES ASSUME NEW i \in 1..Len(drafts'), NEW j \in 1..Len(drafts'), i < j
                 PROVE  /\ drafts'[i].version <= drafts'[j].version
                        /\ drafts'[i].version = drafts'[j].version => drafts'[i].status \in Unsent
      BY DEF RowsOrdered
    <3>1. i \in 1..Len(drafts)
      BY <1>1, <2>3
    <3>2. CASE j \in 1..Len(drafts)
      BY <2>3, <3>1, <3>2 DEF DraftInv, DraftGuards, RowsOrdered
    <3>3. CASE j = n
      <4>1. drafts[i].version <= talk.version /\ (drafts[i].version = talk.version => drafts[i].status \in Unsent)
        BY <1>1, <2>6, <3>1 DEF RowHolds
      <4> QED BY <2>1, <2>3, <3>1, <3>3, <4>1
    <3> QED BY <2>4, <3>2, <3>3
  <2>9. \A c \in Desks : desk'[c] = IF c = d THEN new ELSE desk[c]
    BY <1>1, <1>4
  <2>10. \A c \in Desks : DeskFits(c)'
    <3> SUFFICES ASSUME NEW c \in Desks PROVE DeskFits(c)'
      OBVIOUS
    <3>1. CASE c = d
      BY <1>3, <2>9, <3>1 DEF DeskFits, Delivers
    <3>2. CASE c # d
      <4>1. desk'[c] = desk[c] /\ DeskFits(c) /\ desk[c].pc # "claim"
        BY <1>2, <2>9, <3>2 DEF DraftInv, DraftGuards, RowFree
      <4>2. ASSUME Delivers(c) PROVE Delivering(c)'
        <5>1. desk[c].draft \in 1..Len(drafts) /\ Delivering(c)
          BY <1>1, <4>1, <4>2 DEF Delivers, DeskFits
        <5>2. drafts'[desk[c].draft] = drafts[desk[c].draft]
          BY <2>3, <5>1
        <5> QED BY <1>2, <4>1, <5>1, <5>2 DEF Delivering
      <4> QED BY <4>1, <4>2 DEF DeskFits, Delivers
    <3> QED BY <3>1, <3>2
  <2>11. OneDesk'
    <3>1. ~Delivers(d)' /\ desk'[d].pc # "claim"
      BY <1>3, <2>9 DEF Delivers
    <3>2. \A c \in Desks : c # d => desk'[c] = desk[c] /\ (Delivers(c)' => Delivers(c))
      BY <2>9 DEF Delivers
    <3> QED BY <3>1, <3>2 DEF DraftInv, DraftGuards, OneDesk
  <2>12. DraftShape'
    <3>1. /\ Cardinality(Counting) \in Nat /\ Cardinality(Counting') \in Nat
          /\ Cardinality(Counting') <= Cardinality(Counting)
      BY <1>1, <1>3, <1>4, CountMoves
    <3>2. TalkMoves
      BY <1>2, <3>1, TalkStays
    <3>3. Len(drafts') <= LastDraft
      BY <1>1, <1>6, <2>3, DraftBounds
    <3>4. desk' \in [Desks -> DeskRows]
      BY <1>1, <1>3, <1>4
    <3>5. \A c \in Desks : desk'[c].draft \in 0..Len(drafts')
      BY <1>1, <1>3, <2>3, <2>9
    <3>6. \A i \in 1..Len(drafts') :
            /\ drafts'[i].status \in Unsent => drafts'[i].wire = 0
            /\ drafts'[i].source \in 1..Len(thread') /\ thread'[drafts'[i].source] = "user"
      <4> SUFFICES ASSUME NEW i \in 1..Len(drafts')
                   PROVE  /\ drafts'[i].status \in Unsent => drafts'[i].wire = 0
                          /\ drafts'[i].source \in 1..Len(thread) /\ thread[drafts'[i].source] = "user"
        BY <1>2
      <4>1. drafts'[i].status \in Unsent => drafts'[i].wire = 0
        BY <2>7 DEF RowHolds
      <4>2. CASE i \in 1..Len(drafts)
        <5>1. drafts[i].source \in 1..Len(thread) /\ thread[drafts[i].source] = "user"
          BY <4>2 DEF DraftInv, DraftShape, DraftTypeOK
        <5> QED BY <2>3, <4>1, <4>2, <5>1
      <4>3. CASE i = n
        BY <2>1, <2>3, <2>5, <4>1, <4>3
      <4> QED BY <2>4, <4>2, <4>3
    <3> QED BY <2>3, <3>1, <3>2, <3>3, <3>4, <3>5, <3>6, ShapeKeeps
  <2> QED BY <2>7, <2>8, <2>10, <2>11, <2>12 DEF DraftInv, DraftGuards
<1> QED BY <1>5, <1>6 DEF SaveDraft

LEMMA DraftKept ==
    ASSUME DraftInv, [DraftNext]_draftVars PROVE DraftInv'
<1>1. CASE ClientSays \/ ClientCounted \/ SwitchMode \/ CloseTalk
  BY <1>1, ThreadKept
<1>2. ASSUME NEW d \in Desks, DraftStep(d) PROVE DraftInv'
  <2>1. CASE Compose(d) \/ ReadSource(d) \/ EditDraft(d) \/ RunAgain(d)
    BY <2>1, PreparingKept
  <2>2. CASE SaveDraft(d)
    BY <2>2, SaveKept
  <2>3. CASE DiscardDraft(d)
    BY <2>3, DiscardKept
  <2>4. CASE PressSend(d)
    BY <2>4, PressKept
  <2>5. CASE ReadClaim(d)
    BY <2>5, ReadClaimKept
  <2>6. CASE WriteClaim(d)
    BY <2>6, WriteClaimKept
  <2>7. CASE CallProvider(d)
    BY <2>7, CallKept
  <2>8. CASE RecordReply(d) \/ CountReply(d)
    BY <2>8, StoringKept
  <2>9. CASE RefuseReply(d) \/ FinishReply(d) \/ LeaveForReview(d)
    BY <2>9, EndKept
  <2> QED BY <1>2, <2>1, <2>2, <2>3, <2>4, <2>5, <2>6, <2>7, <2>8, <2>9 DEF DraftStep
<1>3. CASE UNCHANGED draftVars
  <2>1. UNCHANGED <<talk, thread, drafts, desk>>
    BY <1>3 DEF draftVars
  <2>2. DraftShape'
    BY <2>1 DEF DraftInv, DraftShape, DraftTypeOK, Counting
  <2>3. DraftGuards'
    BY <2>1 DEF DraftInv, DraftGuards, RowHolds, RowsOrdered, DeskFits, Claimable, Delivers, Delivering,
                OneDesk, Unanswered, LastIsClients
  <2> QED BY <2>2, <2>3 DEF DraftInv
<1> QED BY <1>1, <1>2, <1>3 DEF DraftNext

LEMMA DraftOnce == DraftInv => DraftSentOnce
<1> SUFFICES ASSUME DraftInv, NEW i \in 1..Len(drafts), NEW j \in 1..Len(drafts)
             PROVE  /\ drafts[i].wire <= 1
                    /\ drafts[i].wire > 0 /\ drafts[j].wire > 0 /\ drafts[i].version = drafts[j].version => i = j
  BY DEF DraftSentOnce
<1>1. Len(drafts) \in Nat /\ drafts[i].wire \in 0..1 /\ drafts[j].wire \in 0..1
  <2>1. Len(drafts) \in Nat /\ drafts[i] \in DraftRows /\ drafts[j] \in DraftRows
    BY DEF DraftInv, DraftShape
  <2> QED BY <2>1 DEF DraftRows
<1>2. ASSUME NEW a \in 1..Len(drafts), NEW b \in 1..Len(drafts), a < b, drafts[a].version = drafts[b].version
      PROVE  drafts[a].wire = 0
  BY <1>2 DEF DraftInv, DraftGuards, RowsOrdered, RowHolds
<1>3. i < j \/ j < i \/ i = j
  BY <1>1
<1> QED BY <1>1, <1>2, <1>3

\* A draft reaches the client once at most under one version, whoever approves, sends,
\* discards or replaces it, and it is approved only as the answer to the last message.
THEOREM DraftsAreCurrent == DraftSpec => DraftsSafe
<1>1. DraftInit => DraftInv
  BY DraftsStart
<1>2. DraftInv /\ [DraftNext]_draftVars => DraftInv'
  BY DraftKept
<1>3. DraftInv => DraftTypeOK /\ DraftSentOnce
  BY DraftOnce DEF DraftInv, DraftShape
<1>4. DraftInv /\ [DraftNext]_draftVars =>
        [\A d \in Desks : desk[d].pc = "claim" /\ desk'[d].pc = "check" =>
            /\ talk.mode = "DRAFT" /\ ~talk.closed
            /\ drafts[desk[d].draft].version = talk.version /\ Unanswered(drafts[desk[d].draft].source)]_draftVars
  BY DEF DraftInv, DraftGuards, DeskFits, Claimable
<1> QED BY <1>1, <1>2, <1>3, <1>4, PTL DEF DraftSpec, DraftsSafe, ApprovedIsCurrent

-----------------------------------------------------------------------------
(* Accounts, invitations and reset links (module StudioAccounts).          *)

DoorSteps == {"idle", "invite", "found", "accept", "verify", "session", "clear", "mail", "unsent", "done"}
InviteStates == {"pending", "expired", "revoked", "accepted"}
LoginRows == [email : Emails, profile : Profiles \cup {Owner}]
InviteRows == [email : Emails, profile : Profiles, state : InviteStates]
LinkRows == [email : Emails, state : {"issued", "mailed", "expired", "used"}]
DoorRows == [kind : DoorKindNames, pc : DoorSteps, email : Emails, profile : Profiles \cup {Owner},
             row : Nat, typed : Nat]

AccountShapes ==
    /\ logins \subseteq LoginRows /\ invites \in Seq(InviteRows) /\ links \in Seq(LinkRows)
    /\ password \in [Emails -> 0 .. LastPassword] /\ resetRow \in [Emails -> Nat]
    /\ sessions \subseteq [email : Emails, typed : Nat]
    /\ tries \in [Emails -> 0 .. TryLimit + 1] /\ door \in [Doors -> DoorRows]

\* One login for an email and for a profile; who has a login has a password,
\* and only who has one is sent a link to reset it.
OneLoginEach ==
    /\ \A e \in Emails : resetRow[e] # 0 => Taken(e)
    /\ \A l, m \in logins : l.email = m.email => l = m
    /\ \A l, m \in logins : l.profile = m.profile /\ l.profile \in Profiles => l = m
    /\ \A e \in Emails : Taken(e) <=> \E l \in logins : l.email = e

\* A session was opened with a password the account has had.
SessionsKnow == \A s \in sessions : 1 <= s.typed /\ s.typed <= password[s.email]

RowsKnow == \A e \in Emails : resetRow[e] # 0 => resetRow[e] \in DOMAIN links /\ links[resetRow[e]].email = e

LastLink(t) == \A u \in DOMAIN links : links[u].email = links[t].email => u <= t

\* Who is about to write an invitation found no other profile's for that email,
InviterKnows(d) ==
    door[d].pc = "invite" =>
        /\ door[d].profile \in Profiles
        /\ \A i \in DOMAIN invites :
               Usable(i) /\ invites[i].email = door[d].email => invites[i].profile = door[d].profile

\* who is about to accept holds an invitation that stays open, to a free profile,
AccepterKnows(d) ==
    /\ door[d].pc \in {"found", "accept"} =>
           door[d].row \in DOMAIN invites /\ invites[door[d].row].profile = door[d].profile
    /\ door[d].pc = "accept" => Usable(door[d].row) /\ ~Manned(door[d].profile)

\* who signs in typed a password the account has had,
LoggerKnows(d) ==
    door[d].pc \in {"verify", "session"} => 1 <= door[d].typed /\ door[d].typed <= password[door[d].email]

\* and who is about to mail a link, or failed to, has the only hand on it.
MailerKnows(d) ==
    /\ door[d].pc \in {"mail", "unsent"} =>
           /\ door[d].row \in DOMAIN links /\ links[door[d].row].email = door[d].email
           /\ links[door[d].row].state # "mailed"
    /\ door[d].pc = "mail" /\ links[door[d].row].state = "issued" /\ LastLink(door[d].row) =>
           resetRow[door[d].email] = door[d].row

\* The studio's row, a profile's row and a reset link are in one hand at a time.
HandsApart(d, p) ==
    /\ door[d].pc = "invite" => door[p].pc # "invite"
    /\ door[d].pc = "accept" /\ door[p].pc = "accept" => door[d].profile # door[p].profile
    /\ door[d].pc \in {"mail", "unsent"} /\ door[p].pc \in {"mail", "unsent"} => door[d].row # door[p].row

DoorKnows(d) == InviterKnows(d) /\ AccepterKnows(d) /\ LoggerKnows(d) /\ MailerKnows(d)

AccountsInv ==
    /\ AccountShapes /\ OneLoginEach /\ SessionsKnow
    /\ OneInvitationEach /\ RowsKnow /\ MailedLinkWorks
    /\ \A d \in Doors : DoorKnows(d)
    /\ \A d, p \in Doors : d # p => HandsApart(d, p)

\* What no step does: open again what was revoked.
RevokedKept == \A i \in DOMAIN invites : invites[i].state = "revoked" => invites'[i].state = "revoked"

LEMMA AccountsStart == AccountsInit => AccountsInv
<1> SUFFICES ASSUME AccountsInit PROVE AccountsInv
  OBVIOUS
<1>1. /\ logins = {} /\ slugs = {} /\ invites = <<>> /\ links = <<>> /\ sessions = {}
      /\ password = [e \in Emails |-> 0] /\ resetRow = [e \in Emails |-> 0] /\ tries = [e \in Emails |-> 0]
  BY DEF AccountsInit
<1>2. PICK kinds \in DoorKinds : door = [d \in Doors |-> [Closed EXCEPT !.kind = kinds[d]]]
  BY DEF AccountsInit
<1>3. kinds \in [Doors -> DoorKindNames]
  BY AccountBounds
<1>4. Closed \in DoorRows /\ Closed.pc = "idle"
  <2>1. (CHOOSE e \in Emails : TRUE) \in Emails
    BY AccountBounds
  <2> QED BY <2>1 DEF Closed, DoorRows, DoorSteps, DoorKindNames
<1>5. ASSUME NEW d \in Doors PROVE door[d] \in DoorRows /\ door[d].pc = "idle"
  <2>1. door[d] = [Closed EXCEPT !.kind = kinds[d]] /\ kinds[d] \in DoorKindNames
    BY <1>2, <1>3
  <2> QED BY <1>4, <2>1 DEF DoorRows
<1>6. door \in [Doors -> DoorRows]
  BY <1>2, <1>5
<1>7. 0 \in 0 .. LastPassword /\ 0 \in 0 .. TryLimit + 1
  BY AccountBounds
<1>8. AccountShapes
  BY <1>1, <1>6, <1>7 DEF AccountShapes
<1>9. OneLoginEach /\ SessionsKnow /\ OneInvitationEach /\ RowsKnow /\ MailedLinkWorks
  BY <1>1 DEF OneLoginEach, SessionsKnow, OneInvitationEach, RowsKnow, MailedLinkWorks, Taken
<1>10. \A d \in Doors : DoorKnows(d)
  BY <1>5 DEF DoorKnows, InviterKnows, AccepterKnows, LoggerKnows, MailerKnows
<1>11. \A d, p \in Doors : d # p => HandsApart(d, p)
  BY <1>5 DEF HandsApart
<1> QED BY <1>8, <1>9, <1>10, <1>11 DEF AccountsInv

-----------------------------------------------------------------------------
(* What a step leaves alone stays right.                                   *)

LEMMA LoginsStay == ASSUME AccountsInv, UNCHANGED <<logins, password, resetRow>> PROVE OneLoginEach'
BY DEF AccountsInv, OneLoginEach, Taken

LEMMA InvitesStay ==
    ASSUME AccountsInv, UNCHANGED <<logins, invites>>
    PROVE  /\ OneInvitationEach'
           /\ \A p \in Doors : door'[p] = door[p] => InviterKnows(p)' /\ AccepterKnows(p)'
BY DEF AccountsInv, OneInvitationEach, Usable, DoorKnows, InviterKnows, AccepterKnows, Manned

LEMMA LinksStay ==
    ASSUME AccountsInv, UNCHANGED <<links, resetRow>>
    PROVE  /\ RowsKnow' /\ MailedLinkWorks'
           /\ \A p \in Doors : door'[p] = door[p] => MailerKnows(p)'
<1>1. RowsKnow' /\ MailedLinkWorks'
  BY DEF AccountsInv, RowsKnow, MailedLinkWorks
<1>2. ASSUME NEW p \in Doors, door'[p] = door[p] PROVE MailerKnows(p)'
  BY <1>2 DEF AccountsInv, DoorKnows, MailerKnows, LastLink
<1> QED BY <1>1, <1>2

LEMMA PasswordsStay ==
    ASSUME AccountsInv, password' \in [Emails -> 0 .. LastPassword],
           \A e \in Emails : password[e] <= password'[e]
    PROVE  \A p \in Doors : door'[p] = door[p] => LoggerKnows(p)'
<1> SUFFICES ASSUME NEW p \in Doors, door'[p] = door[p], door[p].pc \in {"verify", "session"}
             PROVE  1 <= door[p].typed /\ door[p].typed <= password'[door[p].email]
  BY DEF LoggerKnows
<1>1. /\ door[p] \in DoorRows /\ 1 <= door[p].typed /\ door[p].typed <= password[door[p].email]
      /\ password \in [Emails -> 0 .. LastPassword]
  BY DEF AccountsInv, AccountShapes, DoorKnows, LoggerKnows
<1>2. PICK e \in Emails : e = door[p].email
  BY <1>1 DEF DoorRows
<1>3. /\ password[e] \in Int /\ password'[e] \in Int /\ password[e] <= password'[e] /\ door[p].typed \in Int
  BY <1>1, AccountBounds DEF DoorRows
<1> QED BY <1>1, <1>2, <1>3

\* A hand that holds nothing is apart from every other.
LEMMA FreeHand ==
    ASSUME AccountsInv, NEW d \in Doors, \A p \in Doors : p # d => door'[p] = door[p],
           door'[d].pc \notin {"invite", "accept", "mail", "unsent"}
    PROVE  \A p, q \in Doors : p # q => HandsApart(p, q)'
<1> SUFFICES ASSUME NEW p \in Doors, NEW q \in Doors, p # q PROVE HandsApart(p, q)'
  OBVIOUS
<1>1. HandsApart(p, q)
  BY DEF AccountsInv
<1>2. CASE p = d
  BY <1>2 DEF HandsApart
<1>3. CASE q = d
  BY <1>3 DEF HandsApart
<1>4. CASE p # d /\ q # d
  BY <1>1, <1>4 DEF HandsApart
<1> QED BY <1>2, <1>3, <1>4

\* One hand takes a lock or a link that no other holds.
LEMMA TakingHand ==
    ASSUME AccountsInv, NEW d \in Doors, \A p \in Doors : p # d => door'[p] = door[p],
           \A p \in Doors : p # d => HandsApart(d, p)'
    PROVE  \A p, q \in Doors : p # q => HandsApart(p, q)'
<1> SUFFICES ASSUME NEW p \in Doors, NEW q \in Doors, p # q PROVE HandsApart(p, q)'
  OBVIOUS
<1>1. CASE p = d
  BY <1>1
<1>2. CASE q = d
  BY <1>2 DEF HandsApart
<1>3. CASE p # d /\ q # d
  BY <1>3 DEF HandsApart, AccountsInv
<1> QED BY <1>1, <1>2, <1>3

-----------------------------------------------------------------------------
(* Steps that change only who stands where.                                *)

LEMMA DoorTurns ==
    ASSUME AccountsInv, NEW d \in Doors, NEW pc \in DoorSteps, Move(d, pc)
    PROVE  /\ door' \in [Doors -> DoorRows] /\ door'[d].pc = pc
           /\ door'[d].email = door[d].email /\ door'[d].profile = door[d].profile
           /\ door'[d].row = door[d].row /\ door'[d].typed = door[d].typed
           /\ \A p \in Doors : p # d => door'[p] = door[p]
<1>1. door \in [Doors -> DoorRows] /\ door' = [door EXCEPT ![d].pc = pc]
  BY DEF AccountsInv, AccountShapes, Move
<1>2. door'[d] = [door[d] EXCEPT !.pc = pc] /\ \A p \in Doors : p # d => door'[p] = door[p]
  BY <1>1
<1>3. /\ door'[d] \in DoorRows /\ door'[d].pc = pc
      /\ door'[d].email = door[d].email /\ door'[d].profile = door[d].profile
      /\ door'[d].row = door[d].row /\ door'[d].typed = door[d].typed
  BY <1>1, <1>2 DEF DoorRows
<1>4. door' \in [Doors -> DoorRows]
  BY <1>1, <1>2, <1>3
<1> QED BY <1>2, <1>3, <1>4

LEMMA DoorLeaves ==
    ASSUME AccountsInv, NEW d \in Doors, Leave(d)
    PROVE  /\ door' \in [Doors -> DoorRows] /\ door'[d].pc = "done"
           /\ \A p \in Doors : p # d => door'[p] = door[p]
           /\ InviterKnows(d)' /\ AccepterKnows(d)' /\ LoggerKnows(d)' /\ MailerKnows(d)'
           /\ \A p, q \in Doors : p # q => HandsApart(p, q)'
<1>1. Move(d, "done") /\ "done" \in DoorSteps
  BY DEF Leave, Move, DoorSteps
<1>2. /\ door' \in [Doors -> DoorRows] /\ door'[d].pc = "done"
      /\ \A p \in Doors : p # d => door'[p] = door[p]
  BY <1>1, DoorTurns
<1>3. InviterKnows(d)' /\ AccepterKnows(d)' /\ LoggerKnows(d)' /\ MailerKnows(d)'
  BY <1>2 DEF InviterKnows, AccepterKnows, LoggerKnows, MailerKnows
<1> QED BY <1>2, <1>3, FreeHand

LEMMA AccountsMove ==
    ASSUME AccountsInv, NEW d \in Doors, door' \in [Doors -> DoorRows],
           \A p \in Doors : p # d => door'[p] = door[p],
           UNCHANGED <<logins, invites, password, links, resetRow>>,
           sessions' \subseteq [email : Emails, typed : Nat], SessionsKnow',
           tries' \in [Emails -> 0 .. TryLimit + 1],
           DoorKnows(d)', \A p, q \in Doors : p # q => HandsApart(p, q)'
    PROVE  AccountsInv' /\ RevokedKept
<1>1. AccountShapes'
  BY DEF AccountsInv, AccountShapes
<1>2. OneLoginEach' /\ OneInvitationEach' /\ RowsKnow' /\ MailedLinkWorks'
  BY LoginsStay, InvitesStay, LinksStay
<1>3. password' \in [Emails -> 0 .. LastPassword] /\ \A e \in Emails : password[e] <= password'[e]
  <2>1. password \in [Emails -> 0 .. LastPassword]
    BY DEF AccountsInv, AccountShapes
  <2> QED BY <2>1, AccountBounds
<1>4. \A p \in Doors : p # d => DoorKnows(p)'
  BY <1>3, InvitesStay, LinksStay, PasswordsStay DEF DoorKnows
<1>5. RevokedKept
  BY DEF RevokedKept
<1> QED BY <1>1, <1>2, <1>4, <1>5 DEF AccountsInv

\* The sessions and the counts of sign-ins are as before.
LEMMA SessionsStay ==
    ASSUME AccountsInv, UNCHANGED <<sessions, password>>
    PROVE  sessions' \subseteq [email : Emails, typed : Nat] /\ SessionsKnow'
BY DEF AccountsInv, AccountShapes, SessionsKnow

LEMMA CheckInviteKeeps == ASSUME AccountsInv, NEW d \in Doors, CheckInvite(d) PROVE AccountsInv' /\ RevokedKept
<1>1. PICK e \in Emails, p \in Profiles :
        IF Taken(e) \/ \E i \in DOMAIN invites : Usable(i) /\ invites[i].email = e /\ invites[i].profile # p
        THEN Leave(d)
        ELSE door' = [door EXCEPT ![d].pc = "invite", ![d].email = e, ![d].profile = p]
  BY DEF CheckInvite
<1>2. /\ RowUnlocked(Doors, "invite") /\ tries' \in [Emails -> 0 .. TryLimit + 1]
      /\ UNCHANGED <<logins, slugs, invites, password, links, resetRow, sessions, tries>>
  BY DEF CheckInvite, AccountsInv, AccountShapes
<1>3. sessions' \subseteq [email : Emails, typed : Nat] /\ SessionsKnow'
  BY <1>2, SessionsStay
<1>4. CASE Leave(d)
  BY <1>2, <1>3, <1>4, DoorLeaves, AccountsMove DEF DoorKnows
<1>5. CASE /\ ~\E i \in DOMAIN invites : Usable(i) /\ invites[i].email = e /\ invites[i].profile # p
           /\ door' = [door EXCEPT ![d].pc = "invite", ![d].email = e, ![d].profile = p]
  <2>1. door \in [Doors -> DoorRows]
    BY DEF AccountsInv, AccountShapes
  <2>2. door'[d] = [door[d] EXCEPT !.pc = "invite", !.email = e, !.profile = p]
    BY <1>5, <2>1
  <2>3. door'[d] \in DoorRows /\ door'[d].pc = "invite" /\ door'[d].email = e /\ door'[d].profile = p
    <3>1. door[d] \in DoorRows /\ "invite" \in DoorSteps /\ p \in Profiles \cup {Owner}
      BY <2>1 DEF DoorSteps
    <3>2. door'[d].pc = "invite" /\ door'[d].email = e /\ door'[d].profile = p
      BY <2>2, <3>1 DEF DoorRows
    <3>3. [door[d] EXCEPT !.pc = "invite", !.email = e, !.profile = p] \in DoorRows
      BY <3>1 DEF DoorRows
    <3> QED BY <2>2, <3>2, <3>3
  <2>4. door' \in [Doors -> DoorRows] /\ \A q \in Doors : q # d => door'[q] = door[q]
    BY <1>5, <2>1, <2>3
  <2>5. InviterKnows(d)'
    BY <1>2, <1>5, <2>3 DEF InviterKnows, Usable
  <2>6. DoorKnows(d)'
    BY <2>3, <2>5 DEF DoorKnows, AccepterKnows, LoggerKnows, MailerKnows
  <2>7. \A q \in Doors : q # d => HandsApart(d, q)'
    BY <1>2, <2>3, <2>4 DEF HandsApart, RowUnlocked, Standing
  <2>8. \A q, r \in Doors : q # r => HandsApart(q, r)'
    BY <2>4, <2>7, TakingHand
  <2> QED BY <1>2, <1>3, <2>4, <2>6, <2>8, AccountsMove
<1> QED BY <1>1, <1>4, <1>5

LEMMA FindInviteKeeps == ASSUME AccountsInv, NEW d \in Doors, FindInvite(d) PROVE AccountsInv' /\ RevokedKept
<1>1. PICK i \in DOMAIN invites :
        door' = [door EXCEPT ![d].pc = "found", ![d].row = i, ![d].profile = invites[i].profile]
  BY DEF FindInvite
<1>2. /\ tries' \in [Emails -> 0 .. TryLimit + 1] /\ door \in [Doors -> DoorRows] /\ invites \in Seq(InviteRows)
      /\ UNCHANGED <<logins, slugs, invites, password, links, resetRow, sessions, tries>>
  BY DEF FindInvite, AccountsInv, AccountShapes
<1>3. sessions' \subseteq [email : Emails, typed : Nat] /\ SessionsKnow'
  BY <1>2, SessionsStay
<1>4. invites[i] \in InviteRows /\ i \in Nat
  BY <1>2
<1>5. invites[i].profile \in Profiles
  BY <1>4 DEF InviteRows
<1>6. /\ door'[d] = [door[d] EXCEPT !.pc = "found", !.row = i, !.profile = invites[i].profile]
      /\ door[d] \in DoorRows
  BY <1>1, <1>2
<1>7. door'[d] \in DoorRows /\ door'[d].pc = "found" /\ door'[d].row = i /\ door'[d].profile = invites[i].profile
  BY <1>4, <1>5, <1>6 DEF DoorRows, DoorSteps
<1>8. door' \in [Doors -> DoorRows] /\ \A q \in Doors : q # d => door'[q] = door[q]
  BY <1>1, <1>2, <1>7
<1>9. DoorKnows(d)'
  BY <1>2, <1>7 DEF DoorKnows, InviterKnows, AccepterKnows, LoggerKnows, MailerKnows
<1>10. \A q, r \in Doors : q # r => HandsApart(q, r)'
  BY <1>7, <1>8, FreeHand
<1> QED BY <1>2, <1>3, <1>8, <1>9, <1>10, AccountsMove

LEMMA CheckAcceptKeeps == ASSUME AccountsInv, NEW d \in Doors, CheckAccept(d) PROVE AccountsInv' /\ RevokedKept
<1> DEFINE pc == IF Manned(door[d].profile) \/ ~StillOpen(door[d].row) THEN "done" ELSE "accept"
<1>1. /\ door[d].pc = "found" /\ Move(d, pc) /\ tries' \in [Emails -> 0 .. TryLimit + 1]
      /\ RowUnlocked({x \in Doors : door[x].profile = door[d].profile}, "accept")
      /\ UNCHANGED <<logins, slugs, invites, password, links, resetRow, sessions, tries>>
  BY DEF CheckAccept, Standing, AccountsInv, AccountShapes
<1>2. sessions' \subseteq [email : Emails, typed : Nat] /\ SessionsKnow'
  BY <1>1, SessionsStay
<1>3. pc \in {"done", "accept"} /\ (pc = "accept" => ~Manned(door[d].profile) /\ Usable(door[d].row))
  BY DEF StillOpen
<1> HIDE DEF pc
<1>4. /\ door' \in [Doors -> DoorRows] /\ door'[d].pc = pc
      /\ door'[d].email = door[d].email /\ door'[d].profile = door[d].profile
      /\ door'[d].row = door[d].row /\ door'[d].typed = door[d].typed
      /\ \A q \in Doors : q # d => door'[q] = door[q]
  BY <1>1, <1>3, DoorTurns DEF DoorSteps
<1>5. AccepterKnows(d)'
  BY <1>1, <1>3, <1>4 DEF AccepterKnows, Usable, Manned, AccountsInv, DoorKnows
<1>6. DoorKnows(d)'
  BY <1>3, <1>4, <1>5 DEF DoorKnows, InviterKnows, LoggerKnows, MailerKnows
<1>7. \A q \in Doors : q # d => HandsApart(d, q)'
  BY <1>1, <1>3, <1>4 DEF HandsApart, RowUnlocked, Standing
<1>8. \A q, r \in Doors : q # r => HandsApart(q, r)'
  BY <1>4, <1>7, TakingHand
<1> QED BY <1>1, <1>2, <1>4, <1>6, <1>8, AccountsMove

LEMMA CountLoginKeeps == ASSUME AccountsInv, NEW d \in Doors, CountLogin(d) PROVE AccountsInv' /\ RevokedKept
<1>1. PICK e \in Emails : \E typed \in 1 .. password[e] :
        /\ tries' = [tries EXCEPT ![e] = IF @ > TryLimit THEN @ ELSE @ + 1]
        /\ door' = [door EXCEPT ![d].email = e, ![d].typed = typed,
                                ![d].pc = IF tries[e] >= TryLimit THEN "done" ELSE "verify"]
  BY DEF CountLogin
<1>2. PICK typed \in 1 .. password[e] :
        /\ tries' = [tries EXCEPT ![e] = IF @ > TryLimit THEN @ ELSE @ + 1]
        /\ door' = [door EXCEPT ![d].email = e, ![d].typed = typed,
                                ![d].pc = IF tries[e] >= TryLimit THEN "done" ELSE "verify"]
  BY <1>1
<1> DEFINE pc == IF tries[e] >= TryLimit THEN "done" ELSE "verify"
           count == IF tries[e] > TryLimit THEN tries[e] ELSE tries[e] + 1
<1>3. /\ tries \in [Emails -> 0 .. TryLimit + 1] /\ door \in [Doors -> DoorRows]
      /\ password \in [Emails -> 0 .. LastPassword]
      /\ UNCHANGED <<logins, slugs, invites, password, links, resetRow, sessions>>
  BY DEF CountLogin, AccountsInv, AccountShapes
<1>4. sessions' \subseteq [email : Emails, typed : Nat] /\ SessionsKnow'
  BY <1>3, SessionsStay
<1>5. count \in 0 .. TryLimit + 1
  BY <1>3, AccountBounds
<1>6. tries' \in [Emails -> 0 .. TryLimit + 1]
  BY <1>2, <1>3, <1>5
<1>7. typed \in Nat /\ 1 <= typed /\ typed <= password[e]
  BY <1>3, AccountBounds
<1>8. /\ door'[d] = [door[d] EXCEPT !.email = e, !.typed = typed, !.pc = pc] /\ pc \in {"done", "verify"}
      /\ door[d] \in DoorRows
  BY <1>2, <1>3
<1> HIDE DEF pc, count
<1>9. door'[d] \in DoorRows /\ door'[d].pc = pc /\ door'[d].email = e /\ door'[d].typed = typed
  BY <1>7, <1>8 DEF DoorRows, DoorSteps
<1>10. door' \in [Doors -> DoorRows] /\ \A q \in Doors : q # d => door'[q] = door[q]
  BY <1>2, <1>3, <1>9
<1>11. LoggerKnows(d)'
  BY <1>3, <1>7, <1>9 DEF LoggerKnows
<1>12. DoorKnows(d)'
  BY <1>8, <1>9, <1>11 DEF DoorKnows, InviterKnows, AccepterKnows, MailerKnows
<1>13. \A q, r \in Doors : q # r => HandsApart(q, r)'
  BY <1>8, <1>9, <1>10, FreeHand
<1> QED BY <1>3, <1>4, <1>6, <1>10, <1>12, <1>13, AccountsMove

LEMMA VerifyLoginKeeps == ASSUME AccountsInv, NEW d \in Doors, VerifyLogin(d) PROVE AccountsInv' /\ RevokedKept
<1> DEFINE pc == IF password[door[d].email] = door[d].typed THEN "session" ELSE "done"
<1>1. /\ door[d].pc = "verify" /\ Move(d, pc) /\ tries' \in [Emails -> 0 .. TryLimit + 1]
      /\ UNCHANGED <<logins, slugs, invites, password, links, resetRow, sessions, tries>>
  BY DEF VerifyLogin, Standing, AccountsInv, AccountShapes
<1>2. sessions' \subseteq [email : Emails, typed : Nat] /\ SessionsKnow'
  BY <1>1, SessionsStay
<1>3. pc \in {"done", "session"}
  OBVIOUS
<1> HIDE DEF pc
<1>4. /\ door' \in [Doors -> DoorRows] /\ door'[d].pc = pc
      /\ door'[d].email = door[d].email /\ door'[d].typed = door[d].typed
      /\ \A q \in Doors : q # d => door'[q] = door[q]
  BY <1>1, <1>3, DoorTurns DEF DoorSteps
<1>5. DoorKnows(d)'
  BY <1>1, <1>3, <1>4 DEF AccountsInv, DoorKnows, InviterKnows, AccepterKnows, LoggerKnows, MailerKnows
<1>6. \A q, r \in Doors : q # r => HandsApart(q, r)'
  BY <1>3, <1>4, FreeHand
<1> QED BY <1>1, <1>2, <1>4, <1>5, <1>6, AccountsMove

LEMMA InsertSessionKeeps ==
    ASSUME AccountsInv, NEW d \in Doors, InsertSession(d) PROVE AccountsInv' /\ RevokedKept
<1>1. /\ door[d].pc = "session" /\ Move(d, "clear") /\ tries' \in [Emails -> 0 .. TryLimit + 1]
      /\ sessions' = sessions \cup {[email |-> door[d].email, typed |-> door[d].typed]}
      /\ UNCHANGED <<logins, slugs, invites, password, links, resetRow, tries>>
      /\ door[d] \in DoorRows /\ LoggerKnows(d)
  BY DEF InsertSession, Standing, AccountsInv, AccountShapes, DoorKnows
<1>2. door[d].email \in Emails /\ door[d].typed \in Nat
  BY <1>1 DEF DoorRows
<1>3. sessions' \subseteq [email : Emails, typed : Nat] /\ SessionsKnow'
  BY <1>1, <1>2 DEF AccountsInv, AccountShapes, SessionsKnow, LoggerKnows
<1>4. /\ door' \in [Doors -> DoorRows] /\ door'[d].pc = "clear"
      /\ \A q \in Doors : q # d => door'[q] = door[q]
  BY <1>1, DoorTurns DEF DoorSteps
<1>5. DoorKnows(d)'
  BY <1>4 DEF DoorKnows, InviterKnows, AccepterKnows, LoggerKnows, MailerKnows
<1>6. \A q, r \in Doors : q # r => HandsApart(q, r)'
  BY <1>4, FreeHand
<1> QED BY <1>1, <1>3, <1>4, <1>5, <1>6, AccountsMove

LEMMA ClearTriesKeeps == ASSUME AccountsInv, NEW d \in Doors, ClearTries(d) PROVE AccountsInv' /\ RevokedKept
<1>1. /\ Leave(d) /\ tries' = [tries EXCEPT ![door[d].email] = 0]
      /\ UNCHANGED <<logins, slugs, invites, password, links, resetRow, sessions>>
      /\ tries \in [Emails -> 0 .. TryLimit + 1]
  BY DEF ClearTries, AccountsInv, AccountShapes
<1>2. sessions' \subseteq [email : Emails, typed : Nat] /\ SessionsKnow'
  BY <1>1, SessionsStay
<1>3. tries' \in [Emails -> 0 .. TryLimit + 1]
  <2>1. 0 \in 0 .. TryLimit + 1
    BY AccountBounds
  <2> QED BY <1>1, <2>1
<1> QED BY <1>1, <1>2, <1>3, DoorLeaves, AccountsMove DEF DoorKnows

-----------------------------------------------------------------------------
(* Steps that enroll people and change invitations.                        *)

\* An email that has no account gets one, for a profile that is free.
LEMMA EnrollKeeps ==
    ASSUME AccountsInv, NEW e \in Emails, ~Taken(e), NEW whose \in Profiles \cup {Owner},
           whose \in Profiles => ~Manned(whose), Enroll(e, whose), UNCHANGED resetRow
    PROVE  /\ logins' \subseteq LoginRows /\ password' \in [Emails -> 0 .. LastPassword]
           /\ \A x \in Emails : password[x] <= password'[x]
           /\ sessions' \subseteq [email : Emails, typed : Nat]
           /\ OneLoginEach' /\ SessionsKnow'
           /\ \A l \in logins' : l \in logins \/ l.profile = whose
<1> DEFINE new == [email |-> e, profile |-> whose]
<1>1. /\ logins' = logins \cup {new} /\ password' = [password EXCEPT ![e] = 1]
      /\ sessions' = sessions \cup {[email |-> e, typed |-> 1]}
      /\ logins \subseteq LoginRows /\ password \in [Emails -> 0 .. LastPassword]
      /\ sessions \subseteq [email : Emails, typed : Nat] /\ password[e] = 0
  BY DEF Enroll, AccountsInv, AccountShapes, Taken
<1>2. new \in LoginRows /\ new.email = e /\ new.profile = whose
  BY DEF LoginRows
<1> HIDE DEF new
<1>3. 1 \in 0 .. LastPassword
  BY AccountBounds
<1>4. /\ password' \in [Emails -> 0 .. LastPassword] /\ password'[e] = 1
      /\ \A x \in Emails : x # e => password'[x] = password[x]
  BY <1>1, <1>3
<1>5. \A x \in Emails : password[x] <= password'[x]
  BY <1>1, <1>4, AccountBounds
<1>6. OneLoginEach'
  <2>1. \A l \in logins : l.email # e
    BY <1>1 DEF AccountsInv, OneLoginEach, Taken
  <2>2. \A l \in logins : l.profile = whose => whose \notin Profiles
    BY DEF Manned
  <2>3. ASSUME NEW x \in Emails PROVE Taken(x)' <=> \E l \in logins' : l.email = x
    <3>1. CASE x = e
      BY <1>1, <1>2, <1>4, <3>1 DEF Taken
    <3>2. CASE x # e
      BY <1>1, <1>2, <1>4, <3>2 DEF Taken, AccountsInv, OneLoginEach
    <3> QED BY <3>1, <3>2
  <2>4. \A l, m \in logins' : l.email = m.email => l = m
    BY <1>1, <1>2, <2>1 DEF AccountsInv, OneLoginEach
  <2>5. \A l, m \in logins' : l.profile = m.profile /\ l.profile \in Profiles => l = m
    BY <1>1, <1>2, <2>2 DEF AccountsInv, OneLoginEach
  <2>6. \A x \in Emails : resetRow'[x] # 0 => Taken(x)'
    BY <1>1, <1>4 DEF AccountsInv, OneLoginEach, Taken
  <2> QED BY <2>3, <2>4, <2>5, <2>6 DEF OneLoginEach
<1>7. sessions' \subseteq [email : Emails, typed : Nat]
  BY <1>1
<1>8. SessionsKnow'
  <2> SUFFICES ASSUME NEW s \in sessions' PROVE 1 <= s.typed /\ s.typed <= password'[s.email]
    BY DEF SessionsKnow
  <2>1. CASE s = [email |-> e, typed |-> 1]
    BY <1>4, <2>1
  <2>2. CASE s \in sessions
    <3>1. 1 <= s.typed /\ s.typed <= password[s.email] /\ s.email \in Emails /\ s.typed \in Nat
      BY <1>1, <2>2 DEF AccountsInv, SessionsKnow
    <3>2. PICK x \in Emails : x = s.email
      BY <3>1
    <3>3. x # e
      BY <1>1, <3>1, <3>2
    <3> QED BY <1>4, <3>1, <3>2, <3>3
  <2> QED BY <1>1, <2>1, <2>2
<1> QED BY <1>1, <1>2, <1>4, <1>5, <1>6, <1>7, <1>8

\* An open invitation stays in its hand while others accept for other profiles.
LEMMA AcceptersProfile ==
    ASSUME AccountsInv, NEW p \in Doors, door[p].pc \in {"found", "accept"}
    PROVE  /\ door[p].row \in DOMAIN invites /\ invites[door[p].row].profile = door[p].profile
           /\ door[p].profile \in Profiles /\ door[p].profile # Owner
<1>1. door[p].row \in DOMAIN invites /\ invites[door[p].row].profile = door[p].profile /\ invites \in Seq(InviteRows)
  BY DEF AccountsInv, AccountShapes, DoorKnows, AccepterKnows
<1>2. invites[door[p].row] \in InviteRows
  BY <1>1
<1>3. door[p].profile \in Profiles
  BY <1>1, <1>2 DEF InviteRows
<1> QED BY <1>1, <1>3, AccountBounds

LEMMA SignUpKeeps == ASSUME AccountsInv, NEW d \in Doors, SignUp(d) PROVE AccountsInv' /\ RevokedKept
<1>1. PICK e \in Emails :
        IF Taken(e) THEN UNCHANGED <<logins, slugs, password, sessions>> ELSE Enroll(e, Owner)
  BY DEF SignUp
<1>2. /\ Leave(d) /\ UNCHANGED <<invites, links, resetRow, tries>>
      /\ tries' \in [Emails -> 0 .. TryLimit + 1]
  BY DEF SignUp, AccountsInv, AccountShapes
<1>3. CASE UNCHANGED <<logins, slugs, password, sessions>>
  BY <1>2, <1>3, SessionsStay, DoorLeaves, AccountsMove DEF DoorKnows
<1>4. CASE ~Taken(e) /\ Enroll(e, Owner)
  <2>1. /\ logins' \subseteq LoginRows /\ password' \in [Emails -> 0 .. LastPassword]
        /\ \A x \in Emails : password[x] <= password'[x]
        /\ sessions' \subseteq [email : Emails, typed : Nat]
        /\ OneLoginEach' /\ SessionsKnow' /\ \A l \in logins' : l \in logins \/ l.profile = Owner
    BY <1>2, <1>4, AccountBounds, EnrollKeeps
  <2>2. /\ door' \in [Doors -> DoorRows] /\ \A p \in Doors : p # d => door'[p] = door[p]
        /\ DoorKnows(d)' /\ \A p, q \in Doors : p # q => HandsApart(p, q)'
    BY <1>2, DoorLeaves DEF DoorKnows
  <2>3. AccountShapes'
    BY <1>2, <2>1, <2>2 DEF AccountsInv, AccountShapes
  <2>4. RowsKnow' /\ MailedLinkWorks' /\ OneInvitationEach' /\ RevokedKept
    BY <1>2, LinksStay DEF AccountsInv, OneInvitationEach, Usable, RevokedKept
  <2>5. ASSUME NEW p \in Doors, p # d PROVE DoorKnows(p)'
    <3>1. door'[p] = door[p] /\ MailerKnows(p)' /\ LoggerKnows(p)'
      BY <1>2, <2>1, <2>2, <2>5, LinksStay, PasswordsStay
    <3>2. InviterKnows(p)'
      BY <1>2, <3>1 DEF AccountsInv, DoorKnows, InviterKnows, Usable
    <3>3. AccepterKnows(p)'
      BY <1>2, <2>1, <3>1, AcceptersProfile DEF AccountsInv, DoorKnows, AccepterKnows, Usable, Manned
    <3> QED BY <3>1, <3>2, <3>3 DEF DoorKnows
  <2> QED BY <2>1, <2>2, <2>3, <2>4, <2>5 DEF AccountsInv
<1> QED BY <1>1, <1>3, <1>4

\* Invitations only lose: no one that was not open opens.
Fading ==
    /\ invites' \in Seq(InviteRows) /\ Len(invites') = Len(invites)
    /\ \A i \in DOMAIN invites :
           /\ invites'[i].email = invites[i].email /\ invites'[i].profile = invites[i].profile
           /\ invites'[i].state = "pending" => invites[i].state = "pending"
           /\ invites[i].state = "revoked" => invites'[i].state = "revoked"

LEMMA FadingKeeps ==
    ASSUME AccountsInv, Fading
    PROVE  /\ OneInvitationEach' /\ RevokedKept
           /\ \A p \in Doors : door'[p] = door[p] => InviterKnows(p)'
           /\ \A p \in Doors :
                  /\ door'[p] = door[p]
                  /\ door[p].pc = "accept" => /\ invites'[door[p].row].state = "pending"
                                              /\ \A l \in logins' : l \in logins \/ l.profile # door[p].profile
                  => AccepterKnows(p)'
<1>1. invites \in Seq(InviteRows)
  BY DEF AccountsInv, AccountShapes
<1>2. DOMAIN invites' = DOMAIN invites
  BY <1>1 DEF Fading
<1>3. OneInvitationEach' /\ RevokedKept
  BY <1>2 DEF Fading, AccountsInv, OneInvitationEach, Usable, RevokedKept
<1>4. ASSUME NEW p \in Doors, door'[p] = door[p] PROVE InviterKnows(p)'
  BY <1>2, <1>4 DEF Fading, AccountsInv, DoorKnows, InviterKnows, Usable
<1>5. ASSUME NEW p \in Doors, door'[p] = door[p],
             door[p].pc = "accept" => /\ invites'[door[p].row].state = "pending"
                                      /\ \A l \in logins' : l \in logins \/ l.profile # door[p].profile
      PROVE  AccepterKnows(p)'
  <2>1. AccepterKnows(p)
    BY DEF AccountsInv, DoorKnows
  <2> QED BY <1>2, <1>5, <2>1 DEF Fading, AccepterKnows, Usable, Manned
<1> QED BY <1>3, <1>4, <1>5

LEMMA WithdrawnIs ==
    ASSUME AccountsInv, NEW p
    PROVE  /\ Withdrawn(p) \in Seq(InviteRows) /\ Len(Withdrawn(p)) = Len(invites)
           /\ \A i \in DOMAIN invites :
                  /\ Withdrawn(p)[i].email = invites[i].email /\ Withdrawn(p)[i].profile = invites[i].profile
                  /\ Withdrawn(p)[i].state = "pending" => invites[i].state = "pending" /\ invites[i].profile # p
                  /\ invites[i].state = "revoked" => Withdrawn(p)[i].state = "revoked"
                  /\ invites[i].profile # p => Withdrawn(p)[i] = invites[i]
<1> DEFINE w == Withdrawn(p)
<1>1. invites \in Seq(InviteRows) /\ DOMAIN invites = 1 .. Len(invites) /\ Len(invites) \in Nat
  BY DEF AccountsInv, AccountShapes
<1>2. w = [i \in DOMAIN invites |->
             IF invites[i].profile = p /\ invites[i].state \in {"pending", "expired"}
             THEN [invites[i] EXCEPT !.state = "revoked"] ELSE invites[i]]
  BY DEF Withdrawn
<1> HIDE DEF w
<1>3. ASSUME NEW i \in DOMAIN invites
      PROVE  /\ w[i] \in InviteRows /\ w[i].email = invites[i].email /\ w[i].profile = invites[i].profile
             /\ w[i].state = "pending" => invites[i].state = "pending" /\ invites[i].profile # p
             /\ invites[i].state = "revoked" => w[i].state = "revoked"
             /\ invites[i].profile # p => w[i] = invites[i]
  <2>1. invites[i] \in InviteRows
    BY <1>1
  <2>2. CASE invites[i].profile = p /\ invites[i].state \in {"pending", "expired"}
    <3>1. w[i] = [invites[i] EXCEPT !.state = "revoked"]
      BY <1>2, <2>2
    <3> QED BY <2>1, <2>2, <3>1 DEF InviteRows, InviteStates
  <2>3. CASE ~(invites[i].profile = p /\ invites[i].state \in {"pending", "expired"})
    <3>1. w[i] = invites[i]
      BY <1>2, <2>3
    <3> QED BY <2>1, <2>3, <3>1
  <2> QED BY <2>2, <2>3
<1>4. w \in [1 .. Len(invites) -> InviteRows]
  BY <1>1, <1>2, <1>3
<1>5. w \in Seq(InviteRows) /\ Len(w) = Len(invites)
  BY <1>1, <1>4
<1> QED BY <1>3, <1>5 DEF w

LEMMA RevokeInviteKeeps ==
    ASSUME AccountsInv, NEW d \in Doors, RevokeInvite(d) PROVE AccountsInv' /\ RevokedKept
<1>1. PICK p \in Profiles :
        RowUnlocked({x \in Doors : door[x].profile = p}, "accept") /\ invites' = Withdrawn(p)
  BY DEF RevokeInvite
<1>2. /\ Leave(d) /\ UNCHANGED <<logins, slugs, password, links, resetRow, sessions, tries>>
      /\ tries' \in [Emails -> 0 .. TryLimit + 1] /\ password' \in [Emails -> 0 .. LastPassword]
  BY DEF RevokeInvite, AccountsInv, AccountShapes
<1>3. Fading
  BY <1>1, WithdrawnIs DEF Fading
<1>4. /\ door' \in [Doors -> DoorRows] /\ \A q \in Doors : q # d => door'[q] = door[q]
      /\ DoorKnows(d)' /\ \A q, r \in Doors : q # r => HandsApart(q, r)'
  BY <1>2, DoorLeaves DEF DoorKnows
<1>5. AccountShapes'
  BY <1>2, <1>3, <1>4 DEF AccountsInv, AccountShapes, Fading
<1>6. OneLoginEach' /\ SessionsKnow' /\ RowsKnow' /\ MailedLinkWorks' /\ OneInvitationEach' /\ RevokedKept
  BY <1>2, <1>3, LoginsStay, SessionsStay, LinksStay, FadingKeeps
<1>7. ASSUME NEW q \in Doors, q # d PROVE DoorKnows(q)'
  <2>1. \A x \in Emails : password[x] <= password'[x]
    BY <1>2, AccountBounds
  <2>2. door'[q] = door[q] /\ MailerKnows(q)' /\ LoggerKnows(q)' /\ InviterKnows(q)'
    BY <1>2, <1>3, <1>4, <1>7, <2>1, LinksStay, PasswordsStay, FadingKeeps
  <2>3. door[q].pc = "accept" => invites'[door[q].row].state = "pending"
    <3> SUFFICES ASSUME door[q].pc = "accept" PROVE invites'[door[q].row].state = "pending"
      OBVIOUS
    <3>1. door[q].row \in DOMAIN invites /\ invites[door[q].row].profile = door[q].profile
      BY AcceptersProfile
    <3>2. door[q].profile # p
      BY <1>1 DEF RowUnlocked, Standing
    <3>3. Usable(door[q].row)
      BY DEF AccountsInv, DoorKnows, AccepterKnows
    <3>4. Withdrawn(p)[door[q].row] = invites[door[q].row]
      BY <3>1, <3>2, WithdrawnIs
    <3> QED BY <1>1, <3>3, <3>4 DEF Usable
  <2>4. AccepterKnows(q)'
    BY <1>2, <1>3, <2>2, <2>3, FadingKeeps
  <2> QED BY <2>2, <2>4 DEF DoorKnows
<1> QED BY <1>4, <1>5, <1>6, <1>7 DEF AccountsInv

LEMMA InviteExpiresKeeps == ASSUME AccountsInv, InviteExpires PROVE AccountsInv' /\ RevokedKept
<1>1. PICK i \in DOMAIN invites :
        /\ Usable(i) /\ invites' = [invites EXCEPT ![i].state = "expired"]
        /\ \A d \in Doors : ~(Standing(d, "accept") /\ door[d].row = i)
        /\ UNCHANGED <<logins, slugs, password, links, resetRow, sessions, tries, door>>
  BY DEF InviteExpires
<1>2. /\ invites \in Seq(InviteRows) /\ DOMAIN invites = 1 .. Len(invites) /\ Len(invites) \in Nat
      /\ password' \in [Emails -> 0 .. LastPassword]
  BY <1>1 DEF AccountsInv, AccountShapes
<1>3. invites'[i] = [invites[i] EXCEPT !.state = "expired"] /\ invites[i] \in InviteRows
  BY <1>1, <1>2
<1>4. /\ invites'[i] \in InviteRows /\ invites'[i].state = "expired"
      /\ invites'[i].email = invites[i].email /\ invites'[i].profile = invites[i].profile
  BY <1>3 DEF InviteRows, InviteStates
<1>5. \A j \in DOMAIN invites : j # i => invites'[j] = invites[j]
  BY <1>1
<1>6. invites' \in [1 .. Len(invites) -> InviteRows]
  BY <1>1, <1>2, <1>4, <1>5
<1>7. invites' \in Seq(InviteRows) /\ Len(invites') = Len(invites)
  BY <1>2, <1>6
<1>8. Fading
  BY <1>1, <1>4, <1>5, <1>7 DEF Fading, Usable
<1>9. AccountShapes'
  BY <1>1, <1>7 DEF AccountsInv, AccountShapes
<1>10. OneLoginEach' /\ SessionsKnow' /\ RowsKnow' /\ MailedLinkWorks' /\ OneInvitationEach' /\ RevokedKept
  BY <1>1, <1>8, LoginsStay, SessionsStay, LinksStay, FadingKeeps
<1>11. ASSUME NEW q \in Doors PROVE DoorKnows(q)'
  <2>1. \A x \in Emails : password[x] <= password'[x]
    BY <1>1, <1>2, AccountBounds
  <2>2. door'[q] = door[q] /\ MailerKnows(q)' /\ LoggerKnows(q)' /\ InviterKnows(q)'
    BY <1>1, <1>2, <1>8, <2>1, LinksStay, PasswordsStay, FadingKeeps
  <2>3. door[q].pc = "accept" => invites'[door[q].row].state = "pending"
    BY <1>1, <1>5, AcceptersProfile DEF Standing, AccountsInv, DoorKnows, AccepterKnows, Usable
  <2>4. AccepterKnows(q)'
    BY <1>1, <1>8, <2>2, <2>3, FadingKeeps
  <2> QED BY <2>2, <2>4 DEF DoorKnows
<1>12. \A q, r \in Doors : q # r => HandsApart(q, r)'
  BY <1>1 DEF AccountsInv, HandsApart
<1> QED BY <1>9, <1>10, <1>11, <1>12 DEF AccountsInv

LEMMA WriteAcceptKeeps ==
    ASSUME AccountsInv, NEW d \in Doors, WriteAccept(d) PROVE AccountsInv' /\ RevokedKept
<1> DEFINE i == door[d].row
           e == invites[i].email
           p == door[d].profile
<1>1. /\ door[d].pc = "accept" /\ Leave(d) /\ UNCHANGED <<slugs, links, resetRow, tries>>
      /\ tries' \in [Emails -> 0 .. TryLimit + 1] /\ invites \in Seq(InviteRows)
  BY DEF WriteAccept, Standing, AccountsInv, AccountShapes
<1>2. /\ i \in DOMAIN invites /\ invites[i].profile = p /\ p \in Profiles /\ p # Owner
      /\ Usable(i) /\ ~Manned(p)
  BY <1>1, AcceptersProfile DEF AccountsInv, DoorKnows, AccepterKnows
<1>3. \/ UNCHANGED <<logins, invites, password, sessions>>
      \/ ~Taken(e) /\ Enroll(e, p) /\ invites' = [Withdrawn(p) EXCEPT ![i].state = "accepted"]
  BY DEF WriteAccept
<1>4. CASE UNCHANGED <<logins, invites, password, sessions>>
  BY <1>1, <1>4, SessionsStay, DoorLeaves, AccountsMove DEF DoorKnows
<1>5. CASE ~Taken(e) /\ Enroll(e, p) /\ invites' = [Withdrawn(p) EXCEPT ![i].state = "accepted"]
  <2>1. e \in Emails
    <3>1. invites[i] \in InviteRows
      BY <1>1, <1>2
    <3> QED BY <3>1 DEF InviteRows
  <2>2. /\ logins' \subseteq LoginRows /\ password' \in [Emails -> 0 .. LastPassword]
        /\ \A x \in Emails : password[x] <= password'[x]
        /\ sessions' \subseteq [email : Emails, typed : Nat]
        /\ OneLoginEach' /\ SessionsKnow' /\ \A l \in logins' : l \in logins \/ l.profile = p
    <3> HIDE DEF e, p, i
    <3> QED BY <1>1, <1>2, <1>5, <2>1, EnrollKeeps
  <2>3. /\ Withdrawn(p) \in Seq(InviteRows) /\ Len(Withdrawn(p)) = Len(invites)
        /\ \A j \in DOMAIN invites :
               /\ Withdrawn(p)[j].email = invites[j].email /\ Withdrawn(p)[j].profile = invites[j].profile
               /\ Withdrawn(p)[j].state = "pending" => invites[j].state = "pending" /\ invites[j].profile # p
               /\ invites[j].state = "revoked" => Withdrawn(p)[j].state = "revoked"
               /\ invites[j].profile # p => Withdrawn(p)[j] = invites[j]
    BY WithdrawnIs
  <2>4. PICK w \in Seq(InviteRows) : w = Withdrawn(p)
    BY <2>3
  <2> HIDE DEF e, p, i
  <2>5. i \in 1 .. Len(w) /\ DOMAIN w = 1 .. Len(w) /\ w \in [1 .. Len(w) -> InviteRows] /\ Len(w) = Len(invites)
        /\ DOMAIN invites = 1 .. Len(w)
    BY <1>1, <1>2, <2>3, <2>4
  <2>6. invites'[i] = [w[i] EXCEPT !.state = "accepted"] /\ w[i] \in InviteRows
    BY <1>5, <2>4, <2>5
  <2>7. /\ invites'[i] \in InviteRows /\ invites'[i].state = "accepted"
        /\ invites'[i].email = w[i].email /\ invites'[i].profile = w[i].profile
    BY <2>6 DEF InviteRows, InviteStates
  <2>8. \A j \in 1 .. Len(w) : j # i => invites'[j] = w[j]
    BY <1>5, <2>4, <2>5
  <2>9. invites' \in [1 .. Len(w) -> InviteRows]
    BY <1>5, <2>4, <2>5, <2>7, <2>8
  <2>10. invites' \in Seq(InviteRows) /\ Len(invites') = Len(invites)
    BY <2>5, <2>9
  <2>11. Fading
    <3>1. ASSUME NEW j \in DOMAIN invites
          PROVE  /\ invites'[j].email = invites[j].email /\ invites'[j].profile = invites[j].profile
                 /\ invites'[j].state = "pending" => invites[j].state = "pending"
                 /\ invites[j].state = "revoked" => invites'[j].state = "revoked"
      <4>1. CASE j = i
        BY <1>2, <2>3, <2>4, <2>7, <4>1 DEF Usable
      <4>2. CASE j # i
        <5>1. invites'[j] = w[j]
          BY <2>5, <2>8, <4>2
        <5> QED BY <2>3, <2>4, <5>1
      <4> QED BY <4>1, <4>2
    <3> QED BY <2>10, <3>1 DEF Fading
  <2>12. /\ door' \in [Doors -> DoorRows] /\ \A q \in Doors : q # d => door'[q] = door[q]
         /\ DoorKnows(d)' /\ \A q, r \in Doors : q # r => HandsApart(q, r)'
    BY <1>1, DoorLeaves DEF DoorKnows
  <2>13. AccountShapes'
    BY <1>1, <2>2, <2>10, <2>12 DEF AccountsInv, AccountShapes
  <2>14. RowsKnow' /\ MailedLinkWorks' /\ OneInvitationEach' /\ RevokedKept
    BY <1>1, <2>11, LinksStay, FadingKeeps
  <2>15. ASSUME NEW q \in Doors, q # d PROVE DoorKnows(q)'
    <3>1. door'[q] = door[q] /\ MailerKnows(q)' /\ LoggerKnows(q)' /\ InviterKnows(q)'
      BY <1>1, <2>2, <2>11, <2>12, <2>15, LinksStay, PasswordsStay, FadingKeeps
    <3>2. door[q].pc = "accept" => door[q].profile # p
      BY <1>1, <2>15 DEF AccountsInv, HandsApart, p
    <3>3. ASSUME door[q].pc = "accept" PROVE invites'[door[q].row].state = "pending"
      <4>1. door[q].row \in DOMAIN invites /\ invites[door[q].row].profile = door[q].profile
        BY <3>3, AcceptersProfile
      <4>2. Usable(door[q].row) /\ door[q].row # i
        BY <1>2, <3>2, <3>3, <4>1 DEF AccountsInv, DoorKnows, AccepterKnows
      <4>3. w[door[q].row] = invites[door[q].row]
        BY <2>3, <2>4, <3>2, <3>3, <4>1
      <4> QED BY <2>5, <2>8, <4>1, <4>2, <4>3 DEF Usable
    <3>4. door[q].pc = "accept" => \A l \in logins' : l \in logins \/ l.profile # door[q].profile
      BY <2>2, <3>2
    <3>5. AccepterKnows(q)'
      BY <2>11, <3>1, <3>3, <3>4, FadingKeeps
    <3> QED BY <3>1, <3>5 DEF DoorKnows
  <2> QED BY <2>2, <2>12, <2>13, <2>14, <2>15 DEF AccountsInv
<1> QED BY <1>3, <1>4, <1>5

LEMMA WriteInviteKeeps ==
    ASSUME AccountsInv, NEW d \in Doors, WriteInvite(d) PROVE AccountsInv' /\ RevokedKept
<1> DEFINE p == door[d].profile
           e == door[d].email
           n == Len(invites)
           new == [email |-> e, profile |-> p, state |-> "pending"]
<1>1. /\ door[d].pc = "invite" /\ Leave(d) /\ UNCHANGED <<logins, slugs, password, links, resetRow, sessions, tries>>
      /\ RowUnlocked({x \in Doors : door[x].profile = p}, "accept")
      /\ \/ UNCHANGED invites \/ invites' = Append(Withdrawn(p), new)
  BY DEF WriteInvite, Standing
<1>2. /\ tries' \in [Emails -> 0 .. TryLimit + 1] /\ password' \in [Emails -> 0 .. LastPassword]
      /\ door[d] \in DoorRows /\ invites \in Seq(InviteRows) /\ InviterKnows(d)
  BY <1>1 DEF AccountsInv, AccountShapes, DoorKnows
<1>3. sessions' \subseteq [email : Emails, typed : Nat] /\ SessionsKnow'
  BY <1>1, SessionsStay
<1>4. CASE UNCHANGED invites
  BY <1>1, <1>2, <1>3, <1>4, DoorLeaves, AccountsMove DEF DoorKnows
<1>5. CASE invites' = Append(Withdrawn(p), new)
  <2>1. p \in Profiles /\ e \in Emails
    BY <1>1, <1>2 DEF InviterKnows, DoorRows
  <2>2. new \in InviteRows /\ new.email = e /\ new.profile = p /\ new.state = "pending"
    BY <2>1 DEF InviteRows, InviteStates
  <2> HIDE DEF new
  <2>3. /\ Withdrawn(p) \in Seq(InviteRows) /\ Len(Withdrawn(p)) = n
        /\ \A j \in DOMAIN invites :
               /\ Withdrawn(p)[j].email = invites[j].email /\ Withdrawn(p)[j].profile = invites[j].profile
               /\ Withdrawn(p)[j].state = "pending" => invites[j].state = "pending" /\ invites[j].profile # p
               /\ invites[j].state = "revoked" => Withdrawn(p)[j].state = "revoked"
               /\ invites[j].profile # p => Withdrawn(p)[j] = invites[j]
    BY WithdrawnIs
  <2>4. PICK w \in Seq(InviteRows) : w = Withdrawn(p)
    BY <2>3
  <2>5. /\ invites' \in Seq(InviteRows) /\ Len(invites') = n + 1 /\ invites'[n + 1] = new
        /\ \A j \in 1 .. n : invites'[j] = w[j]
        /\ DOMAIN invites = 1 .. n /\ DOMAIN invites' = 1 .. n + 1 /\ n \in Nat
    <3>1. Len(w) = n /\ n \in Nat /\ DOMAIN invites = 1 .. n
      BY <1>2, <2>3, <2>4
    <3>2. Append(w, new) \in Seq(InviteRows) /\ Len(Append(w, new)) = n + 1 /\ Append(w, new)[n + 1] = new
      BY <2>2, <3>1
    <3>3. \A j \in 1 .. n : Append(w, new)[j] = w[j]
      BY <2>2, <3>1
    <3>4. invites' = Append(w, new)
      BY <1>5, <2>4
    <3> QED BY <3>1, <3>2, <3>3, <3>4
  <2>6. ASSUME NEW j \in 1 .. n, invites'[j].state = "pending"
        PROVE  /\ invites[j].state = "pending" /\ invites'[j].email = invites[j].email
               /\ invites'[j].profile = invites[j].profile
               /\ invites[j].profile # p /\ invites[j].email # e
    <3>1. /\ invites[j].state = "pending" /\ invites'[j].email = invites[j].email
          /\ invites'[j].profile = invites[j].profile /\ invites[j].profile # p
      BY <2>3, <2>4, <2>5, <2>6
    <3>2. invites[j].email # e
      BY <1>1, <1>2, <2>5, <3>1 DEF InviterKnows, Usable
    <3> QED BY <3>1, <3>2
  <2>7. OneInvitationEach'
    <3> SUFFICES ASSUME NEW i \in 1 .. n + 1, NEW j \in 1 .. n + 1, i # j,
                        invites'[i].state = "pending", invites'[j].state = "pending"
                 PROVE  invites'[i].email # invites'[j].email /\ invites'[i].profile # invites'[j].profile
      BY <2>5 DEF OneInvitationEach, Usable
    <3>1. CASE i \in 1 .. n /\ j \in 1 .. n
      BY <2>5, <2>6, <3>1 DEF AccountsInv, OneInvitationEach, Usable
    <3>2. CASE i = n + 1
      <4>1. j \in 1 .. n
        BY <2>5, <3>2
      <4> QED BY <2>2, <2>5, <2>6, <3>2, <4>1
    <3>3. CASE j = n + 1
      <4>1. i \in 1 .. n
        BY <2>5, <3>3
      <4> QED BY <2>2, <2>5, <2>6, <3>3, <4>1
    <3> QED BY <2>5, <3>1, <3>2, <3>3
  <2>8. RevokedKept
    BY <2>3, <2>4, <2>5 DEF RevokedKept
  <2>9. /\ door' \in [Doors -> DoorRows] /\ \A q \in Doors : q # d => door'[q] = door[q]
        /\ DoorKnows(d)' /\ \A q, r \in Doors : q # r => HandsApart(q, r)'
    BY <1>1, DoorLeaves DEF DoorKnows
  <2>10. AccountShapes'
    BY <1>1, <1>2, <1>3, <2>5, <2>9 DEF AccountsInv, AccountShapes
  <2>11. OneLoginEach' /\ RowsKnow' /\ MailedLinkWorks'
    BY <1>1, LoginsStay, LinksStay
  <2>12. ASSUME NEW q \in Doors, q # d PROVE DoorKnows(q)'
    <3>1. \A x \in Emails : password[x] <= password'[x]
      BY <1>1, <1>2, AccountBounds
    <3>2. door'[q] = door[q] /\ MailerKnows(q)' /\ LoggerKnows(q)'
      BY <1>1, <1>2, <2>9, <2>12, <3>1, LinksStay, PasswordsStay
    <3>3. InviterKnows(q)'
      BY <1>1, <2>12, <3>2 DEF AccountsInv, HandsApart, InviterKnows
    <3>4. AccepterKnows(q)'
      <4>1. CASE door[q].pc \notin {"found", "accept"}
        BY <3>2, <4>1 DEF AccepterKnows
      <4>2. CASE door[q].pc \in {"found", "accept"}
        <5>1. PICK j \in 1 .. n : j = door[q].row
          BY <2>5, <4>2, AcceptersProfile
        <5>2. invites[j].profile = door[q].profile
          BY <4>2, <5>1, AcceptersProfile
        <5>3. j \in 1 .. n + 1 /\ invites'[j].profile = invites[j].profile
          BY <2>3, <2>4, <2>5, <5>1
        <5>4. door[q].pc = "accept" => invites'[j].state = "pending" /\ ~Manned(door[q].profile)
          <6> SUFFICES ASSUME door[q].pc = "accept" PROVE invites'[j].state = "pending" /\ ~Manned(door[q].profile)
            OBVIOUS
          <6>1. door[q].profile # p
            BY <1>1 DEF RowUnlocked, Standing
          <6>2. invites'[j] = invites[j]
            BY <2>3, <2>4, <2>5, <5>1, <5>2, <6>1
          <6> QED BY <5>1, <6>2 DEF AccountsInv, DoorKnows, AccepterKnows, Usable
        <5> QED BY <1>1, <2>5, <3>2, <5>1, <5>2, <5>3, <5>4 DEF AccepterKnows, Usable, Manned
      <4> QED BY <4>1, <4>2
    <3> QED BY <3>2, <3>3, <3>4 DEF DoorKnows
  <2> QED BY <1>3, <2>7, <2>8, <2>9, <2>10, <2>11, <2>12 DEF AccountsInv
<1> QED BY <1>1, <1>4, <1>5

-----------------------------------------------------------------------------
(* Steps that change sessions, counts and links.                           *)

\* Nothing but sessions and counts changes, at nobody's hand.
LEMMA AccountsRest ==
    ASSUME AccountsInv, UNCHANGED <<logins, invites, password, links, resetRow, door>>,
           sessions' \subseteq [email : Emails, typed : Nat], SessionsKnow',
           tries' \in [Emails -> 0 .. TryLimit + 1]
    PROVE  AccountsInv' /\ RevokedKept
<1>1. AccountShapes'
  BY DEF AccountsInv, AccountShapes
<1>2. OneLoginEach' /\ OneInvitationEach' /\ RowsKnow' /\ MailedLinkWorks'
  BY LoginsStay, InvitesStay, LinksStay
<1>3. password' \in [Emails -> 0 .. LastPassword] /\ \A e \in Emails : password[e] <= password'[e]
  <2>1. password \in [Emails -> 0 .. LastPassword]
    BY DEF AccountsInv, AccountShapes
  <2> QED BY <2>1, AccountBounds
<1>4. \A p \in Doors : DoorKnows(p)'
  BY <1>3, InvitesStay, LinksStay, PasswordsStay DEF DoorKnows
<1>5. RevokedKept /\ \A p, q \in Doors : p # q => HandsApart(p, q)'
  BY DEF RevokedKept, AccountsInv, HandsApart
<1> QED BY <1>1, <1>2, <1>4, <1>5 DEF AccountsInv

LEMMA SignOutKeeps == ASSUME AccountsInv, SignOut PROVE AccountsInv' /\ RevokedKept
<1>1. /\ sessions' \subseteq sessions
      /\ UNCHANGED <<logins, slugs, invites, password, links, resetRow, tries, door>>
      /\ tries' \in [Emails -> 0 .. TryLimit + 1]
  BY DEF SignOut, AccountsInv, AccountShapes
<1>2. sessions' \subseteq [email : Emails, typed : Nat] /\ SessionsKnow'
  BY <1>1 DEF AccountsInv, AccountShapes, SessionsKnow
<1> QED BY <1>1, <1>2, AccountsRest

LEMMA WindowEndsKeeps == ASSUME AccountsInv, WindowEnds PROVE AccountsInv' /\ RevokedKept
<1>1. PICK e \in Emails : tries' = [tries EXCEPT ![e] = 0]
  BY DEF WindowEnds
<1>2. /\ UNCHANGED <<logins, slugs, invites, password, links, resetRow, sessions, door>>
      /\ tries \in [Emails -> 0 .. TryLimit + 1] /\ 0 \in 0 .. TryLimit + 1
  BY AccountBounds DEF WindowEnds, AccountsInv, AccountShapes
<1>3. tries' \in [Emails -> 0 .. TryLimit + 1]
  BY <1>1, <1>2
<1> QED BY <1>2, <1>3, SessionsStay, AccountsRest

\* A request changes links, or what they open.
LEMMA LinksMove ==
    ASSUME AccountsInv, UNCHANGED <<logins, invites, tries>>,
           \A p \in Doors : InviterKnows(p)' /\ AccepterKnows(p)' /\ LoggerKnows(p)' /\ MailerKnows(p)',
           door' \in [Doors -> DoorRows], \A p, q \in Doors : p # q => HandsApart(p, q)',
           password' \in [Emails -> 0 .. LastPassword], OneLoginEach',
           sessions' \subseteq [email : Emails, typed : Nat], SessionsKnow',
           links' \in Seq(LinkRows), resetRow' \in [Emails -> Nat], RowsKnow', MailedLinkWorks'
    PROVE  AccountsInv' /\ RevokedKept
<1>1. AccountShapes'
  BY DEF AccountsInv, AccountShapes
<1>2. RevokedKept /\ OneInvitationEach'
  BY InvitesStay DEF RevokedKept
<1> QED BY <1>1, <1>2 DEF AccountsInv, DoorKnows

\* The status of one link changes; it does not become one that was mailed.
LEMMA LinkFades ==
    ASSUME AccountsInv, NEW t \in DOMAIN links, NEW s \in {"expired", "used"},
           links' = [links EXCEPT ![t].state = s]
    PROVE  /\ links' \in Seq(LinkRows) /\ Len(links') = Len(links) /\ DOMAIN links' = DOMAIN links
           /\ links'[t].state = s /\ \A u \in DOMAIN links : links'[u].email = links[u].email
           /\ \A u \in DOMAIN links : u # t => links'[u] = links[u]
           /\ \A u \in DOMAIN links : LastLink(u)' => LastLink(u)
<1>1. links \in Seq(LinkRows) /\ DOMAIN links = 1 .. Len(links) /\ Len(links) \in Nat
  BY DEF AccountsInv, AccountShapes
<1>2. links'[t] = [links[t] EXCEPT !.state = s] /\ links[t] \in LinkRows
  BY <1>1
<1>3. links'[t] \in LinkRows /\ links'[t].state = s /\ links'[t].email = links[t].email
  BY <1>2 DEF LinkRows
<1>4. \A u \in DOMAIN links : u # t => links'[u] = links[u]
  OBVIOUS
<1>5. links' \in [1 .. Len(links) -> LinkRows]
  BY <1>1, <1>3, <1>4
<1>6. links' \in Seq(LinkRows) /\ Len(links') = Len(links) /\ DOMAIN links' = DOMAIN links
  BY <1>1, <1>5
<1>7. \A u \in DOMAIN links : links'[u].email = links[u].email
  BY <1>3, <1>4
<1>8. \A u \in DOMAIN links : LastLink(u)' => LastLink(u)
  BY <1>6, <1>7 DEF LastLink
<1> QED BY <1>3, <1>4, <1>6, <1>7, <1>8

LEMMA LinkExpiresKeeps == ASSUME AccountsInv, LinkExpires PROVE AccountsInv' /\ RevokedKept
<1>1. PICK t \in DOMAIN links : links' = [links EXCEPT ![t].state = "expired"]
  BY DEF LinkExpires
<1>2. /\ UNCHANGED <<logins, slugs, invites, password, resetRow, sessions, tries, door>>
      /\ password' \in [Emails -> 0 .. LastPassword] /\ door' \in [Doors -> DoorRows]
      /\ resetRow' \in [Emails -> Nat]
  BY DEF LinkExpires, AccountsInv, AccountShapes
<1>3. /\ links' \in Seq(LinkRows) /\ Len(links') = Len(links) /\ DOMAIN links' = DOMAIN links
      /\ links'[t].state = "expired" /\ \A u \in DOMAIN links : links'[u].email = links[u].email
      /\ \A u \in DOMAIN links : u # t => links'[u] = links[u]
      /\ \A u \in DOMAIN links : LastLink(u)' => LastLink(u)
  BY <1>1, LinkFades
<1>4. RowsKnow'
  BY <1>2, <1>3 DEF AccountsInv, RowsKnow
<1>5. MailedLinkWorks'
  BY <1>2, <1>3 DEF AccountsInv, MailedLinkWorks, LastLink
<1>6. ASSUME NEW p \in Doors PROVE MailerKnows(p)'
  BY <1>2, <1>3 DEF AccountsInv, DoorKnows, MailerKnows
<1>7. \A e \in Emails : password[e] <= password'[e]
  BY <1>2, AccountBounds
<1>8. \A p \in Doors : InviterKnows(p)' /\ AccepterKnows(p)' /\ LoggerKnows(p)'
  BY <1>2, <1>7, InvitesStay, PasswordsStay
<1>9. \A p, q \in Doors : p # q => HandsApart(p, q)'
  BY <1>2 DEF AccountsInv, HandsApart
<1> QED BY <1>2, <1>3, <1>4, <1>5, <1>6, <1>8, <1>9, LoginsStay, SessionsStay, LinksMove

LEMMA IssueLinkKeeps == ASSUME AccountsInv, NEW d \in Doors, IssueLink(d) PROVE AccountsInv' /\ RevokedKept
<1> DEFINE n == Len(links)
<1>1. PICK e \in Emails :
        \/ Leave(d) /\ UNCHANGED <<links, resetRow>>
        \/ /\ Taken(e) /\ links' = Append(links, [email |-> e, state |-> "issued"])
           /\ resetRow' = [resetRow EXCEPT ![e] = n + 1]
           /\ door' = [door EXCEPT ![d].pc = "mail", ![d].email = e, ![d].row = n + 1]
  BY DEF IssueLink
<1>2. /\ UNCHANGED <<logins, slugs, invites, password, sessions, tries>>
      /\ password' \in [Emails -> 0 .. LastPassword] /\ resetRow \in [Emails -> Nat]
      /\ door \in [Doors -> DoorRows] /\ links \in Seq(LinkRows) /\ DOMAIN links = 1 .. n /\ n \in Nat
      /\ tries' \in [Emails -> 0 .. TryLimit + 1]
  BY DEF IssueLink, AccountsInv, AccountShapes
<1>3. sessions' \subseteq [email : Emails, typed : Nat] /\ SessionsKnow'
  BY <1>2, SessionsStay
<1>4. CASE Leave(d) /\ UNCHANGED <<links, resetRow>>
  BY <1>2, <1>3, <1>4, DoorLeaves, AccountsMove DEF DoorKnows
<1>5. CASE /\ Taken(e) /\ links' = Append(links, [email |-> e, state |-> "issued"])
           /\ resetRow' = [resetRow EXCEPT ![e] = n + 1]
           /\ door' = [door EXCEPT ![d].pc = "mail", ![d].email = e, ![d].row = n + 1]
  <2> DEFINE new == [email |-> e, state |-> "issued"]
  <2>1. new \in LinkRows /\ new.email = e /\ new.state = "issued"
    BY DEF LinkRows
  <2>2. links' = Append(links, new)
    BY <1>5
  <2> HIDE DEF new, n
  <2>3. /\ links' \in Seq(LinkRows) /\ DOMAIN links' = 1 .. n + 1 /\ links'[n + 1] = new
        /\ \A t \in 1 .. n : links'[t] = links[t]
    <3>1. Append(links, new) \in Seq(LinkRows) /\ Len(Append(links, new)) = n + 1
      BY <1>2, <2>1 DEF n
    <3>2. Append(links, new)[n + 1] = new /\ \A t \in 1 .. n : Append(links, new)[t] = links[t]
      BY <1>2, <2>1 DEF n
    <3>3. links' \in Seq(LinkRows) /\ Len(links') = n + 1
      BY <2>2, <3>1
    <3>4. DOMAIN links' = 1 .. n + 1
      BY <3>3
    <3> QED BY <2>2, <3>2, <3>3, <3>4
  <2>4. /\ resetRow' \in [Emails -> Nat] /\ resetRow'[e] = n + 1
        /\ \A x \in Emails : x # e => resetRow'[x] = resetRow[x]
    BY <1>2, <1>5
  <2>5. /\ door'[d] = [door[d] EXCEPT !.pc = "mail", !.email = e, !.row = n + 1] /\ door[d] \in DoorRows
        /\ \A p \in Doors : p # d => door'[p] = door[p]
    BY <1>2, <1>5
  <2>6. door'[d] \in DoorRows /\ door'[d].pc = "mail" /\ door'[d].email = e /\ door'[d].row = n + 1
    <3>1. n + 1 \in Nat
      BY <1>2
    <3> QED BY <2>5, <3>1 DEF DoorRows, DoorSteps
  <2>7. door' \in [Doors -> DoorRows]
    BY <1>2, <1>5, <2>5, <2>6
  <2>8. n + 1 \in 1 .. n + 1 /\ \A t \in 1 .. n : t \in 1 .. n + 1 /\ t # n + 1 /\ ~(n + 1 <= t)
    BY <1>2
  <2>9. ASSUME NEW t \in 1 .. n, LastLink(t)' PROVE LastLink(t) /\ links[t].email # e
    <3>1. links[t].email # e
      BY <2>1, <2>3, <2>8, <2>9 DEF LastLink
    <3>2. LastLink(t)
      BY <1>2, <2>3, <2>8, <2>9 DEF LastLink
    <3> QED BY <3>1, <3>2
  <2>10. \A t \in 1 .. n : links[t].email \in Emails
    <3>1. \A t \in 1 .. n : links[t] \in LinkRows
      BY <1>2
    <3> QED BY <3>1 DEF LinkRows
  <2>11. RowsKnow'
    <3>1. ASSUME NEW x \in Emails, resetRow'[x] # 0
          PROVE  resetRow'[x] \in 1 .. n + 1 /\ links'[resetRow'[x]].email = x
      <4>1. CASE x = e
        BY <2>1, <2>3, <2>4, <2>8, <4>1
      <4>2. CASE x # e
        <5>1. resetRow[x] \in 1 .. n /\ links[resetRow[x]].email = x /\ resetRow'[x] = resetRow[x]
          BY <1>2, <2>4, <3>1, <4>2 DEF AccountsInv, RowsKnow
        <5> QED BY <2>3, <2>8, <5>1
      <4> QED BY <4>1, <4>2
    <3> QED BY <2>3, <3>1 DEF RowsKnow
  <2>12. MailedLinkWorks'
    <3>1. ASSUME NEW t \in 1 .. n + 1, links'[t].state = "mailed", LastLink(t)'
          PROVE  resetRow'[links'[t].email] = t
      <4>1. t # n + 1
        BY <2>1, <2>3, <3>1
      <4>2. t \in 1 .. n
        BY <1>2, <4>1
      <4>3. LastLink(t) /\ links[t].email # e /\ links'[t] = links[t] /\ links[t].email \in Emails
        BY <2>3, <2>9, <2>10, <3>1, <4>2
      <4>4. resetRow[links[t].email] = t
        BY <1>2, <3>1, <4>2, <4>3 DEF AccountsInv, MailedLinkWorks, LastLink
      <4> QED BY <2>4, <4>3, <4>4
    <3>2. ASSUME NEW t \in DOMAIN links', links'[t].state = "mailed",
                 \A u \in DOMAIN links' : links'[u].email = links'[t].email => u <= t
          PROVE  resetRow'[links'[t].email] = t
      <4>1. LastLink(t)'
        BY <3>2 DEF LastLink
      <4> QED BY <2>3, <3>1, <3>2, <4>1
    <3> QED BY <3>2 DEF MailedLinkWorks
  <2>13. ASSUME NEW p \in Doors, p # d PROVE MailerKnows(p)'
    <3>1. door'[p] = door[p] /\ MailerKnows(p)
      BY <2>5, <2>13 DEF AccountsInv, DoorKnows
    <3>2. CASE door[p].pc \notin {"mail", "unsent"}
      BY <3>1, <3>2 DEF MailerKnows
    <3>3. CASE door[p].pc \in {"mail", "unsent"}
      <4>1. PICK r \in 1 .. n : r = door[p].row
        BY <1>2, <3>1, <3>3 DEF MailerKnows
      <4>2. links'[r] = links[r] /\ r \in 1 .. n + 1 /\ links[r].email = door[p].email /\ links[r].state # "mailed"
        BY <2>3, <2>8, <3>1, <3>3, <4>1 DEF MailerKnows
      <4>3. ASSUME door[p].pc = "mail", links[r].state = "issued", LastLink(r)'
            PROVE  resetRow'[door[p].email] = r
        <5>1. LastLink(r) /\ links[r].email # e /\ links[r].email \in Emails
          BY <2>9, <2>10, <4>3
        <5>2. resetRow[door[p].email] = r
          BY <3>1, <4>1, <4>3, <5>1 DEF MailerKnows
        <5> QED BY <2>4, <4>2, <5>1, <5>2
      <4>4. LastLink(door[p].row)' => LastLink(r)'
        BY <3>1, <4>1 DEF LastLink
      <4> QED BY <2>3, <3>1, <4>1, <4>2, <4>3, <4>4 DEF MailerKnows, LastLink
    <3> QED BY <3>2, <3>3
  <2>14. MailerKnows(d)' /\ InviterKnows(d)' /\ AccepterKnows(d)' /\ LoggerKnows(d)'
    BY <2>1, <2>3, <2>4, <2>6, <2>8 DEF MailerKnows, InviterKnows, AccepterKnows, LoggerKnows
  <2>15. \A q \in Doors : q # d => HandsApart(d, q)'
    <3> SUFFICES ASSUME NEW q \in Doors, q # d, door[q].pc \in {"mail", "unsent"} PROVE door[q].row # n + 1
      BY <2>5, <2>6 DEF HandsApart
    <3>1. door[q].row \in 1 .. n
      BY <1>2 DEF AccountsInv, DoorKnows, MailerKnows
    <3> QED BY <2>8, <3>1
  <2>16. \A q, r \in Doors : q # r => HandsApart(q, r)'
    BY <2>5, <2>15, TakingHand
  <2>17. \A x \in Emails : password[x] <= password'[x]
    BY <1>2, AccountBounds
  <2>18. \A p \in Doors : p # d => InviterKnows(p)' /\ AccepterKnows(p)' /\ LoggerKnows(p)'
    BY <1>2, <2>5, <2>17, InvitesStay, PasswordsStay
  <2>19. OneLoginEach'
    <3>1. \A x \in Emails : resetRow'[x] # 0 => Taken(x)
      BY <1>5, <2>4 DEF AccountsInv, OneLoginEach
    <3> QED BY <1>2, <3>1 DEF AccountsInv, OneLoginEach, Taken
  <2> QED BY <1>2, <1>3, <2>3, <2>4, <2>7, <2>11, <2>12, <2>13, <2>14, <2>16, <2>18, <2>19, LinksMove
<1> QED BY <1>1, <1>4, <1>5

LEMMA MailLinkKeeps == ASSUME AccountsInv, NEW d \in Doors, MailLink(d) PROVE AccountsInv' /\ RevokedKept
<1> DEFINE r == door[d].row
           s == IF links[r].state = "issued" THEN "mailed" ELSE links[r].state
<1>1. /\ UNCHANGED <<logins, slugs, invites, password, resetRow, sessions, tries>>
      /\ door[d].pc = "mail" /\ MailerKnows(d) /\ links \in Seq(LinkRows) /\ DOMAIN links = 1 .. Len(links)
      /\ Len(links) \in Nat /\ resetRow' \in [Emails -> Nat] /\ password' \in [Emails -> 0 .. LastPassword]
      /\ tries' \in [Emails -> 0 .. TryLimit + 1]
  BY DEF MailLink, Standing, AccountsInv, AccountShapes, DoorKnows
<1>2. r \in DOMAIN links /\ links[r].email = door[d].email /\ links[r].state # "mailed"
  BY <1>1 DEF MailerKnows
<1>3. sessions' \subseteq [email : Emails, typed : Nat] /\ SessionsKnow'
  BY <1>1, SessionsStay
<1>4. CASE Leave(d) /\ links' = [links EXCEPT ![r].state = IF @ = "issued" THEN "mailed" ELSE @]
  <2>1. links'[r] = [links[r] EXCEPT !.state = s] /\ links[r] \in LinkRows
    BY <1>1, <1>2, <1>4
  <2>2. s \in {"issued", "mailed", "expired", "used"} /\ (s = "mailed" => links[r].state = "issued") /\ s # "issued"
    BY <1>2, <2>1 DEF LinkRows
  <2>3. links' \in [1 .. Len(links) -> LinkRows] /\ \A u \in DOMAIN links : u # r => links'[u] = links[u]
    <3> HIDE DEF s, r
    <3>1. links'[r] \in LinkRows
      BY <2>1, <2>2 DEF LinkRows
    <3> QED BY <1>1, <1>2, <1>4, <3>1
  <2>4. links' \in Seq(LinkRows) /\ DOMAIN links' = DOMAIN links
    BY <1>1, <2>3
  <2>5. links'[r].email = links[r].email /\ links'[r].state = s
    BY <2>1 DEF LinkRows
  <2> HIDE DEF r, s
  <2>6. \A u \in DOMAIN links : links'[u].email = links[u].email
    BY <2>3, <2>5
  <2>7. \A u \in DOMAIN links : LastLink(u)' => LastLink(u)
    BY <2>4, <2>6 DEF LastLink
  <2>8. RowsKnow'
    BY <1>1, <2>4, <2>6 DEF AccountsInv, RowsKnow
  <2>9. ASSUME NEW t \in DOMAIN links, links'[t].state = "mailed", LastLink(t)' PROVE resetRow[links[t].email] = t
    <3>1. CASE t = r
      BY <1>1, <1>2, <2>2, <2>5, <2>7, <2>9, <3>1 DEF MailerKnows, r
    <3>2. CASE t # r
      BY <2>3, <2>7, <2>9, <3>2 DEF AccountsInv, MailedLinkWorks, LastLink
    <3> QED BY <3>1, <3>2
  <2>10. MailedLinkWorks'
    <3> SUFFICES ASSUME NEW t \in DOMAIN links', links'[t].state = "mailed",
                        \A u \in DOMAIN links' : links'[u].email = links'[t].email => u <= t
                 PROVE  resetRow'[links'[t].email] = t
      BY DEF MailedLinkWorks
    <3>1. LastLink(t)'
      BY DEF LastLink
    <3> QED BY <1>1, <2>4, <2>6, <2>9, <3>1
  <2>11. /\ door' \in [Doors -> DoorRows] /\ \A p \in Doors : p # d => door'[p] = door[p]
         /\ InviterKnows(d)' /\ AccepterKnows(d)' /\ LoggerKnows(d)' /\ MailerKnows(d)'
         /\ \A p, q \in Doors : p # q => HandsApart(p, q)'
    BY <1>4, DoorLeaves
  <2>12. ASSUME NEW p \in Doors, p # d PROVE MailerKnows(p)'
    <3>1. door'[p] = door[p] /\ MailerKnows(p) /\ HandsApart(d, p)
      BY <2>11, <2>12 DEF AccountsInv, DoorKnows
    <3>2. CASE door[p].pc \notin {"mail", "unsent"}
      BY <3>1, <3>2 DEF MailerKnows
    <3>3. CASE door[p].pc \in {"mail", "unsent"}
      <4>1. door[p].row \in DOMAIN links /\ door[p].row # r
        BY <1>1, <3>1, <3>3 DEF MailerKnows, HandsApart, r
      <4>2. links'[door[p].row] = links[door[p].row]
        BY <2>3, <4>1
      <4> QED BY <1>1, <2>4, <2>7, <3>1, <3>3, <4>1, <4>2 DEF MailerKnows
    <3> QED BY <3>2, <3>3
  <2>13. \A x \in Emails : password[x] <= password'[x]
    BY <1>1, AccountBounds
  <2>14. \A p \in Doors : p # d => InviterKnows(p)' /\ AccepterKnows(p)' /\ LoggerKnows(p)'
    BY <1>1, <2>11, <2>13, InvitesStay, PasswordsStay
  <2> QED BY <1>1, <1>3, <2>4, <2>8, <2>10, <2>11, <2>12, <2>14, LoginsStay, LinksMove
<1>5. CASE Move(d, "unsent") /\ UNCHANGED links
  <2>1. /\ door' \in [Doors -> DoorRows] /\ door'[d].pc = "unsent"
        /\ door'[d].email = door[d].email /\ door'[d].row = door[d].row
        /\ \A p \in Doors : p # d => door'[p] = door[p]
    BY <1>5, DoorTurns DEF DoorSteps
  <2>2. DoorKnows(d)'
    BY <1>2, <1>5, <2>1 DEF DoorKnows, InviterKnows, AccepterKnows, LoggerKnows, MailerKnows
  <2>3. \A q \in Doors : q # d => HandsApart(d, q)'
    BY <1>1, <2>1 DEF AccountsInv, HandsApart
  <2>4. \A p, q \in Doors : p # q => HandsApart(p, q)'
    BY <2>1, <2>3, TakingHand
  <2> QED BY <1>1, <1>3, <1>5, <2>1, <2>2, <2>4, AccountsMove
<1> QED BY <1>4, <1>5 DEF MailLink

LEMMA DropLinkKeeps == ASSUME AccountsInv, NEW d \in Doors, DropLink(d) PROVE AccountsInv' /\ RevokedKept
<1> DEFINE r == door[d].row
           e == door[d].email
<1>1. /\ UNCHANGED <<logins, slugs, invites, password, links, sessions, tries>>
      /\ door[d].pc = "unsent" /\ Leave(d) /\ MailerKnows(d) /\ links' \in Seq(LinkRows)
      /\ resetRow \in [Emails -> Nat] /\ password' \in [Emails -> 0 .. LastPassword] /\ door[d] \in DoorRows
  BY DEF DropLink, Standing, AccountsInv, AccountShapes, DoorKnows
<1>2. r \in DOMAIN links /\ links[r].email = e /\ links[r].state # "mailed" /\ e \in Emails
  BY <1>1 DEF MailerKnows, DoorRows
<1>3. resetRow' = IF resetRow[e] = r THEN [resetRow EXCEPT ![e] = 0] ELSE resetRow
  BY DEF DropLink, SameLink
<1>4. /\ resetRow' \in [Emails -> Nat]
      /\ \A x \in Emails : resetRow'[x] # resetRow[x] => x = e /\ resetRow[x] = r /\ resetRow'[x] = 0
  <2> HIDE DEF r, e
  <2>1. CASE resetRow[e] = r
    BY <1>1, <1>2, <1>3, <2>1
  <2>2. CASE resetRow[e] # r
    BY <1>1, <1>3, <2>2
  <2> QED BY <2>1, <2>2
<1>5. /\ door' \in [Doors -> DoorRows] /\ \A p \in Doors : p # d => door'[p] = door[p]
      /\ InviterKnows(d)' /\ AccepterKnows(d)' /\ LoggerKnows(d)' /\ MailerKnows(d)'
      /\ \A p, q \in Doors : p # q => HandsApart(p, q)'
  BY <1>1, DoorLeaves
<1>6. sessions' \subseteq [email : Emails, typed : Nat] /\ SessionsKnow'
  BY <1>1, SessionsStay
<1> HIDE DEF r, e
<1>7. OneLoginEach' /\ RowsKnow'
  BY <1>1, <1>4 DEF AccountsInv, OneLoginEach, RowsKnow, Taken
<1>8. \A t \in DOMAIN links : links[t].email \in Emails
  <2>1. \A t \in DOMAIN links : links[t] \in LinkRows
    BY DEF AccountsInv, AccountShapes
  <2> QED BY <2>1 DEF LinkRows
<1>9. MailedLinkWorks'
  <2> SUFFICES ASSUME NEW t \in DOMAIN links, links[t].state = "mailed",
                      \A u \in DOMAIN links : links[u].email = links[t].email => u <= t
               PROVE  resetRow'[links[t].email] = t
    BY <1>1 DEF MailedLinkWorks
  <2>1. resetRow[links[t].email] = t /\ t # r
    BY <1>2 DEF AccountsInv, MailedLinkWorks
  <2> QED BY <1>4, <1>8, <2>1
<1>10. ASSUME NEW p \in Doors, p # d PROVE MailerKnows(p)'
  <2>1. door'[p] = door[p] /\ MailerKnows(p) /\ HandsApart(d, p) /\ door[p].email \in Emails
    BY <1>5, <1>10 DEF AccountsInv, DoorKnows, AccountShapes, DoorRows
  <2>2. CASE door[p].pc \notin {"mail", "unsent"}
    BY <2>1, <2>2 DEF MailerKnows
  <2>3. CASE door[p].pc \in {"mail", "unsent"}
    <3>1. door[p].row # r
      BY <1>1, <2>1, <2>3 DEF HandsApart, r
    <3> QED BY <1>1, <1>4, <2>1, <2>3, <3>1 DEF MailerKnows, LastLink
  <2> QED BY <2>2, <2>3
<1>11. \A x \in Emails : password[x] <= password'[x]
  BY <1>1, AccountBounds
<1>12. \A p \in Doors : p # d => InviterKnows(p)' /\ AccepterKnows(p)' /\ LoggerKnows(p)'
  BY <1>1, <1>5, <1>11, InvitesStay, PasswordsStay
<1> QED BY <1>1, <1>4, <1>5, <1>6, <1>7, <1>9, <1>10, <1>12, LinksMove

LEMMA RedeemLinkKeeps == ASSUME AccountsInv, NEW d \in Doors, RedeemLink(d) PROVE AccountsInv' /\ RevokedKept
<1>1. /\ UNCHANGED <<logins, slugs, invites, tries>> /\ Leave(d)
      /\ tries' \in [Emails -> 0 .. TryLimit + 1] /\ resetRow \in [Emails -> Nat]
      /\ password \in [Emails -> 0 .. LastPassword] /\ links \in Seq(LinkRows)
  BY DEF RedeemLink, AccountsInv, AccountShapes
<1>2. PICK t \in DOMAIN links :
        \/ UNCHANGED <<password, links, resetRow, sessions>>
        \/ /\ resetRow[links[t].email] = t /\ password[links[t].email] < LastPassword
           /\ password' = [password EXCEPT ![links[t].email] = @ + 1]
           /\ sessions' = {s \in sessions : s.email # links[t].email}
           /\ resetRow' = [resetRow EXCEPT ![links[t].email] = 0]
           /\ links' = [links EXCEPT ![t].state = "used"]
  BY DEF RedeemLink
<1>3. links[t] \in LinkRows
  BY <1>1
<1>4. PICK e \in Emails : e = links[t].email
  BY <1>3 DEF LinkRows
<1>5. CASE UNCHANGED <<password, links, resetRow, sessions>>
  BY <1>1, <1>5, SessionsStay, DoorLeaves, AccountsMove DEF DoorKnows
<1>6. CASE /\ resetRow[e] = t /\ password[e] < LastPassword
           /\ password' = [password EXCEPT ![e] = @ + 1] /\ sessions' = {s \in sessions : s.email # e}
           /\ resetRow' = [resetRow EXCEPT ![e] = 0] /\ links' = [links EXCEPT ![t].state = "used"]
  <2>1. /\ links' \in Seq(LinkRows) /\ DOMAIN links' = DOMAIN links /\ links'[t].state = "used"
        /\ \A u \in DOMAIN links : links'[u].email = links[u].email
        /\ \A u \in DOMAIN links : u # t => links'[u] = links[u]
        /\ \A u \in DOMAIN links : LastLink(u)' => LastLink(u)
    BY <1>6, LinkFades
  <2>2. /\ resetRow' \in [Emails -> Nat] /\ resetRow'[e] = 0
        /\ \A x \in Emails : x # e => resetRow'[x] = resetRow[x]
    BY <1>1, <1>6
  <2>3. /\ password' \in [Emails -> 0 .. LastPassword] /\ password'[e] = password[e] + 1
        /\ \A x \in Emails : x # e => password'[x] = password[x]
    <3>1. password[e] + 1 \in 0 .. LastPassword
      BY <1>1, <1>6, AccountBounds
    <3> QED BY <1>1, <1>6, <3>1
  <2>4. ASSUME NEW x \in Emails
        PROVE  password[x] \in Int /\ 0 <= password[x] /\ password[x] <= password'[x]
    <3>1. password[x] \in 0 .. LastPassword /\ password[e] \in 0 .. LastPassword
      BY <1>1
    <3>2. CASE x = e
      BY <2>3, <3>1, <3>2, AccountBounds
    <3>3. CASE x # e
      BY <2>3, <3>1, <3>3, AccountBounds
    <3> QED BY <3>2, <3>3
  <2>5. /\ door' \in [Doors -> DoorRows] /\ \A p \in Doors : p # d => door'[p] = door[p]
        /\ InviterKnows(d)' /\ AccepterKnows(d)' /\ LoggerKnows(d)' /\ MailerKnows(d)'
        /\ \A p, q \in Doors : p # q => HandsApart(p, q)'
    BY <1>1, DoorLeaves
  <2>6. sessions' \subseteq [email : Emails, typed : Nat] /\ SessionsKnow'
    <3>1. sessions' \subseteq sessions /\ \A s \in sessions' : s.email # e /\ s.email \in Emails
      BY <1>6 DEF AccountsInv, AccountShapes
    <3> QED BY <2>3, <3>1 DEF AccountsInv, AccountShapes, SessionsKnow
  <2>7. OneLoginEach'
    <3>1. Taken(e)
      BY <1>1, <1>3, <1>6, <1>2 DEF AccountsInv, OneLoginEach
    <3>2. \A x \in Emails : Taken(x)' <=> Taken(x)
      BY <2>3, <2>4, <3>1 DEF Taken
    <3> QED BY <1>1, <2>2, <3>2 DEF AccountsInv, OneLoginEach
  <2>8. RowsKnow'
    BY <2>1, <2>2 DEF AccountsInv, RowsKnow
  <2>9. \A u \in DOMAIN links : links[u].email \in Emails
    <3>1. \A u \in DOMAIN links : links[u] \in LinkRows
      BY <1>1
    <3> QED BY <3>1 DEF LinkRows
  <2>10. MailedLinkWorks'
    <3> SUFFICES ASSUME NEW u \in DOMAIN links', links'[u].state = "mailed",
                        \A v \in DOMAIN links' : links'[v].email = links'[u].email => v <= u
                 PROVE  resetRow'[links'[u].email] = u
      BY DEF MailedLinkWorks
    <3>1. u \in DOMAIN links /\ u # t /\ links'[u] = links[u]
      BY <2>1
    <3>2. resetRow[links[u].email] = u
      BY <2>1, <3>1 DEF AccountsInv, MailedLinkWorks
    <3> QED BY <1>6, <2>2, <2>9, <3>1, <3>2
  <2>11. ASSUME NEW p \in Doors, p # d PROVE MailerKnows(p)'
    <3>1. door'[p] = door[p] /\ MailerKnows(p) /\ door[p].email \in Emails
      BY <2>5, <2>11 DEF AccountsInv, DoorKnows, AccountShapes, DoorRows
    <3>2. CASE door[p].pc \notin {"mail", "unsent"}
      BY <3>1, <3>2 DEF MailerKnows
    <3>3. CASE door[p].pc \in {"mail", "unsent"} /\ door[p].row = t
      BY <2>1, <3>1, <3>3 DEF MailerKnows
    <3>4. CASE door[p].pc \in {"mail", "unsent"} /\ door[p].row # t
      <4>1. /\ links'[door[p].row] = links[door[p].row] /\ door[p].row \in DOMAIN links
            /\ (LastLink(door[p].row)' => LastLink(door[p].row))
        <5>1. PICK r \in DOMAIN links : r = door[p].row
          BY <3>1, <3>4 DEF MailerKnows
        <5>2. LastLink(door[p].row)' => LastLink(r)'
          BY <3>1, <5>1 DEF LastLink
        <5> QED BY <2>1, <3>4, <5>1, <5>2
      <4> QED BY <1>6, <2>1, <2>2, <3>1, <3>4, <4>1 DEF MailerKnows
    <3> QED BY <3>2, <3>3, <3>4
  <2>12. \A p \in Doors : p # d => InviterKnows(p)' /\ AccepterKnows(p)' /\ LoggerKnows(p)'
    BY <1>1, <2>3, <2>4, <2>5, InvitesStay, PasswordsStay
  <2> QED BY <1>1, <2>1, <2>2, <2>3, <2>5, <2>6, <2>7, <2>8, <2>10, <2>11, <2>12, LinksMove
<1> QED BY <1>2, <1>4, <1>5, <1>6

LEMMA AccountsStep == AccountsInv /\ [AccountsNext]_accountVars => AccountsInv' /\ RevokedKept
<1> SUFFICES ASSUME AccountsInv, [AccountsNext]_accountVars PROVE AccountsInv' /\ RevokedKept
  OBVIOUS
<1>1. CASE UNCHANGED accountVars
  <2>1. /\ UNCHANGED <<logins, slugs, invites, password, links, resetRow, sessions, tries, door>>
        /\ tries' \in [Emails -> 0 .. TryLimit + 1]
    BY <1>1 DEF accountVars, AccountsInv, AccountShapes
  <2> QED BY <2>1, SessionsStay, AccountsRest
<1>2. ASSUME NEW d \in Doors, DoorStep(d) PROVE AccountsInv' /\ RevokedKept
  BY <1>2, SignUpKeeps, CheckInviteKeeps, WriteInviteKeeps, RevokeInviteKeeps, FindInviteKeeps, CheckAcceptKeeps,
     WriteAcceptKeeps, CountLoginKeeps, VerifyLoginKeeps, InsertSessionKeeps, ClearTriesKeeps, IssueLinkKeeps,
     MailLinkKeeps, DropLinkKeeps, RedeemLinkKeeps DEF DoorStep
<1> QED BY <1>1, <1>2, InviteExpiresKeeps, SignOutKeeps, WindowEndsKeeps, LinkExpiresKeeps DEF AccountsNext

\* At most one row of a kind: nothing, or one.
LEMMA OneAtMost ==
    ASSUME NEW S, \A x, y \in S : x = y
    PROVE  IF S = {} THEN Cardinality(S) = 0 ELSE Cardinality(S) = 1
<1>1. CASE S = {}
  BY <1>1, FS_EmptySet
<1>2. CASE S # {}
  <2>1. PICK x \in S : S = {x}
    BY <1>2
  <2> QED BY <1>2, <2>1, FS_Singleton
<1> QED BY <1>1, <1>2

\* However sign-ups, invitations, acceptances and resets overlap: one login for
\* an email and a profile, one open invitation for each, a revoked invitation
\* stays revoked, and the last link mailed works until it is used or expires.
THEOREM AccountsKeepTheirWord == AccountsSpec => AccountsSafe
<1>1. AccountsInv => AccountsTypeOK
  <2> SUFFICES ASSUME AccountsInv PROVE AccountsTypeOK
    OBVIOUS
  <2>1. /\ logins \subseteq LoginRows /\ password \in [Emails -> 0 .. LastPassword] /\ links \in Seq(LinkRows)
        /\ resetRow \in [Emails -> Nat] /\ tries \in [Emails -> 0 .. TryLimit + 1]
        /\ sessions \subseteq [email : Emails, typed : Nat]
    BY DEF AccountsInv, AccountShapes
  <2>2. \A l \in logins : l.email \in Emails /\ l.profile \in Profiles \cup {Owner}
    BY <2>1 DEF LoginRows
  <2>3. ASSUME NEW e \in Emails
        PROVE  /\ Cardinality({l \in logins : l.email = e}) = (IF password[e] = 0 THEN 0 ELSE 1)
               /\ password[e] \in 0..LastPassword /\ resetRow[e] \in 0..Len(links)
               /\ resetRow[e] # 0 => links[resetRow[e]].email = e
    <3> DEFINE S == {l \in logins : l.email = e}
    <3>1. \A x, y \in S : x = y
      BY DEF AccountsInv, OneLoginEach
    <3>2. S = {} <=> password[e] = 0
      BY DEF AccountsInv, OneLoginEach, Taken
    <3>3. IF S = {} THEN Cardinality(S) = 0 ELSE Cardinality(S) = 1
      <4> HIDE DEF S
      <4> QED BY <3>1, OneAtMost
    <3>4. resetRow[e] \in 0..Len(links) /\ (resetRow[e] # 0 => links[resetRow[e]].email = e)
      BY <2>1 DEF AccountsInv, RowsKnow
    <3> QED BY <2>1, <3>2, <3>3, <3>4
  <2>4. ASSUME NEW p \in Profiles PROVE Cardinality({l \in logins : l.profile = p}) <= 1
    <3> DEFINE S == {l \in logins : l.profile = p}
    <3>1. \A x, y \in S : x = y
      BY DEF AccountsInv, OneLoginEach
    <3>2. IF S = {} THEN Cardinality(S) = 0 ELSE Cardinality(S) = 1
      <4> HIDE DEF S
      <4> QED BY <3>1, OneAtMost
    <3> QED BY <3>2
  <2>5. ASSUME NEW s \in sessions PROVE s.typed \in 1..password[s.email]
    <3>1. s.typed \in Nat /\ s.email \in Emails /\ 1 <= s.typed /\ s.typed <= password[s.email]
      BY <2>1 DEF AccountsInv, SessionsKnow
    <3>2. password[s.email] \in Int
      BY <2>1, <3>1, AccountBounds
    <3> QED BY <3>1, <3>2
  <2> QED BY <2>1, <2>2, <2>3, <2>4, <2>5 DEF AccountsTypeOK
<1>2. AccountsInv => OneInvitationEach /\ MailedLinkWorks
  BY DEF AccountsInv
<1>3. AccountsSpec => []AccountsInv
  BY AccountsStart, AccountsStep, PTL DEF AccountsSpec
<1>4. AccountsInv /\ [AccountsNext]_accountVars
      => [\A i \in DOMAIN invites : invites[i].state = "revoked" => invites'[i].state = "revoked"]_accountVars
  BY AccountsStep DEF RevokedKept
<1>5. AccountsSpec => RevokedStaysRevoked
  BY <1>3, <1>4, PTL DEF AccountsSpec, RevokedStaysRevoked
<1> QED BY <1>1, <1>2, <1>3, <1>5, PTL DEF AccountsSafe

-----------------------------------------------------------------------------
(* The studio's locations and their hours (module StudioLocations).        *)

SomeRows == UNION {[S -> LocationRow] : S \in SUBSET Locations}
SaveSteps == {"new", "refused", "begin", "demote", "write", "cut", "promote", "commit", "done", "failed"}
TxRows == [pc : SaveSteps, was : BOOLEAN, other : Locations \cup {Nowhere}, make : BOOLEAN, put : SomeRows,
           cut : SUBSET (Saves \cup {0})]

LocationShapes ==
    /\ locations \in SomeRows /\ openings \in [Locations -> SUBSET (Saves \cup {0})]
    /\ lock \in [Locations -> Saves \cup {0}]
    /\ \A t \in Saves : save[t] \in LocationWish
    /\ tx \in [Saves -> TxRows]
    /\ guide \in [pc : {"idle", "hours", "told"}, at : Locations \cup {Nowhere}, by : Saves \cup {0},
                  hours : SUBSET (Saves \cup {0})]
    /\ history \in [Locations -> Seq(Saves \cup {0})]

\* The committed row, the hours and the newest of the history are one save's.
LocationKnows(l) ==
    l \in DOMAIN locations =>
        /\ openings[l] = {locations[l].by}
        /\ Len(history[l]) > 0 /\ history[l][Len(history[l])] = locations[l].by

\* A transaction holds what it wrote, writes no other location's name, and once it
\* has read the hours it replaces they are still the committed ones.
TxKnows(t) ==
    /\ tx[t].pc \in {"new", "begin", "demote"} => DOMAIN tx[t].put = {}
    /\ \A l \in DOMAIN tx[t].put :
          /\ lock[l] = t
          /\ l # save[t].on => l \in DOMAIN locations /\ tx[t].put[l].by = locations[l].by
    /\ tx[t].pc \in {"cut", "promote", "commit"} => save[t].on \in DOMAIN tx[t].put /\ tx[t].put[save[t].on].by = t
    /\ tx[t].pc \in {"promote", "commit"} => tx[t].cut = openings[save[t].on]
    /\ tx[t].other # Nowhere => tx[t].other \in DOMAIN locations /\ tx[t].other # save[t].on
    /\ tx[t].pc = "promote" => tx[t].other # Nowhere

GuideKnows ==
    /\ guide.pc = "hours" =>
          guide.at \in DOMAIN locations /\ \E i \in DOMAIN history[guide.at] : history[guide.at][i] = guide.by
    /\ guide.pc = "told" => guide.at \in Locations
    /\ HoursNotOlder

LocationsInv ==
    /\ LocationShapes /\ GuideKnows
    /\ \A l \in Locations : LocationKnows(l)
    /\ \A t \in Saves : TxKnows(t)

LEMMA RowsAre == ASSUME NEW f \in SomeRows
                 PROVE DOMAIN f \subseteq Locations /\ f \in [DOMAIN f -> LocationRow]
BY DEF SomeRows

LEMMA OverRows ==
    ASSUME NEW put \in SomeRows, NEW old \in SomeRows
    PROVE  /\ Over(put, old) \in SomeRows /\ DOMAIN Over(put, old) = DOMAIN put \cup DOMAIN old
           /\ \A l \in DOMAIN put : Over(put, old)[l] = put[l]
           /\ \A l \in DOMAIN old \ DOMAIN put : Over(put, old)[l] = old[l]
<1>1. /\ DOMAIN put \subseteq Locations /\ put \in [DOMAIN put -> LocationRow]
      /\ DOMAIN old \subseteq Locations /\ old \in [DOMAIN old -> LocationRow]
  BY RowsAre
<1>2. Over(put, old) \in [DOMAIN put \cup DOMAIN old -> LocationRow]
  BY <1>1 DEF Over
<1>3. DOMAIN put \cup DOMAIN old \in SUBSET Locations
  BY <1>1
<1>4. Over(put, old) \in SomeRows
  BY <1>2, <1>3 DEF SomeRows
<1> QED BY <1>4 DEF Over

LEMMA OneRow == ASSUME NEW l \in Locations, NEW r \in LocationRow
                PROVE [m \in {l} |-> r] \in SomeRows
<1>1. [m \in {l} |-> r] \in [{l} -> LocationRow] /\ {l} \in SUBSET Locations
  OBVIOUS
<1> QED BY <1>1 DEF SomeRows

\* A row that a transaction writes is laid over those it wrote before.
LEMMA WithRow ==
    ASSUME NEW t \in Saves, tx \in [Saves -> TxRows], NEW l \in Locations, NEW r \in LocationRow
    PROVE  /\ With(t, l, r) \in SomeRows /\ DOMAIN With(t, l, r) = DOMAIN tx[t].put \cup {l}
           /\ With(t, l, r)[l] = r
           /\ \A m \in DOMAIN tx[t].put : m # l => With(t, l, r)[m] = tx[t].put[m]
<1> DEFINE one == [m \in {l} |-> r]
<1>1. one \in SomeRows /\ tx[t].put \in SomeRows
  BY OneRow DEF TxRows
<1>2. With(t, l, r) = Over(one, tx[t].put)
  BY DEF With
<1>3. DOMAIN one = {l} /\ one[l] = r
  OBVIOUS
<1> HIDE DEF one
<1> DEFINE old == tx[t].put
           all == Over(one, old)
<1>4. one \in SomeRows /\ old \in SomeRows
  BY <1>1
<1> HIDE DEF old
<1>5. /\ all \in SomeRows /\ DOMAIN all = DOMAIN one \cup DOMAIN old
      /\ \A m \in DOMAIN one : all[m] = one[m]
      /\ \A m \in DOMAIN old \ DOMAIN one : all[m] = old[m]
  BY <1>4, OverRows
<1> HIDE DEF all
<1>6. /\ DOMAIN all = DOMAIN old \cup {l} /\ all[l] = r
      /\ \A m \in DOMAIN old : m # l => all[m] = old[m]
  BY <1>3, <1>5
<1> QED BY <1>2, <1>5, <1>6 DEF all, old

LEMMA NoRows == << >> \in SomeRows /\ DOMAIN << >> = {}
<1>1. << >> \in [{} -> LocationRow] /\ {} \in SUBSET Locations
  OBVIOUS
<1> QED BY <1>1 DEF SomeRows

LEMMA NoTxRow == NoTx \in TxRows /\ DOMAIN NoTx.put = {}
BY NoRows DEF NoTx, TxRows, SaveSteps

LEMMA LocationsStart == LocationsInit => LocationsInv
<1> SUFFICES ASSUME LocationsInit PROVE LocationsInv
  OBVIOUS
<1>1. \A l \in DOMAIN locations : locations[l] \in LocationRow /\ locations[l].by = 0
  BY LocationBounds DEF LocationsInit
<1>2. DOMAIN locations \in SUBSET Locations /\ locations = [l \in DOMAIN locations |-> locations[l]]
  BY LocationBounds DEF LocationsInit
<1>3. locations \in SomeRows
  BY <1>1, <1>2 DEF SomeRows
<1>4. \A t \in Saves : save[t] \in LocationWish
  BY LocationBounds DEF LocationsInit
<1>5. tx \in [Saves -> TxRows] /\ \A t \in Saves : tx[t] = NoTx
  BY NoTxRow DEF LocationsInit
<1>6. history \in [Locations -> Seq(Saves \cup {0})]
  <2>1. <<0>> \in Seq(Saves \cup {0}) /\ << >> \in Seq(Saves \cup {0})
    OBVIOUS
  <2> QED BY <2>1 DEF LocationsInit
<1>7. /\ openings \in [Locations -> SUBSET (Saves \cup {0})] /\ lock \in [Locations -> Saves \cup {0}]
      /\ guide \in [pc : {"idle", "hours", "told"}, at : Locations \cup {Nowhere}, by : Saves \cup {0},
                    hours : SUBSET (Saves \cup {0})]
      /\ guide.pc = "idle"
  BY DEF LocationsInit
<1>8. \A l \in Locations : LocationKnows(l)
  <2> SUFFICES ASSUME NEW l \in Locations, l \in DOMAIN locations PROVE LocationKnows(l)
    BY DEF LocationKnows
  <2>1. openings[l] = {0} /\ history[l] = <<0>> /\ locations[l].by = 0
    BY <1>1 DEF LocationsInit
  <2>2. Len(<<0>>) = 1 /\ <<0>>[1] = 0
    OBVIOUS
  <2> QED BY <2>1, <2>2 DEF LocationKnows
<1>9. \A t \in Saves : TxKnows(t)
  <2> SUFFICES ASSUME NEW t \in Saves PROVE TxKnows(t)
    OBVIOUS
  <2>1. tx[t].pc = "new" /\ tx[t].other = Nowhere /\ DOMAIN tx[t].put = {}
    BY <1>5, NoTxRow DEF NoTx
  <2> QED BY <2>1 DEF TxKnows
<1>10. GuideKnows
  BY <1>7 DEF GuideKnows, HoursNotOlder
<1> QED BY <1>3, <1>4, <1>5, <1>6, <1>7, <1>8, <1>9, <1>10 DEF LocationsInv, LocationShapes

\* A step of one transaction that commits nothing.
LEMMA TxMoves ==
    ASSUME LocationsInv, NEW t \in Saves, UNCHANGED <<locations, openings, save, guide, history>>,
           tx' \in [Saves -> TxRows], \A u \in Saves : u # t => tx'[u] = tx[u],
           lock' \in [Locations -> Saves \cup {0}],
           \A l \in Locations, u \in Saves : u # t /\ lock[l] = u => lock'[l] = u, TxKnows(t)'
    PROVE  LocationsInv'
<1>1. LocationShapes'
  BY DEF LocationsInv, LocationShapes
<1>2. \A l \in Locations : LocationKnows(l)'
  BY DEF LocationsInv, LocationKnows
<1>3. GuideKnows'
  BY DEF LocationsInv, GuideKnows, HoursNotOlder
<1>4. ASSUME NEW u \in Saves, u # t PROVE TxKnows(u)'
  <2>1. tx[u] \in TxRows /\ TxKnows(u)
    BY DEF LocationsInv, LocationShapes
  <2>2. tx[u].put \in SomeRows
    BY <2>1 DEF TxRows
  <2>3. DOMAIN tx[u].put \subseteq Locations
    BY <2>2, RowsAre
  <2>4. \A l \in DOMAIN tx[u].put : lock[l] = u /\ lock'[l] = u
    BY <1>4, <2>1, <2>3 DEF TxKnows
  <2> QED BY <1>4, <2>1, <2>4 DEF TxKnows
<1> QED BY <1>1, <1>2, <1>3, <1>4 DEF LocationsInv

\* What a transaction locks was nobody else's.
LEMMA LockedMoves ==
    ASSUME LocationsInv, NEW t \in Saves, NEW taken, RowsFree(t, taken), lock' = Locked(t, taken)
    PROVE  /\ lock' \in [Locations -> Saves \cup {0}]
           /\ \A l \in Locations : l \in taken \/ lock[l] = t => lock'[l] = t
           /\ \A l \in Locations, u \in Saves : u # t /\ lock[l] = u => lock'[l] = u
<1>1. lock \in [Locations -> Saves \cup {0}] /\ 0 \notin Saves
  BY LocationBounds DEF LocationsInv, LocationShapes
<1> QED BY <1>1 DEF RowsFree, Locked

LEMMA ReleasedMoves ==
    ASSUME LocationsInv, NEW t \in Saves, lock' = Released(t)
    PROVE  /\ lock' \in [Locations -> Saves \cup {0}]
           /\ \A l \in Locations, u \in Saves : u # t /\ lock[l] = u => lock'[l] = u
<1>1. lock \in [Locations -> Saves \cup {0}]
  BY DEF LocationsInv, LocationShapes
<1> QED BY <1>1 DEF Released

LEMMA TxFacts ==
    ASSUME LocationsInv, NEW t \in Saves
    PROVE  /\ tx \in [Saves -> TxRows] /\ tx[t] \in TxRows /\ tx[t].put \in SomeRows /\ TxKnows(t)
           /\ DOMAIN tx[t].put \subseteq Locations
           /\ locations \in SomeRows /\ DOMAIN locations \subseteq Locations
           /\ save[t] \in LocationWish /\ save[t].on \in Locations /\ save[t].active \in BOOLEAN
<1>1. tx \in [Saves -> TxRows] /\ TxKnows(t) /\ locations \in SomeRows /\ save[t] \in LocationWish
  BY DEF LocationsInv, LocationShapes
<1>2. tx[t].put \in SomeRows
  BY <1>1 DEF TxRows
<1> QED BY <1>1, <1>2, RowsAre DEF LocationWish

\* A transaction goes on without writing a row or looking for locks.
LEMMA TxGoesOn ==
    ASSUME LocationsInv, NEW t \in Saves, UNCHANGED <<locations, openings, lock, save, guide, history>>,
           NEW r \in TxRows, tx' = [tx EXCEPT ![t] = r], r.put = tx[t].put,
           r.pc \in {"new", "begin", "demote"} => tx[t].pc \in {"new", "begin", "demote"},
           r.pc \in {"cut", "promote", "commit"} => tx[t].pc \in {"cut", "promote", "commit"},
           r.pc \in {"promote", "commit"} => r.cut = openings[save[t].on],
           r.other # Nowhere => r.other \in DOMAIN locations /\ r.other # save[t].on,
           r.pc = "promote" => r.other # Nowhere
    PROVE  LocationsInv'
<1>1. tx \in [Saves -> TxRows] /\ TxKnows(t)
  BY TxFacts
<1>2. tx' \in [Saves -> TxRows] /\ tx'[t] = r /\ \A u \in Saves : u # t => tx'[u] = tx[u]
  BY <1>1
<1>3. TxKnows(t)'
  BY <1>1, <1>2 DEF TxKnows
<1>4. lock' \in [Locations -> Saves \cup {0}] /\ \A l \in Locations : lock'[l] = lock[l]
  BY DEF LocationsInv, LocationShapes
<1> QED BY <1>2, <1>3, <1>4, TxMoves

LEMMA RefuseKeeps == ASSUME LocationsInv, NEW t \in Saves, Refuse(t) PROVE LocationsInv'
<1> DEFINE r == [tx[t] EXCEPT !.pc = "refused"]
<1>1. tx' = [tx EXCEPT ![t] = r] /\ tx[t] \in TxRows
  BY TxFacts DEF Refuse
<1>2. r \in TxRows /\ r.pc = "refused" /\ r.put = tx[t].put /\ r.other = tx[t].other
  BY <1>1 DEF TxRows, SaveSteps
<1> HIDE DEF r
<1>3. r.other # Nowhere => r.other \in DOMAIN locations /\ r.other # save[t].on
  BY <1>2, TxFacts DEF TxKnows
<1> QED BY <1>1, <1>2, <1>3, TxGoesOn DEF Refuse

LEMMA ReadCurrentKeeps == ASSUME LocationsInv, NEW t \in Saves, ReadCurrent(t) PROVE LocationsInv'
<1> DEFINE was == locations[save[t].on].primary
           r == [tx[t] EXCEPT !.pc = "begin", !.was = was]
<1>1. tx' = [tx EXCEPT ![t] = r] /\ tx[t] \in TxRows /\ tx[t].pc = "new"
  BY TxFacts DEF ReadCurrent
<1>2. was \in BOOLEAN
  <2>1. locations[save[t].on] \in LocationRow
    BY TxFacts, RowsAre DEF ReadCurrent
  <2> QED BY <2>1 DEF LocationRow
<1> HIDE DEF was
<1>3. r \in TxRows /\ r.pc = "begin" /\ r.put = tx[t].put /\ r.other = tx[t].other
  BY <1>1, <1>2 DEF TxRows, SaveSteps
<1> HIDE DEF r
<1>4. r.other # Nowhere => r.other \in DOMAIN locations /\ r.other # save[t].on
  BY <1>3, TxFacts DEF TxKnows
<1> QED BY <1>1, <1>3, <1>4, TxGoesOn DEF ReadCurrent

LEMMA BeginSaveKeeps == ASSUME LocationsInv, NEW t \in Saves, BeginSave(t) PROVE LocationsInv'
<1>1. PICK other \in IF OtherActive(save[t].on) = {} THEN {Nowhere} ELSE OtherActive(save[t].on) :
         tx' = [tx EXCEPT ![t].other = other, ![t].make = MakePrimary(t, other),
                          ![t].pc = IF MakePrimary(t, other) THEN "demote" ELSE "write"]
  BY DEF BeginSave
<1>2. tx[t] \in TxRows /\ tx[t].pc = "begin" /\ tx \in [Saves -> TxRows]
  BY TxFacts DEF BeginSave
<1>3. PICK make \in BOOLEAN : make = MakePrimary(t, other)
  <2>1. tx[t].was \in BOOLEAN /\ save[t].active \in BOOLEAN /\ save[t].primary \in BOOLEAN
    BY <1>2, TxFacts DEF TxRows, LocationWish
  <2> QED BY <2>1 DEF MakePrimary
<1> DEFINE r == [tx[t] EXCEPT !.other = other, !.make = make, !.pc = IF make THEN "demote" ELSE "write"]
<1>4. tx' = [tx EXCEPT ![t] = r]
  BY <1>1, <1>2, <1>3
<1>5. other # Nowhere => other \in DOMAIN locations /\ other # save[t].on
  BY <1>1 DEF OtherActive
<1>6. other \in Locations \cup {Nowhere}
  BY <1>5, TxFacts
<1>7. r \in TxRows /\ r.pc \in {"demote", "write"} /\ r.put = tx[t].put /\ r.other = other
  BY <1>2, <1>6 DEF TxRows, SaveSteps
<1> HIDE DEF r
<1> QED BY <1>2, <1>4, <1>5, <1>7, TxGoesOn DEF BeginSave

LEMMA BeginCreateKeeps == ASSUME LocationsInv, NEW t \in Saves, BeginCreate(t) PROVE LocationsInv'
<1>1. PICK make \in BOOLEAN :
        tx' = [tx EXCEPT ![t].make = make, ![t].pc = IF make THEN "demote" ELSE "write"]
  <2> DEFINE existing == \E m \in DOMAIN locations : locations[m].primary /\ locations[m].active
  <2>1. (save[t].active /\ (save[t].primary \/ ~existing)) \in BOOLEAN
    BY TxFacts DEF LocationWish
  <2> QED BY <2>1 DEF BeginCreate
<1>2. tx[t] \in TxRows /\ tx[t].pc = "new" /\ tx \in [Saves -> TxRows]
  BY TxFacts DEF BeginCreate
<1> DEFINE r == [tx[t] EXCEPT !.make = make, !.pc = IF make THEN "demote" ELSE "write"]
<1>3. tx' = [tx EXCEPT ![t] = r]
  BY <1>1, <1>2
<1>4. r \in TxRows /\ r.pc \in {"demote", "write"} /\ r.put = tx[t].put /\ r.other = tx[t].other
  BY <1>2 DEF TxRows, SaveSteps
<1> HIDE DEF r
<1>5. r.other # Nowhere => r.other \in DOMAIN locations /\ r.other # save[t].on
  BY <1>4, TxFacts DEF TxKnows
<1> QED BY <1>2, <1>3, <1>4, <1>5, TxGoesOn DEF BeginCreate

LEMMA ReplaceHoursKeeps == ASSUME LocationsInv, NEW t \in Saves, ReplaceHours(t) PROVE LocationsInv'
<1>1. /\ tx[t].pc = "cut"
      /\ tx' = [tx EXCEPT ![t].cut = openings[save[t].on],
                          ![t].pc = IF tx[t].was /\ ~tx[t].make /\ tx[t].other # Nowhere THEN "promote" ELSE "commit"]
      /\ UNCHANGED <<locations, openings, lock, save, guide, history>>
  BY DEF ReplaceHours
<1>2. tx[t] \in TxRows /\ tx \in [Saves -> TxRows] /\ openings[save[t].on] \in SUBSET (Saves \cup {0})
  BY TxFacts DEF LocationsInv, LocationShapes
<1>3. PICK next \in {"promote", "commit"} :
        /\ next = IF tx[t].was /\ ~tx[t].make /\ tx[t].other # Nowhere THEN "promote" ELSE "commit"
        /\ next = "promote" => tx[t].other # Nowhere
  OBVIOUS
<1> DEFINE r == [tx[t] EXCEPT !.cut = openings[save[t].on], !.pc = next]
<1>4. tx' = [tx EXCEPT ![t] = r]
  BY <1>1, <1>2, <1>3
<1>5. /\ r \in TxRows /\ r.pc = next /\ r.put = tx[t].put /\ r.other = tx[t].other
      /\ r.cut = openings[save[t].on]
  BY <1>2, <1>3 DEF TxRows, SaveSteps
<1> HIDE DEF r
<1>6. r.other # Nowhere => r.other \in DOMAIN locations /\ r.other # save[t].on
  BY <1>5, TxFacts DEF TxKnows
<1> QED BY <1>1, <1>3, <1>4, <1>5, <1>6, TxGoesOn

LEMMA DemoteKeeps == ASSUME LocationsInv, NEW t \in Saves, Demote(t) PROVE LocationsInv'
<1> DEFINE kept == [l \in DOMAIN locations |-> [locations[l] EXCEPT !.primary = FALSE]]
           r == [tx[t] EXCEPT !.pc = "write", !.put = kept]
<1>1. /\ tx[t] \in TxRows /\ tx \in [Saves -> TxRows] /\ tx' = [tx EXCEPT ![t] = r]
      /\ RowsFree(t, DOMAIN locations) /\ lock' = Locked(t, DOMAIN locations)
      /\ UNCHANGED <<locations, openings, save, guide, history>>
  BY TxFacts DEF Demote
<1>2. locations \in [DOMAIN locations -> LocationRow] /\ DOMAIN locations \in SUBSET Locations
  BY TxFacts, RowsAre
<1>3. \A l \in DOMAIN locations : kept[l] \in LocationRow /\ kept[l].by = locations[l].by
  BY <1>2 DEF LocationRow
<1>4. DOMAIN kept = DOMAIN locations /\ kept \in SomeRows
  BY <1>2, <1>3 DEF SomeRows
<1> HIDE DEF kept
<1>5. r \in TxRows /\ r.pc = "write" /\ r.put = kept /\ r.other = tx[t].other
  BY <1>1, <1>4 DEF TxRows, SaveSteps
<1> HIDE DEF r
<1>6. tx' \in [Saves -> TxRows] /\ tx'[t] = r /\ \A u \in Saves : u # t => tx'[u] = tx[u]
  BY <1>1, <1>5
<1>7. /\ lock' \in [Locations -> Saves \cup {0}]
      /\ \A l \in DOMAIN locations : lock'[l] = t
      /\ \A l \in Locations, u \in Saves : u # t /\ lock[l] = u => lock'[l] = u
  BY <1>1, <1>2, LockedMoves
<1>8. r.other # Nowhere => r.other \in DOMAIN locations /\ r.other # save[t].on
  BY <1>5, TxFacts DEF TxKnows
<1>9. TxKnows(t)'
  BY <1>1, <1>3, <1>4, <1>5, <1>6, <1>7, <1>8 DEF TxKnows
<1> QED BY <1>1, <1>6, <1>7, <1>9, TxMoves

LEMMA WriteLocationKeeps == ASSUME LocationsInv, NEW t \in Saves, WriteLocation(t) PROVE LocationsInv'
<1> DEFINE on == save[t].on
           own == [active |-> save[t].active, primary |-> tx[t].make, by |-> t]
           put == With(t, on, own)
           r == [tx[t] EXCEPT !.pc = "cut", !.put = put]
<1>1. /\ tx[t] \in TxRows /\ tx \in [Saves -> TxRows] /\ tx' = [tx EXCEPT ![t] = r]
      /\ RowsFree(t, {on}) /\ lock' = Locked(t, {on}) /\ on \in Locations
      /\ UNCHANGED <<locations, openings, save, guide, history>>
  BY TxFacts DEF WriteLocation
<1>2. own \in LocationRow /\ own.by = t
  BY <1>1, TxFacts DEF TxRows, LocationRow
<1> HIDE DEF own
<1>3. /\ put \in SomeRows /\ DOMAIN put = DOMAIN tx[t].put \cup {on} /\ put[on] = own
      /\ \A m \in DOMAIN tx[t].put : m # on => put[m] = tx[t].put[m]
  <2>1. tx \in [Saves -> TxRows] /\ on \in Locations /\ own \in LocationRow
    BY <1>1, <1>2
  <2> HIDE DEF on
  <2> QED BY <2>1, WithRow
<1> HIDE DEF put
<1>4. r \in TxRows /\ r.pc = "cut" /\ r.put = put /\ r.other = tx[t].other
  BY <1>1, <1>3 DEF TxRows, SaveSteps
<1> HIDE DEF r
<1>5. tx' \in [Saves -> TxRows] /\ tx'[t] = r /\ \A u \in Saves : u # t => tx'[u] = tx[u]
  BY <1>1, <1>4
<1>6. /\ lock' \in [Locations -> Saves \cup {0}]
      /\ \A l \in Locations : l \in {on} \/ lock[l] = t => lock'[l] = t
      /\ \A l \in Locations, u \in Saves : u # t /\ lock[l] = u => lock'[l] = u
  BY <1>1, LockedMoves
<1>7. /\ r.other # Nowhere => r.other \in DOMAIN locations /\ r.other # save[t].on
      /\ \A l \in DOMAIN tx[t].put :
            /\ lock[l] = t /\ l \in Locations
            /\ l # on => l \in DOMAIN locations /\ tx[t].put[l].by = locations[l].by
  BY <1>4, TxFacts DEF TxKnows
<1>8. \A l \in DOMAIN put : /\ lock'[l] = t
                            /\ l # on => l \in DOMAIN locations /\ put[l].by = locations[l].by
  BY <1>1, <1>3, <1>6, <1>7
<1>9. TxKnows(t)'
  BY <1>1, <1>2, <1>3, <1>4, <1>5, <1>7, <1>8 DEF TxKnows
<1> QED BY <1>1, <1>5, <1>6, <1>9, TxMoves

LEMMA PromoteKeeps == ASSUME LocationsInv, NEW t \in Saves, Promote(t) PROVE LocationsInv'
<1> DEFINE l0 == tx[t].other
           own == [Seen(t, l0) EXCEPT !.primary = TRUE]
           put == With(t, l0, own)
           r == [tx[t] EXCEPT !.pc = "commit", !.put = put]
<1>1. /\ tx[t] \in TxRows /\ tx \in [Saves -> TxRows] /\ tx' = [tx EXCEPT ![t] = r] /\ tx[t].pc = "promote"
      /\ RowsFree(t, {l0}) /\ lock' = Locked(t, {l0})
      /\ UNCHANGED <<locations, openings, save, guide, history>>
  BY TxFacts DEF Promote
<1>2. l0 \in DOMAIN locations /\ l0 \in Locations /\ l0 # save[t].on /\ l0 # Nowhere
  BY <1>1, TxFacts DEF TxKnows
<1>3. Seen(t, l0) \in LocationRow /\ Seen(t, l0).by = locations[l0].by
  <2>1. /\ DOMAIN Over(tx[t].put, locations) = DOMAIN tx[t].put \cup DOMAIN locations
        /\ Over(tx[t].put, locations) \in SomeRows
        /\ \A l \in DOMAIN tx[t].put : Over(tx[t].put, locations)[l] = tx[t].put[l]
        /\ \A l \in DOMAIN locations \ DOMAIN tx[t].put : Over(tx[t].put, locations)[l] = locations[l]
    BY TxFacts, OverRows
  <2>2. Over(tx[t].put, locations)[l0] \in LocationRow
    BY <1>2, <2>1, RowsAre
  <2>3. l0 \in DOMAIN tx[t].put => tx[t].put[l0].by = locations[l0].by
    BY <1>2, TxFacts DEF TxKnows
  <2> QED BY <1>2, <2>1, <2>2, <2>3 DEF Seen
<1>4. own \in LocationRow /\ own.by = locations[l0].by
  BY <1>3 DEF LocationRow
<1> HIDE DEF own
<1>5. /\ put \in SomeRows /\ DOMAIN put = DOMAIN tx[t].put \cup {l0} /\ put[l0] = own
      /\ \A m \in DOMAIN tx[t].put : m # l0 => put[m] = tx[t].put[m]
  BY <1>1, <1>2, <1>4, WithRow
<1> HIDE DEF put
<1>6. r \in TxRows /\ r.pc = "commit" /\ r.put = put /\ r.other = l0 /\ r.cut = tx[t].cut
  BY <1>1, <1>5 DEF TxRows, SaveSteps
<1>7. tx' \in [Saves -> TxRows] /\ tx'[t] = r /\ \A u \in Saves : u # t => tx'[u] = tx[u]
  BY <1>1, <1>6
<1> HIDE DEF r
<1>8. /\ lock' \in [Locations -> Saves \cup {0}]
      /\ \A l \in Locations : l \in {l0} \/ lock[l] = t => lock'[l] = t
      /\ \A l \in Locations, u \in Saves : u # t /\ lock[l] = u => lock'[l] = u
  BY <1>1, LockedMoves
<1>9. /\ \A l \in DOMAIN tx[t].put :
            /\ lock[l] = t /\ l \in Locations
            /\ l # save[t].on => l \in DOMAIN locations /\ tx[t].put[l].by = locations[l].by
      /\ save[t].on \in DOMAIN tx[t].put /\ tx[t].put[save[t].on].by = t
      /\ tx[t].cut = openings[save[t].on]
  BY <1>1, TxFacts DEF TxKnows
<1>10. \A l \in DOMAIN put : /\ lock'[l] = t
                             /\ l # save[t].on => l \in DOMAIN locations /\ put[l].by = locations[l].by
  BY <1>2, <1>4, <1>5, <1>8, <1>9
<1>11. save[t].on \in DOMAIN put /\ put[save[t].on].by = t
  BY <1>2, <1>5, <1>9
<1>12. TxKnows(t)'
  BY <1>1, <1>2, <1>6, <1>7, <1>9, <1>10, <1>11 DEF TxKnows
<1> QED BY <1>1, <1>7, <1>8, <1>12, TxMoves

\* A transaction that is over has written nothing.
LEMMA TxOver ==
    ASSUME tx \in [Saves -> TxRows], NEW t \in Saves, NEW pc \in {"done", "failed"},
           tx' = [tx EXCEPT ![t] = [NoTx EXCEPT !.pc = pc]]
    PROVE  /\ tx' \in [Saves -> TxRows] /\ \A u \in Saves : u # t => tx'[u] = tx[u]
           /\ TxKnows(t)'
<1> DEFINE r == [NoTx EXCEPT !.pc = pc]
<1>1. r \in TxRows /\ r.pc = pc /\ DOMAIN r.put = {} /\ r.other = Nowhere
  BY NoTxRow DEF NoTx, TxRows, SaveSteps
<1>2. tx' = [tx EXCEPT ![t] = r]
  OBVIOUS
<1> HIDE DEF r
<1>3. tx' \in [Saves -> TxRows] /\ tx'[t] = r /\ \A u \in Saves : u # t => tx'[u] = tx[u]
  BY <1>1, <1>2
<1> QED BY <1>1, <1>3 DEF TxKnows

LEMMA RollbackKeeps == ASSUME LocationsInv, NEW t \in Saves, Rollback(t) PROVE LocationsInv'
<1>1. /\ lock' = Released(t) /\ tx' = [tx EXCEPT ![t] = [NoTx EXCEPT !.pc = "failed"]]
      /\ UNCHANGED <<locations, openings, save, guide, history>>
  BY DEF Rollback
<1>2. tx' \in [Saves -> TxRows] /\ (\A u \in Saves : u # t => tx'[u] = tx[u]) /\ TxKnows(t)'
  BY <1>1, TxOver, TxFacts
<1> QED BY <1>1, <1>2, ReleasedMoves, TxMoves

LEMMA CommitKeeps == ASSUME LocationsInv, NEW t \in Saves, Commit(t) PROVE LocationsInv'
<1> DEFINE on == save[t].on
           put == tx[t].put
<1>1. /\ tx[t].pc = "commit" /\ locations' = Over(put, locations)
      /\ openings' = [openings EXCEPT ![on] = (@ \ tx[t].cut) \cup {t}]
      /\ history' = [history EXCEPT ![on] = Append(@, t)]
      /\ lock' = Released(t) /\ tx' = [tx EXCEPT ![t] = [NoTx EXCEPT !.pc = "done"]]
      /\ UNCHANGED <<save, guide>>
  BY DEF Commit
<1>2. /\ put \in SomeRows /\ DOMAIN put \subseteq Locations /\ on \in DOMAIN put /\ put[on].by = t
      /\ on \in Locations /\ locations \in SomeRows /\ DOMAIN locations \subseteq Locations
      /\ \A l \in DOMAIN put : /\ lock[l] = t
                               /\ l # on => l \in DOMAIN locations /\ put[l].by = locations[l].by
      /\ tx[t].cut = openings[on]
  BY <1>1, TxFacts DEF TxKnows
<1> HIDE DEF put, on
<1>3. /\ locations' \in SomeRows /\ DOMAIN locations' = DOMAIN put \cup DOMAIN locations
      /\ \A l \in DOMAIN put : locations'[l] = put[l]
      /\ \A l \in DOMAIN locations : l \notin DOMAIN put => locations'[l] = locations[l]
  BY <1>1, <1>2, OverRows
<1>4. /\ locations'[on].by = t
      /\ \A l \in DOMAIN locations' : l # on => l \in DOMAIN locations /\ locations'[l].by = locations[l].by
  BY <1>2, <1>3
<1>5. /\ openings' \in [Locations -> SUBSET (Saves \cup {0})] /\ openings'[on] = {t}
      /\ \A l \in Locations : l # on => openings'[l] = openings[l]
  <2>1. openings \in [Locations -> SUBSET (Saves \cup {0})]
    BY DEF LocationsInv, LocationShapes
  <2> QED BY <1>1, <1>2, <2>1
<1>6. /\ history' \in [Locations -> Seq(Saves \cup {0})] /\ history'[on] = Append(history[on], t)
      /\ \A l \in Locations : l # on => history'[l] = history[l]
      /\ history \in [Locations -> Seq(Saves \cup {0})] /\ history[on] \in Seq(Saves \cup {0})
  <2>1. history \in [Locations -> Seq(Saves \cup {0})]
    BY DEF LocationsInv, LocationShapes
  <2>2. history[on] \in Seq(Saves \cup {0}) /\ Append(history[on], t) \in Seq(Saves \cup {0})
    BY <1>2, <2>1
  <2> QED BY <1>1, <1>2, <2>1, <2>2
<1>7. /\ Len(history'[on]) = Len(history[on]) + 1 /\ Len(history[on]) \in Nat
      /\ history'[on][Len(history'[on])] = t
      /\ \A i \in DOMAIN history[on] : i \in DOMAIN history'[on] /\ history'[on][i] = history[on][i]
  BY <1>6
<1>8. \A l \in Locations : LocationKnows(l)'
  <2> SUFFICES ASSUME NEW l \in Locations, l \in DOMAIN locations' PROVE LocationKnows(l)'
    BY DEF LocationKnows
  <2>1. CASE l = on
    BY <1>4, <1>5, <1>7, <2>1 DEF LocationKnows
  <2>2. CASE l # on
    <3>1. l \in DOMAIN locations /\ locations'[l].by = locations[l].by
      BY <1>4, <2>2
    <3>2. openings'[l] = openings[l] /\ history'[l] = history[l]
      BY <1>5, <1>6, <2>2
    <3>3. LocationKnows(l)
      BY DEF LocationsInv
    <3> QED BY <3>1, <3>2, <3>3 DEF LocationKnows
  <2> QED BY <2>1, <2>2
<1>9. tx' \in [Saves -> TxRows] /\ (\A u \in Saves : u # t => tx'[u] = tx[u]) /\ TxKnows(t)'
  BY <1>1, TxOver, TxFacts
<1>10. /\ lock' \in [Locations -> Saves \cup {0}]
       /\ \A l \in Locations, u \in Saves : u # t /\ lock[l] = u => lock'[l] = u
  BY <1>1, ReleasedMoves
<1>11. ASSUME NEW u \in Saves, u # t PROVE TxKnows(u)'
  <2>1. tx'[u] = tx[u] /\ TxKnows(u) /\ DOMAIN tx[u].put \subseteq Locations /\ save'[u] = save[u]
    BY <1>1, <1>9, <1>11, TxFacts
  <2>2. \A l \in DOMAIN tx[u].put : lock[l] = u /\ lock'[l] = u /\ l \notin DOMAIN put
    BY <1>2, <1>10, <1>11, <2>1 DEF TxKnows
  <2>3. \A l \in DOMAIN tx[u].put : l # save[u].on => l \in DOMAIN locations' /\ tx[u].put[l].by = locations'[l].by
    BY <1>3, <2>1, <2>2 DEF TxKnows
  <2>4. tx[u].pc \in {"promote", "commit"} => tx[u].cut = openings'[save[u].on]
    <3> SUFFICES ASSUME tx[u].pc \in {"promote", "commit"} PROVE tx[u].cut = openings'[save[u].on]
      OBVIOUS
    <3>1. tx[u].cut = openings[save[u].on] /\ save[u].on \in DOMAIN tx[u].put
      BY <2>1 DEF TxKnows
    <3>2. save[u].on # on /\ save[u].on \in Locations
      BY <1>2, <2>1, <2>2, <3>1
    <3> QED BY <1>5, <3>1, <3>2
  <2>5. tx[u].other # Nowhere => tx[u].other \in DOMAIN locations' /\ tx[u].other # save[u].on
    BY <1>3, <2>1 DEF TxKnows
  <2> QED BY <2>1, <2>2, <2>3, <2>4, <2>5 DEF TxKnows
<1>12. LocationShapes'
  <2>1. guide' = guide /\ save' = save
    BY <1>1
  <2> QED BY <1>3, <1>5, <1>6, <1>9, <1>10, <2>1 DEF LocationsInv, LocationShapes
<1>13. ASSUME NEW l \in Locations, NEW i \in DOMAIN history[l]
       PROVE i \in DOMAIN history'[l] /\ history'[l][i] = history[l][i]
  BY <1>6, <1>7
<1>14. GuideKnows'
  <2>1. guide' = guide /\ GuideKnows
    BY <1>1 DEF LocationsInv
  <2>2. guide.pc = "hours" =>
          guide.at \in DOMAIN locations' /\ \E i \in DOMAIN history'[guide.at] : history'[guide.at][i] = guide.by
    <3> SUFFICES ASSUME guide.pc = "hours"
                 PROVE guide.at \in DOMAIN locations' /\ \E i \in DOMAIN history'[guide.at] : history'[guide.at][i] = guide.by
      OBVIOUS
    <3>1. PICK i \in DOMAIN history[guide.at] : history[guide.at][i] = guide.by
      BY <2>1 DEF GuideKnows
    <3>2. guide.at \in DOMAIN locations /\ guide.at \in Locations
      BY <1>2, <2>1 DEF GuideKnows
    <3> QED BY <1>3, <1>13, <3>1, <3>2
  <2>3. guide.pc = "told" =>
          \E i, j \in DOMAIN history'[guide.at] :
            i <= j /\ history'[guide.at][i] = guide.by /\ guide.hours = {history'[guide.at][j]}
    <3> SUFFICES ASSUME guide.pc = "told"
                 PROVE \E i, j \in DOMAIN history'[guide.at] :
                         i <= j /\ history'[guide.at][i] = guide.by /\ guide.hours = {history'[guide.at][j]}
      OBVIOUS
    <3>1. PICK i, j \in DOMAIN history[guide.at] :
            i <= j /\ history[guide.at][i] = guide.by /\ guide.hours = {history[guide.at][j]}
      BY <2>1 DEF GuideKnows, HoursNotOlder
    <3>2. guide.at \in Locations
      BY <2>1 DEF GuideKnows
    <3> QED BY <1>13, <3>1, <3>2
  <2> QED BY <2>1, <2>2, <2>3 DEF GuideKnows, HoursNotOlder
<1> QED BY <1>8, <1>9, <1>11, <1>12, <1>14 DEF LocationsInv

LEMMA GuideReads ==
    ASSUME LocationsInv, UNCHANGED <<locations, openings, lock, save, tx, history>>,
           guide' \in [pc : {"idle", "hours", "told"}, at : Locations \cup {Nowhere}, by : Saves \cup {0},
                       hours : SUBSET (Saves \cup {0})],
           GuideKnows'
    PROVE  LocationsInv'
<1>1. LocationShapes'
  BY DEF LocationsInv, LocationShapes
<1>2. (\A l \in Locations : LocationKnows(l)') /\ \A t \in Saves : TxKnows(t)'
  BY DEF LocationsInv, LocationKnows, TxKnows
<1> QED BY <1>1, <1>2 DEF LocationsInv

LEMMA ReadLocationsKeeps == ASSUME LocationsInv, ReadLocations PROVE LocationsInv'
<1>1. PICK l \in Spoken : guide' = [pc |-> "hours", at |-> l, by |-> locations[l].by, hours |-> {}]
  BY DEF ReadLocations
<1>2. l \in DOMAIN locations /\ l \in Locations /\ locations[l].by \in Saves \cup {0}
  <2>1. locations \in SomeRows /\ l \in DOMAIN locations
    BY <1>1 DEF Spoken, LocationsInv, LocationShapes
  <2>2. locations[l] \in LocationRow /\ l \in Locations
    BY <2>1, RowsAre
  <2> QED BY <2>1, <2>2 DEF LocationRow
<1>3. /\ Len(history[l]) > 0 /\ history[l][Len(history[l])] = locations[l].by /\ history[l] \in Seq(Saves \cup {0})
  BY <1>2 DEF LocationsInv, LocationKnows, LocationShapes
<1>4. Len(history[l]) \in DOMAIN history[l]
  BY <1>3
<1>5. guide' \in [pc : {"idle", "hours", "told"}, at : Locations \cup {Nowhere}, by : Saves \cup {0},
                  hours : SUBSET (Saves \cup {0})]
      /\ guide'.pc = "hours" /\ guide'.at = l /\ guide'.by = locations[l].by
  BY <1>1, <1>2
<1>6. UNCHANGED <<locations, openings, lock, save, tx, history>>
  BY DEF ReadLocations
<1>7. GuideKnows'
  BY <1>2, <1>3, <1>4, <1>5, <1>6 DEF GuideKnows, HoursNotOlder
<1> QED BY <1>5, <1>6, <1>7, GuideReads

LEMMA ReadHoursKeeps == ASSUME LocationsInv, ReadHours PROVE LocationsInv'
<1>1. /\ guide.pc = "hours" /\ guide' = [guide EXCEPT !.pc = "told", !.hours = openings[guide.at]]
      /\ UNCHANGED <<locations, openings, lock, save, tx, history>>
  BY DEF ReadHours
<1>2. guide.at \in DOMAIN locations /\ \E i \in DOMAIN history[guide.at] : history[guide.at][i] = guide.by
  BY <1>1 DEF LocationsInv, GuideKnows
<1>3. guide.at \in Locations
  BY <1>2, RowsAre DEF LocationsInv, LocationShapes
<1>4. /\ openings[guide.at] = {locations[guide.at].by} /\ openings[guide.at] \in SUBSET (Saves \cup {0})
      /\ Len(history[guide.at]) > 0 /\ history[guide.at][Len(history[guide.at])] = locations[guide.at].by
      /\ history[guide.at] \in Seq(Saves \cup {0})
  BY <1>2, <1>3 DEF LocationsInv, LocationKnows, LocationShapes
<1>5. guide' \in [pc : {"idle", "hours", "told"}, at : Locations \cup {Nowhere}, by : Saves \cup {0},
                  hours : SUBSET (Saves \cup {0})]
      /\ guide'.pc = "told" /\ guide'.at = guide.at /\ guide'.by = guide.by /\ guide'.hours = openings[guide.at]
  BY <1>1, <1>4 DEF LocationsInv, LocationShapes
<1>6. PICK i \in DOMAIN history[guide.at] : history[guide.at][i] = guide.by
  BY <1>2
<1>7. i <= Len(history[guide.at]) /\ Len(history[guide.at]) \in DOMAIN history[guide.at]
  BY <1>4
<1>8. GuideKnows'
  BY <1>1, <1>3, <1>4, <1>5, <1>6, <1>7 DEF GuideKnows, HoursNotOlder
<1> QED BY <1>1, <1>5, <1>8, GuideReads

LEMMA LocationsStep == LocationsInv /\ [LocationsNext]_locationVars => LocationsInv'
<1> SUFFICES ASSUME LocationsInv, [LocationsNext]_locationVars PROVE LocationsInv'
  OBVIOUS
<1>1. CASE UNCHANGED locationVars
  <2>1. LocationShapes' /\ GuideKnows'
    BY <1>1 DEF locationVars, LocationsInv, LocationShapes, GuideKnows, HoursNotOlder
  <2>2. (\A l \in Locations : LocationKnows(l)') /\ \A t \in Saves : TxKnows(t)'
    BY <1>1 DEF locationVars, LocationsInv, LocationKnows, TxKnows
  <2> QED BY <2>1, <2>2 DEF LocationsInv
<1>2. ASSUME NEW t \in Saves,
             \/ Refuse(t) \/ ReadCurrent(t) \/ BeginSave(t) \/ BeginCreate(t) \/ Demote(t)
             \/ WriteLocation(t) \/ ReplaceHours(t) \/ Promote(t) \/ Commit(t) \/ Rollback(t)
      PROVE LocationsInv'
  BY <1>2, RefuseKeeps, ReadCurrentKeeps, BeginSaveKeeps, BeginCreateKeeps, DemoteKeeps, WriteLocationKeeps,
     ReplaceHoursKeeps, PromoteKeeps, CommitKeeps, RollbackKeeps
<1>3. CASE ReadLocations \/ ReadHours
  BY <1>3, ReadLocationsKeeps, ReadHoursKeeps
<1> QED BY <1>1, <1>2, <1>3 DEF LocationsNext

\* The invariant holds of every behaviour, and with it what clients hear of hours.
LEMMA LocationsKept == LocationsSpec => []LocationsSafe
<1>1. LocationsInv => LocationsSafe
  <2> SUFFICES ASSUME LocationsInv PROVE LocationsSafe
    OBVIOUS
  <2>1. locations \in [DOMAIN locations -> LocationRow] /\ DOMAIN locations \subseteq Locations
    BY RowsAre DEF LocationsInv, LocationShapes
  <2>2. \A t \in Saves :
         /\ tx[t].pc \in {"new", "refused", "begin", "demote", "write", "cut", "promote", "commit", "done", "failed"}
         /\ DOMAIN tx[t].put \subseteq Locations /\ tx[t].other \in Locations \cup {Nowhere}
    BY TxFacts DEF TxRows, SaveSteps
  <2>3. LocationsTypeOK
    BY <2>1, <2>2 DEF LocationsTypeOK, LocationsInv, LocationShapes
  <2>4. HoursOfOneSave
    BY <2>1 DEF HoursOfOneSave, LocationsInv, LocationKnows
  <2> QED BY <2>3, <2>4 DEF LocationsSafe, LocationsInv, GuideKnows
<1> QED BY LocationsStart, LocationsStep, <1>1, PTL DEF LocationsSpec

-----------------------------------------------------------------------------
(* What clients are told of the studio (module StudioKnowledge).           *)

PutRows == UNION {[S -> FactRows] : S \in SUBSET RowIds}
EditSteps == {"new", "profile", "rows", "artist", "review", "prior", "same", "undo", "commit", "done"}
TxnRows == [pc : EditSteps, at : Nat, put : PutRows, add : Seq(FactRows)]
Tables == {"rule", "faq", "places"}
CopyRows == UNION {[S -> (SUBSET FactRows) \cup (SUBSET Places)] : S \in SUBSET Tables}
ReadingRows == [pc : {"idle", "reading", "told"}, named : SUBSET (Places \cup {Everywhere}), copy : CopyRows,
                told : SUBSET FactRows, seen : SUBSET FactRows]

TheProfile == <<"profile", 0>>
TheArtist == <<"artist", 0>>

KnowledgeShapes ==
    /\ edits \in EditKinds /\ facts \in Seq(FactRows) /\ places \subseteq Places
    /\ held \in [Locks -> Edits \cup {NoEdit}] /\ share \subseteq Edits
    /\ txn \in [Edits -> TxnRows] /\ reading \in ReadingRows

\* A save that has the profile, and a review that has the artist, hold them until the end.
Writing(t) == Task(t).does = "save" /\ txn[t].pc \in {"rows", "artist", "commit"}
Judging(t) == Task(t).does = "review" /\ txn[t].pc \in {"prior", "same", "undo", "commit"}

\* Nobody holds more than its steps so far have locked.
HoldsRight(t) ==
    /\ \A x \in Locks : held[x] = t =>
          IF x = TheArtist THEN Judging(t) \/ (Writing(t) /\ txn[t].pc = "commit") ELSE Writing(t)
    /\ t \in share => Writing(t)

SaveKnows(t) ==
    /\ txn[t].pc \in {"new", "profile", "rows", "artist", "commit", "done"}
    /\ txn[t].pc \in {"new", "profile"} => txn[t].at = 1
    /\ txn[t].pc = "rows" => txn[t].at \in 1 .. Len(Task(t).rows)
    /\ \A i \in DOMAIN txn[t].put : txn[t].put[i].by = t
    /\ \A i \in DOMAIN txn[t].add : txn[t].add[i].by = t
    /\ Writing(t) => held[TheProfile] = t

ApprovedRule(t) == [kind |-> "rule", text |-> Task(t).text, shown |-> TRUE, at |-> Everywhere,
                    active |-> TRUE, by |-> t]

\* What a review is about to add is new among the rules that reviews added.
ReviewKnows(t) ==
    /\ txn[t].pc \in {"new", "review", "prior", "same", "undo", "commit", "done"}
    /\ DOMAIN txn[t].put = {}
    /\ Judging(t) => held[TheArtist] = t
    /\ txn[t].pc \in {"same", "commit"} => \A r \in reviews : r.source # Task(t).source
    /\ txn[t].pc # "commit" => txn[t].add = << >>
    /\ txn[t].pc = "commit" =>
          \/ txn[t].add = << >>
          \/ /\ txn[t].add = <<ApprovedRule(t)>>
             /\ \A i \in DOMAIN facts : ByApproval(i) => facts[i].text # Task(t).text

EditKnows(t) ==
    /\ HoldsRight(t)
    /\ Task(t).does = "save" => SaveKnows(t)
    /\ Task(t).does = "review" => ReviewKnows(t)

\* What an approval added and nobody edited is told to clients.
ApprovedTold == \A i \in DOMAIN facts :
    ByApproval(i) => facts[i].kind = "rule" /\ facts[i].active = TRUE /\ facts[i].shown = TRUE

ReadingKnows ==
    /\ reading.named = {Everywhere} \/ reading.named \subseteq Places
    /\ "places" \in DOMAIN reading.copy => reading.copy["places"] \subseteq Places
    /\ reading.pc = "reading" =>
          /\ ForClients(facts) \subseteq reading.seen
          /\ \A x \in DOMAIN reading.copy \cap {"rule", "faq"} : \A r \in reading.copy[x] :
                r \in FactRows /\ r.kind = x /\ (r.shown = TRUE => r \in reading.seen)
    /\ ToldWasShown

KnowledgeInv ==
    /\ KnowledgeShapes /\ ReviewedOnce /\ ApprovedTold /\ ReadingKnows
    /\ \A t \in Edits : EditKnows(t)

LEMMA LockNames == /\ TheProfile # TheArtist /\ TheProfile \in Locks /\ TheArtist \in Locks
                   /\ \A i \in RowIds : <<"row", i>> # TheArtist /\ <<"row", i>> # TheProfile /\ <<"row", i>> \in Locks
BY DEF TheProfile, TheArtist, Locks

LEMMA TasksAre ==
    ASSUME KnowledgeShapes, NEW t \in Edits
    PROVE  /\ Task(t).does = "save" \/ Task(t).does = "review"
           /\ Task(t).does = "save" => Saved(Task(t))
           /\ Task(t).does = "review" => Reviewed(Task(t))
<1>1. Saved(Task(t)) \/ Reviewed(Task(t))
  BY KnowledgeBounds DEF KnowledgeShapes, Task
<1>2. (Saved(Task(t)) => Task(t).does = "save") /\ (Reviewed(Task(t)) => Task(t).does = "review")
  BY DEF Saved, Reviewed
<1>3. "save" # "review"
  OBVIOUS
<1> QED BY <1>1, <1>2, <1>3

LEMMA PutAre == ASSUME NEW f \in PutRows PROVE DOMAIN f \subseteq RowIds /\ f \in [DOMAIN f -> FactRows]
BY DEF PutRows

LEMMA NothingPut == << >> \in PutRows /\ DOMAIN << >> = {} /\ << >> \in CopyRows /\ << >> \in Seq(FactRows)
<1>1. << >> \in [{} -> FactRows] /\ {} \in SUBSET RowIds
  OBVIOUS
<1>2. << >> \in [{} -> (SUBSET FactRows) \cup (SUBSET Places)] /\ {} \in SUBSET Tables
  OBVIOUS
<1>3. << >> \in PutRows
  BY <1>1 DEF PutRows
<1>4. << >> \in CopyRows
  BY <1>2 DEF CopyRows
<1>5. DOMAIN << >> = {} /\ << >> \in Seq(FactRows)
  OBVIOUS
<1> QED BY <1>3, <1>4, <1>5

LEMMA IdleTxRow == IdleTx \in TxnRows /\ DOMAIN IdleTx.put = {} /\ IdleTx.add = << >> /\ IdleTx.pc = "new"
                     /\ IdleTx.at = 1
<1>1. << >> \in PutRows /\ DOMAIN << >> = {} /\ << >> \in Seq(FactRows) /\ 1 \in Nat /\ "new" \in EditSteps
  BY NothingPut DEF EditSteps
<1> QED BY <1>1 DEF IdleTx, TxnRows

LEMMA KnowledgeStart == KnowledgeInit => KnowledgeInv
<1> SUFFICES ASSUME KnowledgeInit PROVE KnowledgeInv
  OBVIOUS
<1>1. facts \in Seq(FactRows) /\ \A i \in DOMAIN facts : facts[i].by = NoEdit
  BY KnowledgeBounds DEF KnowledgeInit
<1>2. \A t \in Edits : txn[t] = IdleTx
  BY DEF KnowledgeInit
<1>3. txn \in [Edits -> TxnRows]
  BY IdleTxRow DEF KnowledgeInit
<1>4. /\ reading \in ReadingRows /\ reading.pc = "idle" /\ reading.named = {} /\ DOMAIN reading.copy = {}
  BY NothingPut DEF KnowledgeInit, NotReading, ReadingRows
<1>5. held \in [Locks -> Edits \cup {NoEdit}] /\ \A x \in Locks : held[x] = NoEdit
  BY DEF KnowledgeInit
<1>6. KnowledgeShapes
  BY <1>1, <1>3, <1>4, <1>5 DEF KnowledgeInit, KnowledgeShapes
<1>7. \A i \in DOMAIN facts : ~ByApproval(i)
  BY <1>1, KnowledgeBounds DEF ByApproval
<1>8. ReviewedOnce /\ ApprovedTold
  BY <1>7 DEF ReviewedOnce, ApprovedTold, KnowledgeInit
<1>9. ReadingKnows
  BY <1>4 DEF ReadingKnows, ToldWasShown
<1>10. ASSUME NEW t \in Edits PROVE EditKnows(t)
  <2>1. txn[t].pc = "new" /\ DOMAIN txn[t].put = {} /\ txn[t].add = << >> /\ txn[t].at = 1
    BY <1>2, IdleTxRow
  <2>2. HoldsRight(t)
    BY <1>5, KnowledgeBounds DEF HoldsRight, KnowledgeInit
  <2>3. DOMAIN txn[t].add = {}
    BY <2>1
  <2>4. ~Writing(t) /\ ~Judging(t)
    BY <2>1 DEF Writing, Judging
  <2>5. SaveKnows(t) /\ ReviewKnows(t)
    BY <2>1, <2>3, <2>4 DEF SaveKnows, ReviewKnows
  <2> QED BY <2>2, <2>5 DEF EditKnows
<1> QED BY <1>6, <1>8, <1>9, <1>10 DEF KnowledgeInv

\* A step of one transaction that changes no row, no review and nothing that is read.
LEMMA EditMoves ==
    ASSUME KnowledgeInv, NEW t \in Edits, UNCHANGED <<edits, facts, reviews, places, reading>>,
           txn' \in [Edits -> TxnRows], \A u \in Edits : u # t => txn'[u] = txn[u],
           held' \in [Locks -> Edits \cup {NoEdit}], share' \subseteq Edits,
           \A u \in Edits : u # t => /\ \A x \in Locks : held'[x] = u <=> held[x] = u
                                     /\ u \in share' <=> u \in share,
           EditKnows(t)'
    PROVE  KnowledgeInv'
<1>1. KnowledgeShapes'
  BY DEF KnowledgeInv, KnowledgeShapes
<1>2. ReviewedOnce' /\ ApprovedTold'
  BY DEF KnowledgeInv, ReviewedOnce, ApprovedTold, ByApproval
<1>3. ReadingKnows'
  BY DEF KnowledgeInv, ReadingKnows, ToldWasShown, ForClients
<1>4. ASSUME NEW u \in Edits, u # t PROVE EditKnows(u)'
  <2>1. EditKnows(u) /\ txn'[u] = txn[u] /\ edits' = edits
    BY <1>4 DEF KnowledgeInv
  <2>2. HoldsRight(u)'
    BY <1>4, <2>1 DEF EditKnows, HoldsRight, Writing, Judging, Task
  <2>3. Task(u).does = "save" => SaveKnows(u)'
    BY <1>4, <2>1, LockNames DEF EditKnows, SaveKnows, Writing, Task
  <2>4. Task(u).does = "review" => ReviewKnows(u)'
    <3>1. held'[TheArtist] = u <=> held[TheArtist] = u
      BY <1>4, LockNames
    <3>2. (\A i \in DOMAIN facts : ByApproval(i)' <=> ByApproval(i)) /\ ApprovedRule(u)' = ApprovedRule(u)
      BY <2>1 DEF ByApproval, ApprovedRule, Task
    <3> QED BY <2>1, <3>1, <3>2 DEF EditKnows, ReviewKnows, Judging, Task
  <2> QED BY <2>1, <2>2, <2>3, <2>4 DEF EditKnows, Task
<1> QED BY <1>1, <1>2, <1>3, <1>4 DEF KnowledgeInv

LEMMA EditFacts ==
    ASSUME KnowledgeInv, NEW t \in Edits
    PROVE  /\ txn \in [Edits -> TxnRows] /\ txn[t] \in TxnRows /\ EditKnows(t)
           /\ txn[t].put \in PutRows /\ txn[t].add \in Seq(FactRows) /\ txn[t].at \in Nat
           /\ held \in [Locks -> Edits \cup {NoEdit}] /\ share \subseteq Edits /\ t # NoEdit
           /\ edits \in EditKinds /\ facts \in Seq(FactRows)
<1>1. txn \in [Edits -> TxnRows] /\ EditKnows(t)
  BY DEF KnowledgeInv, KnowledgeShapes
<1>2. txn[t].put \in PutRows /\ txn[t].add \in Seq(FactRows) /\ txn[t].at \in Nat
  BY <1>1 DEF TxnRows
<1> QED BY <1>1, <1>2, KnowledgeBounds DEF KnowledgeInv, KnowledgeShapes

\* What a transaction locks was nobody else's.
LEMMA TakeMoves ==
    ASSUME KnowledgeInv, NEW t \in Edits, Take(t)
    PROVE  /\ held' \in [Locks -> Edits \cup {NoEdit}] /\ share' \subseteq Edits
           /\ \A x \in Locks : held'[x] = IF x \in Needs(t) THEN t ELSE held[x]
           /\ share' = share \cup (IF Shares(t) THEN {t} ELSE {})
           /\ \A u \in Edits : u # t => /\ \A x \in Locks : held'[x] = u <=> held[x] = u
                                        /\ u \in share' <=> u \in share
<1>1. /\ held \in [Locks -> Edits \cup {NoEdit}] /\ share \subseteq Edits
      /\ \A x \in Needs(t) : held[x] \in {NoEdit, t}
  BY EditFacts DEF Take, WaitsFor
<1>2. /\ held' = [x \in Locks |-> IF x \in Needs(t) THEN t ELSE held[x]]
      /\ share' = share \cup (IF Shares(t) THEN {t} ELSE {})
  BY DEF Take
<1>3. \A u \in Edits : u # NoEdit
  BY KnowledgeBounds
<1> QED BY <1>1, <1>2, <1>3

LEMMA ReleaseMoves ==
    ASSUME KnowledgeInv, NEW t \in Edits, Release(t)
    PROVE  /\ held' \in [Locks -> Edits \cup {NoEdit}] /\ share' \subseteq Edits
           /\ (\A x \in Locks : held'[x] # t) /\ t \notin share'
           /\ \A u \in Edits : u # t => /\ \A x \in Locks : held'[x] = u <=> held[x] = u
                                        /\ u \in share' <=> u \in share
<1>1. held \in [Locks -> Edits \cup {NoEdit}] /\ share \subseteq Edits /\ \A u \in Edits : u # NoEdit
  BY EditFacts, KnowledgeBounds
<1> QED BY <1>1 DEF Release

\* A transaction that has ended, or is about to begin, has nothing.
LEMMA EditOver ==
    ASSUME KnowledgeInv, NEW t \in Edits, Release(t), txn' = [txn EXCEPT ![t] = [IdleTx EXCEPT !.pc = "done"]],
           edits' = edits
    PROVE  /\ txn' \in [Edits -> TxnRows] /\ \A u \in Edits : u # t => txn'[u] = txn[u]
           /\ EditKnows(t)'
<1> DEFINE r == [IdleTx EXCEPT !.pc = "done"]
<1>1. r \in TxnRows /\ r.pc = "done" /\ DOMAIN r.put = {} /\ r.add = << >>
  BY IdleTxRow DEF IdleTx, TxnRows, EditSteps
<1>2. txn' = [txn EXCEPT ![t] = r] /\ txn \in [Edits -> TxnRows]
  BY EditFacts
<1> HIDE DEF r
<1>3. txn' \in [Edits -> TxnRows] /\ txn'[t] = r /\ \A u \in Edits : u # t => txn'[u] = txn[u]
  BY <1>1, <1>2
<1>4. HoldsRight(t)'
  BY ReleaseMoves DEF HoldsRight
<1>5. ~Writing(t)' /\ ~Judging(t)' /\ DOMAIN r.add = {}
  BY <1>1, <1>3 DEF Writing, Judging
<1>6. SaveKnows(t)' /\ ReviewKnows(t)'
  BY <1>1, <1>3, <1>5 DEF SaveKnows, ReviewKnows
<1> QED BY <1>3, <1>4, <1>6 DEF EditKnows

LEMMA RollBackKeeps == ASSUME KnowledgeInv, NEW t \in Edits, RollBack(t) PROVE KnowledgeInv'
<1>1. Release(t) /\ txn' = [txn EXCEPT ![t] = [IdleTx EXCEPT !.pc = "done"]]
      /\ UNCHANGED <<edits, facts, reviews, places, reading>>
  BY DEF RollBack
<1> QED BY <1>1, ReleaseMoves, EditOver, EditMoves

\* Where a save stands once it goes on to its next row.
LEMMA RowsFromIs ==
    ASSUME KnowledgeShapes, NEW t \in Edits, Task(t).does = "save", NEW i \in Nat, i >= 1
    PROVE  /\ RowsFrom(t, i) \in {"rows", "artist", "commit"}
           /\ RowsFrom(t, i) = "rows" => i \in 1 .. Len(Task(t).rows)
<1>1. Len(Task(t).rows) \in Nat
  BY TasksAre DEF Saved
<1> QED BY <1>1 DEF RowsFrom

LEMMA BeginEditKeeps == ASSUME KnowledgeInv, NEW t \in Edits, BeginEdit(t) PROVE KnowledgeInv'
<1>1. /\ txn[t].pc = "new" /\ txn' = [txn EXCEPT ![t].pc = FirstStep(t)]
      /\ UNCHANGED <<edits, facts, reviews, held, share, places, reading>>
  BY DEF BeginEdit
<1>2. PICK next \in {"profile", "review"} : next = FirstStep(t) /\ (next = "profile" <=> Task(t).does = "save")
  BY DEF FirstStep
<1> DEFINE r == [txn[t] EXCEPT !.pc = next]
<1>3. txn' = [txn EXCEPT ![t] = r] /\ txn \in [Edits -> TxnRows] /\ txn[t] \in TxnRows
  BY <1>1, <1>2, EditFacts
<1>4. r \in TxnRows /\ r.pc = next /\ r.put = txn[t].put /\ r.add = txn[t].add /\ r.at = txn[t].at
  BY <1>3 DEF TxnRows, EditSteps
<1> HIDE DEF r
<1>5. txn' \in [Edits -> TxnRows] /\ txn'[t] = r /\ \A u \in Edits : u # t => txn'[u] = txn[u]
  BY <1>3, <1>4
<1>6. ~Writing(t) /\ ~Judging(t) /\ ~Writing(t)' /\ ~Judging(t)'
  BY <1>1, <1>4, <1>5 DEF Writing, Judging
<1>7. held' = held /\ share' = share /\ edits' = edits /\ Task(t)' = Task(t) /\ HoldsRight(t) /\ EditKnows(t)
  BY <1>1, EditFacts DEF Task, EditKnows
<1>8. HoldsRight(t)'
  BY <1>6, <1>7 DEF HoldsRight
<1>9. Task(t).does = "save" => SaveKnows(t)'
  BY <1>1, <1>2, <1>4, <1>5, <1>6, <1>7 DEF EditKnows, SaveKnows
<1>10. Task(t).does = "review" => ReviewKnows(t)'
  BY <1>1, <1>2, <1>4, <1>5, <1>6, <1>7 DEF EditKnows, ReviewKnows
<1>11. EditKnows(t)'
  BY <1>7, <1>8, <1>9, <1>10 DEF EditKnows
<1> QED BY <1>1, <1>5, <1>7, <1>11, EditFacts, EditMoves

\* A save that has the profile and goes on to its next statement.
LEMMA SaveGoesOn ==
    ASSUME KnowledgeInv, NEW t \in Edits, Task(t).does = "save", Take(t), edits' = edits,
           NEW r \in TxnRows, txn' = [txn EXCEPT ![t] = r],
           r.pc \in {"rows", "artist", "commit"}, r.pc = "rows" => r.at \in 1 .. Len(Task(t).rows),
           \A i \in DOMAIN r.put : r.put[i].by = t, \A i \in DOMAIN r.add : r.add[i].by = t,
           TheProfile \in Needs(t) \/ Writing(t), TheArtist \in Needs(t) => r.pc = "commit",
           txn[t].pc # "commit"
    PROVE  /\ txn' \in [Edits -> TxnRows] /\ \A u \in Edits : u # t => txn'[u] = txn[u]
           /\ EditKnows(t)'
<1>1. txn' \in [Edits -> TxnRows] /\ txn'[t] = r /\ \A u \in Edits : u # t => txn'[u] = txn[u]
  BY EditFacts
<1>2. Task(t)' = Task(t) /\ EditKnows(t)
  BY EditFacts DEF Task
<1>3. Writing(t)'
  BY <1>1, <1>2 DEF Writing
<1>4. held'[TheProfile] = t
  BY <1>2, TakeMoves, LockNames DEF EditKnows, SaveKnows
<1>5. held[TheArtist] # t
  BY <1>2, LockNames DEF EditKnows, HoldsRight, Judging
<1>6. ASSUME held'[TheArtist] = t PROVE Writing(t)' /\ txn'[t].pc = "commit"
  BY <1>1, <1>3, <1>5, <1>6, TakeMoves, LockNames
<1>7. HoldsRight(t)'
  BY <1>3, <1>6 DEF HoldsRight
<1>8. SaveKnows(t)'
  BY <1>1, <1>2, <1>4 DEF SaveKnows
<1>9. Task(t).does # "review"
  OBVIOUS
<1> QED BY <1>1, <1>2, <1>7, <1>8, <1>9 DEF EditKnows

LEMMA DoesSave == ASSUME KnowledgeInv, NEW t \in Edits, txn[t].pc \in {"profile", "rows", "artist"}
                  PROVE  Task(t).does = "save" /\ SaveKnows(t)
BY TasksAre, EditFacts DEF EditKnows, ReviewKnows, KnowledgeInv

LEMMA UpdateProfileKeeps == ASSUME KnowledgeInv, NEW t \in Edits, UpdateProfile(t) PROVE KnowledgeInv'
<1>1. /\ txn[t].pc = "profile" /\ Take(t) /\ txn' = [txn EXCEPT ![t].pc = RowsFrom(t, 1)]
      /\ UNCHANGED <<edits, facts, reviews, places, reading>>
  BY DEF UpdateProfile
<1>2. Task(t).does = "save" /\ SaveKnows(t)
  BY <1>1, DoesSave
<1> DEFINE next == RowsFrom(t, 1)
           r == [txn[t] EXCEPT !.pc = next]
<1>3. next \in {"rows", "artist", "commit"} /\ (next = "rows" => 1 \in 1 .. Len(Task(t).rows))
  BY <1>2, RowsFromIs DEF KnowledgeInv
<1>4. txn' = [txn EXCEPT ![t] = r] /\ txn[t] \in TxnRows
  BY <1>1, EditFacts
<1> HIDE DEF next
<1>5. r \in TxnRows /\ r.pc = next /\ r.put = txn[t].put /\ r.add = txn[t].add /\ r.at = txn[t].at
  BY <1>3, <1>4 DEF TxnRows, EditSteps
<1> HIDE DEF r
<1>6. TheProfile \in Needs(t) /\ TheArtist \notin Needs(t)
  BY <1>1, LockNames DEF Needs, TheProfile
<1>7. /\ r.pc = "rows" => r.at \in 1 .. Len(Task(t).rows)
      /\ \A i \in DOMAIN r.put : r.put[i].by = t
      /\ \A i \in DOMAIN r.add : r.add[i].by = t
  BY <1>1, <1>2, <1>3, <1>5 DEF SaveKnows
<1>8. Take(t) /\ txn[t].pc # "commit" /\ UNCHANGED <<edits, facts, reviews, places, reading>>
  BY <1>1
<1>9. /\ txn' \in [Edits -> TxnRows] /\ \A u \in Edits : u # t => txn'[u] = txn[u]
      /\ EditKnows(t)'
  BY <1>2, <1>3, <1>4, <1>5, <1>6, <1>7, <1>8, SaveGoesOn
<1> QED BY <1>8, <1>9, TakeMoves, EditMoves

LEMMA SaveRowKeeps == ASSUME KnowledgeInv, NEW t \in Edits, SaveRow(t) PROVE KnowledgeInv'
<1> DEFINE item == Item(t)
           one == FactOf(item, t)
           old == txn[t].put
           put == [i \in DOMAIN old \cup {item.id} |-> IF i = item.id THEN one ELSE old[i]]
           next == RowsFrom(t, txn[t].at + 1)
           put2 == IF item.id # 0 THEN put ELSE old
           add2 == IF item.id = 0 THEN Append(txn[t].add, one) ELSE txn[t].add
           r == [txn[t] EXCEPT !.pc = next, !.at = txn[t].at + 1, !.put = put2, !.add = add2]
<1>1. /\ txn[t].pc = "rows" /\ Take(t)
      /\ txn' = [txn EXCEPT ![t].pc = next, ![t].at = @ + 1,
                            ![t].put = IF item.id # 0 THEN put ELSE @,
                            ![t].add = IF item.id = 0 THEN Append(@, one) ELSE @]
      /\ UNCHANGED <<edits, facts, reviews, places, reading>>
  BY DEF SaveRow
<1>2. Task(t).does = "save" /\ SaveKnows(t) /\ Saved(Task(t))
  BY <1>1, DoesSave, TasksAre DEF KnowledgeInv
<1>3. txn[t].at \in 1 .. Len(Task(t).rows) /\ txn[t] \in TxnRows /\ txn[t].at \in Nat /\ txn \in [Edits -> TxnRows]
  BY <1>1, <1>2, EditFacts DEF SaveKnows
<1>4. item.id \in RowIds \cup {0} /\ FactOf(item, NoEdit) \in FactRows
  BY <1>2, <1>3 DEF Saved, Item
<1>5. txn' = [txn EXCEPT ![t] = r]
  BY <1>1, <1>3
<1>6. one \in FactRows /\ one.by = t
  <2> HIDE DEF item
  <2> QED BY <1>4 DEF FactOf, FactRows
<1> HIDE DEF one
<1>7. next \in {"rows", "artist", "commit"} /\ (next = "rows" => txn[t].at + 1 \in 1 .. Len(Task(t).rows))
  <2>1. txn[t].at + 1 \in Nat /\ txn[t].at + 1 >= 1
    BY <1>3
  <2> QED BY <1>2, <2>1, RowsFromIs DEF KnowledgeInv
<1> HIDE DEF next
<1>8. /\ old \in PutRows /\ DOMAIN old \subseteq RowIds /\ old \in [DOMAIN old -> FactRows]
      /\ \A i \in DOMAIN old : old[i].by = t
      /\ txn[t].add \in Seq(FactRows) /\ \A i \in DOMAIN txn[t].add : txn[t].add[i].by = t
  BY <1>2, EditFacts, PutAre DEF SaveKnows
<1> HIDE DEF old, item
<1>9. put2 \in PutRows /\ \A i \in DOMAIN put2 : put2[i].by = t
  <2>1. CASE item.id = 0
    BY <1>8, <2>1
  <2>2. CASE item.id # 0
    <3>1. DOMAIN old \cup {item.id} \in SUBSET RowIds
      BY <1>4, <1>8, <2>2
    <3>2. put \in [DOMAIN old \cup {item.id} -> FactRows] /\ \A i \in DOMAIN put : put[i].by = t
      BY <1>6, <1>8
    <3>3. put \in PutRows
      BY <3>1, <3>2 DEF PutRows
    <3> QED BY <2>2, <3>2, <3>3
  <2> QED BY <2>1, <2>2
<1>10. add2 \in Seq(FactRows) /\ \A i \in DOMAIN add2 : add2[i].by = t
  <2>1. CASE item.id = 0
    <3>1. add2 = Append(txn[t].add, one)
      BY <2>1
    <3> QED BY <1>6, <1>8, <3>1
  <2>2. CASE item.id # 0
    BY <1>8, <2>2
  <2> QED BY <2>1, <2>2
<1> HIDE DEF put2, add2
<1>11. /\ r \in TxnRows /\ r.pc = next /\ r.at = txn[t].at + 1 /\ r.put = put2 /\ r.add = add2
  <2>1. next \in EditSteps /\ txn[t].at + 1 \in Nat /\ txn[t] \in TxnRows
    BY <1>3, <1>7 DEF EditSteps
  <2>2. put2 \in PutRows /\ add2 \in Seq(FactRows)
    BY <1>9, <1>10
  <2> QED BY <2>1, <2>2 DEF TxnRows
<1> HIDE DEF r
<1>12. Writing(t) /\ TheArtist \notin Needs(t)
  BY <1>1, <1>2, <1>4, LockNames DEF Writing, Needs, item
<1>13. Take(t) /\ txn[t].pc # "commit" /\ UNCHANGED <<edits, facts, reviews, places, reading>>
  BY <1>1
<1>14. r.pc = "rows" => r.at \in 1 .. Len(Task(t).rows)
  BY <1>7, <1>11
<1>15. /\ txn' \in [Edits -> TxnRows] /\ \A u \in Edits : u # t => txn'[u] = txn[u]
       /\ EditKnows(t)'
  BY <1>2, <1>5, <1>7, <1>9, <1>10, <1>11, <1>12, <1>13, <1>14, SaveGoesOn
<1> QED BY <1>13, <1>15, TakeMoves, EditMoves

LEMMA SaveArtistKeeps == ASSUME KnowledgeInv, NEW t \in Edits, SaveArtist(t) PROVE KnowledgeInv'
<1>1. /\ txn[t].pc = "artist" /\ Take(t) /\ txn' = [txn EXCEPT ![t].pc = "commit"]
      /\ UNCHANGED <<edits, facts, reviews, places, reading>>
  BY DEF SaveArtist
<1>2. Task(t).does = "save" /\ SaveKnows(t)
  BY <1>1, DoesSave
<1> DEFINE r == [txn[t] EXCEPT !.pc = "commit"]
<1>3. txn' = [txn EXCEPT ![t] = r] /\ txn[t] \in TxnRows
  BY <1>1, EditFacts
<1>4. r \in TxnRows /\ r.pc = "commit" /\ r.put = txn[t].put /\ r.add = txn[t].add
  BY <1>3 DEF TxnRows, EditSteps
<1> HIDE DEF r
<1>5. Writing(t) /\ txn[t].pc # "commit" /\ Take(t) /\ UNCHANGED <<edits, facts, reviews, places, reading>>
  BY <1>1, <1>2 DEF Writing
<1>6. /\ \A i \in DOMAIN r.put : r.put[i].by = t
      /\ \A i \in DOMAIN r.add : r.add[i].by = t
  BY <1>2, <1>4 DEF SaveKnows
<1>7. /\ txn' \in [Edits -> TxnRows] /\ \A u \in Edits : u # t => txn'[u] = txn[u]
      /\ EditKnows(t)'
  BY <1>2, <1>3, <1>4, <1>5, <1>6, SaveGoesOn
<1> QED BY <1>5, <1>7, TakeMoves, EditMoves

LEMMA DoesReview == ASSUME KnowledgeInv, NEW t \in Edits, txn[t].pc \in {"review", "prior", "same", "undo"}
                    PROVE  Task(t).does = "review" /\ Reviewed(Task(t)) /\ ReviewKnows(t)
BY TasksAre, EditFacts DEF EditKnows, SaveKnows, KnowledgeInv

\* A review that has the artist and goes on.
LEMMA ReviewGoesOn ==
    ASSUME KnowledgeInv, NEW t \in Edits, Task(t).does = "review", UNCHANGED <<edits, facts, reviews, places, reading>>,
           NEW r \in TxnRows, txn' = [txn EXCEPT ![t] = r], share' = share,
           held' \in [Locks -> Edits \cup {NoEdit}], held'[TheArtist] = t,
           \A x \in Locks : x # TheArtist => held'[x] = held[x], held[TheArtist] \in {NoEdit, t},
           r.pc \in {"prior", "same", "undo", "commit"}, DOMAIN r.put = {},
           r.pc \in {"same", "commit"} => \A it \in reviews : it.source # Task(t).source,
           r.pc # "commit" => r.add = << >>,
           r.pc = "commit" =>
              \/ r.add = << >>
              \/ /\ r.add = <<ApprovedRule(t)>>
                 /\ \A i \in DOMAIN facts : ByApproval(i) => facts[i].text # Task(t).text
    PROVE  KnowledgeInv'
<1>1. txn' \in [Edits -> TxnRows] /\ txn'[t] = r /\ \A u \in Edits : u # t => txn'[u] = txn[u]
  BY EditFacts
<1>2. /\ Task(t)' = Task(t) /\ EditKnows(t) /\ Task(t).does # "save"
      /\ facts' = facts /\ reviews' = reviews /\ edits' = edits
  BY EditFacts DEF Task
<1>3. ~Writing(t) /\ Judging(t)'
  BY <1>1, <1>2 DEF Writing, Judging
<1>4. (\A x \in Locks : x # TheArtist => held[x] # t) /\ t \notin share
  BY <1>2, <1>3 DEF EditKnows, HoldsRight
<1>5. HoldsRight(t)'
  BY <1>3, <1>4 DEF HoldsRight
<1>6. (\A i \in DOMAIN facts : ByApproval(i)' <=> ByApproval(i)) /\ ApprovedRule(t)' = ApprovedRule(t)
  BY <1>2 DEF ByApproval, ApprovedRule
<1>7. ReviewKnows(t)'
  BY <1>1, <1>2, <1>3, <1>6 DEF ReviewKnows
<1>8. EditKnows(t)'
  BY <1>2, <1>5, <1>7 DEF EditKnows
<1>9. \A u \in Edits : u # t => /\ \A x \in Locks : held'[x] = u <=> held[x] = u
                                /\ u \in share' <=> u \in share
  BY KnowledgeBounds
<1> QED BY <1>1, <1>8, <1>9, EditFacts, EditMoves

LEMMA LockArtistKeeps == ASSUME KnowledgeInv, NEW t \in Edits, LockArtist(t) PROVE KnowledgeInv'
<1> DEFINE r == [txn[t] EXCEPT !.pc = "prior"]
<1>1. /\ txn[t].pc = "review" /\ Take(t) /\ txn' = [txn EXCEPT ![t] = r]
      /\ UNCHANGED <<edits, facts, reviews, places, reading>>
  BY DEF LockArtist
<1>2. Task(t).does = "review" /\ ReviewKnows(t) /\ txn[t] \in TxnRows
  BY <1>1, DoesReview, EditFacts
<1>3. r \in TxnRows /\ r.pc = "prior" /\ r.put = txn[t].put /\ r.add = txn[t].add
  BY <1>2 DEF TxnRows, EditSteps
<1> HIDE DEF r
<1>4. Needs(t) = {TheArtist} /\ ~Shares(t)
  BY <1>1 DEF Needs, Shares, TheArtist
<1>5. /\ held' \in [Locks -> Edits \cup {NoEdit}] /\ held'[TheArtist] = t /\ share' = share
      /\ \A x \in Locks : x # TheArtist => held'[x] = held[x]
  BY <1>1, <1>4, TakeMoves, LockNames
<1>6. held[TheArtist] \in {NoEdit, t}
  BY <1>1, <1>4 DEF Take, WaitsFor
<1>7. DOMAIN r.put = {} /\ r.add = << >>
  BY <1>1, <1>2, <1>3 DEF ReviewKnows
<1> QED BY <1>1, <1>2, <1>3, <1>5, <1>6, <1>7, ReviewGoesOn

LEMMA CheckPriorKeeps == ASSUME KnowledgeInv, NEW t \in Edits, CheckPrior(t) PROVE KnowledgeInv'
<1>1. /\ txn[t].pc = "prior"
      /\ txn' = [txn EXCEPT ![t].pc = IF \E it \in reviews : it.source = Task(t).source THEN "undo"
                                      ELSE IF Task(t).approve THEN "same" ELSE "commit"]
      /\ UNCHANGED <<edits, facts, reviews, held, share, places, reading>>
  BY DEF CheckPrior
<1>2. Task(t).does = "review" /\ ReviewKnows(t) /\ txn[t] \in TxnRows /\ held \in [Locks -> Edits \cup {NoEdit}]
  BY <1>1, DoesReview, EditFacts
<1>3. PICK next \in {"undo", "same", "commit"} :
        /\ next = IF \E it \in reviews : it.source = Task(t).source THEN "undo"
                  ELSE IF Task(t).approve THEN "same" ELSE "commit"
        /\ next \in {"same", "commit"} => \A it \in reviews : it.source # Task(t).source
  OBVIOUS
<1> DEFINE r == [txn[t] EXCEPT !.pc = next]
<1>4. txn' = [txn EXCEPT ![t] = r]
  BY <1>1, <1>3
<1>5. r \in TxnRows /\ r.pc = next /\ r.put = txn[t].put /\ r.add = txn[t].add
  BY <1>2, <1>3 DEF TxnRows, EditSteps
<1> HIDE DEF r
<1>6. held[TheArtist] = t
  BY <1>1, <1>2 DEF ReviewKnows, Judging
<1>7. DOMAIN r.put = {} /\ r.add = << >>
  BY <1>1, <1>2, <1>5 DEF ReviewKnows
<1> QED BY <1>1, <1>2, <1>3, <1>4, <1>5, <1>6, <1>7, ReviewGoesOn

LEMMA AddRuleKeeps == ASSUME KnowledgeInv, NEW t \in Edits, AddRule(t) PROVE KnowledgeInv'
<1> DEFINE known == \E it \in ForClients(facts) : it.kind = "rule" /\ it.text = Task(t).text
           add == IF known THEN << >> ELSE <<ApprovedRule(t)>>
           r == [txn[t] EXCEPT !.pc = "commit", !.add = add]
<1>1. /\ txn[t].pc = "same" /\ txn' = [txn EXCEPT ![t].pc = "commit", ![t].add = add]
      /\ UNCHANGED <<edits, facts, reviews, held, share, places, reading>>
  BY DEF AddRule, ApprovedRule
<1>2. /\ Task(t).does = "review" /\ ReviewKnows(t) /\ txn[t] \in TxnRows /\ Task(t).text \in STRING
      /\ held \in [Locks -> Edits \cup {NoEdit}]
  BY <1>1, DoesReview, EditFacts DEF Reviewed
<1>3. ApprovedRule(t) \in FactRows
  BY <1>2 DEF ApprovedRule, FactRows
<1>4. add \in Seq(FactRows) /\ (add = << >> \/ (~known /\ add = <<ApprovedRule(t)>>))
  <2>1. << >> \in Seq(FactRows) /\ <<ApprovedRule(t)>> \in Seq(FactRows)
    BY <1>3
  <2> QED BY <2>1
<1>5. ASSUME ~known, NEW i \in DOMAIN facts, ByApproval(i) PROVE facts[i].text # Task(t).text
  <2>1. facts[i].kind = "rule" /\ facts[i].active = TRUE /\ facts[i].shown = TRUE
    BY <1>5 DEF KnowledgeInv, ApprovedTold
  <2>2. facts[i] \in ForClients(facts)
    BY <2>1 DEF ForClients
  <2> QED BY <1>5, <2>1, <2>2
<1>6. txn' = [txn EXCEPT ![t] = r]
  BY <1>1, EditFacts
<1> HIDE DEF add, known
<1>7. r \in TxnRows /\ r.pc = "commit" /\ r.put = txn[t].put /\ r.add = add
  BY <1>2, <1>4 DEF TxnRows, EditSteps
<1> HIDE DEF r
<1>8. held[TheArtist] = t /\ (\A it \in reviews : it.source # Task(t).source) /\ DOMAIN r.put = {}
  BY <1>1, <1>2, <1>7 DEF ReviewKnows, Judging
<1> QED BY <1>1, <1>2, <1>4, <1>5, <1>6, <1>7, <1>8, ReviewGoesOn

\* The rows after a commit: what was put in place, what was left, what was added.
LEMMA FactsNext ==
    ASSUME KnowledgeInv, NEW t \in Edits, CommitEdit(t)
    PROVE  /\ facts' \in Seq(FactRows) /\ Len(facts') = Len(facts) + Len(txn[t].add)
           /\ Len(facts) \in Nat /\ Len(txn[t].add) \in Nat
           /\ \A i \in 1 .. Len(facts) : facts'[i] = IF i \in DOMAIN txn[t].put THEN txn[t].put[i] ELSE facts[i]
           /\ \A i \in 1 .. Len(txn[t].add) : facts'[Len(facts) + i] = txn[t].add[i]
<1> DEFINE put == txn[t].put
           add == txn[t].add
           base == [i \in DOMAIN facts |-> IF i \in DOMAIN put THEN put[i] ELSE facts[i]]
<1>1. facts \in Seq(FactRows) /\ add \in Seq(FactRows) /\ put \in [DOMAIN put -> FactRows]
  BY EditFacts, PutAre
<1>2. facts' = base \o add
  BY DEF CommitEdit
<1> HIDE DEF put, add
<1>3. DOMAIN facts = 1 .. Len(facts) /\ Len(facts) \in Nat /\ \A i \in 1 .. Len(facts) : facts[i] \in FactRows
  BY <1>1
<1>4. base \in [1 .. Len(facts) -> FactRows]
  BY <1>1, <1>3
<1>5. base \in Seq(FactRows) /\ Len(base) = Len(facts)
  BY <1>3, <1>4
<1>6. \A i \in 1 .. Len(facts) : base[i] = IF i \in DOMAIN put THEN put[i] ELSE facts[i]
  BY <1>3
<1> HIDE DEF base
<1>7. /\ facts' \in Seq(FactRows) /\ Len(facts') = Len(facts) + Len(add) /\ Len(add) \in Nat
      /\ \A i \in 1 .. Len(facts) : facts'[i] = base[i]
      /\ \A i \in 1 .. Len(add) : facts'[Len(facts) + i] = add[i]
  <2>1. ASSUME NEW one \in Seq(FactRows), NEW two \in Seq(FactRows)
        PROVE  /\ one \o two \in Seq(FactRows) /\ Len(one \o two) = Len(one) + Len(two) /\ Len(two) \in Nat
               /\ \A i \in 1 .. Len(one) : (one \o two)[i] = one[i]
               /\ \A i \in 1 .. Len(two) : (one \o two)[Len(one) + i] = two[i]
    OBVIOUS
  <2>2. /\ base \o add \in Seq(FactRows) /\ Len(base \o add) = Len(base) + Len(add) /\ Len(add) \in Nat
        /\ \A i \in 1 .. Len(base) : (base \o add)[i] = base[i]
        /\ \A i \in 1 .. Len(add) : (base \o add)[Len(base) + i] = add[i]
    <3>1. base \in Seq(FactRows) /\ add \in Seq(FactRows)
      BY <1>1, <1>5
    <3> QED BY <2>1, <3>1
  <2>3. Len(base) = Len(facts)
    BY <1>5
  <2> QED BY <1>2, <2>2, <2>3
<1> QED BY <1>3, <1>6, <1>7 DEF put, add

LEMMA CommitDoes ==
    ASSUME KnowledgeInv, NEW t \in Edits, CommitEdit(t)
    PROVE  /\ txn[t].pc = "commit" /\ edits' = edits
           /\ \/ Task(t).does = "save" /\ SaveKnows(t)
              \/ Task(t).does = "review" /\ ReviewKnows(t) /\ held[TheArtist] = t
<1>1. txn[t].pc = "commit" /\ edits' = edits /\ EditKnows(t)
  BY EditFacts DEF CommitEdit
<1>2. Task(t).does = "save" \/ Task(t).does = "review"
  BY TasksAre DEF KnowledgeInv
<1> QED BY <1>1, <1>2 DEF EditKnows, ReviewKnows, Judging

\* Of the rules by approval the last commit added at most one, and nothing like it was there.
LEMMA ApprovedNext ==
    ASSUME KnowledgeInv, NEW t \in Edits, CommitEdit(t), NEW i \in DOMAIN facts', ByApproval(i)'
    PROVE  \/ i \in DOMAIN facts /\ facts'[i] = facts[i] /\ ByApproval(i)
           \/ /\ i = Len(facts) + 1 /\ facts'[i] = ApprovedRule(t) /\ Task(t).does = "review"
              /\ \A j \in DOMAIN facts : ByApproval(j) => facts[j].text # Task(t).text
<1>1. /\ facts' \in Seq(FactRows) /\ Len(facts') = Len(facts) + Len(txn[t].add)
      /\ Len(facts) \in Nat /\ Len(txn[t].add) \in Nat
      /\ \A k \in 1 .. Len(facts) : facts'[k] = IF k \in DOMAIN txn[t].put THEN txn[t].put[k] ELSE facts[k]
      /\ \A k \in 1 .. Len(txn[t].add) : facts'[Len(facts) + k] = txn[t].add[k]
  BY FactsNext
<1>2. i \in 1 .. Len(facts') /\ DOMAIN facts = 1 .. Len(facts) /\ txn[t].add \in Seq(FactRows)
  BY <1>1, EditFacts
<1>3. edits' = edits /\ facts'[i].by \in Edits /\ edits[facts'[i].by].does = "review"
  BY CommitDoes DEF ByApproval
<1>4. CASE i \in 1 .. Len(facts) /\ i \in DOMAIN txn[t].put
  <2>1. Task(t).does = "save" /\ txn[t].put[i].by = t
    BY <1>4, CommitDoes DEF SaveKnows, ReviewKnows
  <2> QED BY <1>1, <1>3, <1>4, <2>1 DEF Task
<1>5. CASE i \in 1 .. Len(facts) /\ i \notin DOMAIN txn[t].put
  <2>1. facts'[i] = facts[i]
    BY <1>1, <1>5
  <2> QED BY <1>2, <1>3, <1>5, <2>1 DEF ByApproval
<1>6. CASE i \notin 1 .. Len(facts)
  <2>1. PICK k \in 1 .. Len(txn[t].add) : i = Len(facts) + k
    <3>1. i - Len(facts) \in 1 .. Len(txn[t].add) /\ i = Len(facts) + (i - Len(facts))
      BY <1>1, <1>2, <1>6
    <3> QED BY <3>1
  <2>2. facts'[i] = txn[t].add[k] /\ k \in DOMAIN txn[t].add
    BY <1>1, <1>2, <2>1
  <2>3. CASE Task(t).does = "save"
    <3>1. txn[t].add[k].by = t
      BY <2>2, <2>3, CommitDoes DEF SaveKnows
    <3> QED BY <1>3, <2>2, <2>3, <3>1 DEF Task
  <2>4. CASE Task(t).does = "review"
    <3>1. /\ txn[t].add = <<ApprovedRule(t)>>
          /\ \A j \in DOMAIN facts : ByApproval(j) => facts[j].text # Task(t).text
      <4>1. txn[t].add # << >>
        BY <2>2
      <4> QED BY <2>4, <4>1, CommitDoes DEF ReviewKnows
    <3>2. k = 1 /\ txn[t].add[k] = ApprovedRule(t)
      BY <2>2, <3>1
    <3> QED BY <2>1, <2>2, <2>4, <3>1, <3>2
  <2> QED BY <2>3, <2>4, CommitDoes
<1> QED BY <1>4, <1>5, <1>6

LEMMA CommitEditKeeps == ASSUME KnowledgeInv, NEW t \in Edits, CommitEdit(t) PROVE KnowledgeInv'
<1>1. /\ txn[t].pc = "commit" /\ Release(t) /\ txn' = [txn EXCEPT ![t] = [IdleTx EXCEPT !.pc = "done"]]
      /\ reviews' = reviews \cup (IF Task(t).does = "save" THEN {} ELSE {[source |-> Task(t).source, by |-> t]})
      /\ reading' = [reading EXCEPT !.seen = IF reading.pc = "reading" THEN @ \cup ForClients(facts') ELSE @]
      /\ edits' = edits /\ places' = places
  BY DEF CommitEdit
<1>2. /\ txn' \in [Edits -> TxnRows] /\ \A u \in Edits : u # t => txn'[u] = txn[u]
      /\ EditKnows(t)'
  BY <1>1, EditOver
<1>3. facts' \in Seq(FactRows)
  BY FactsNext
<1>4. ForClients(facts') \subseteq FactRows
  BY <1>3 DEF ForClients
<1>5. /\ reading' \in ReadingRows /\ reading'.pc = reading.pc /\ reading'.named = reading.named
      /\ reading'.copy = reading.copy /\ reading'.told = reading.told
      /\ reading'.seen = IF reading.pc = "reading" THEN reading.seen \cup ForClients(facts') ELSE reading.seen
  <2>1. reading \in ReadingRows
    BY DEF KnowledgeInv, KnowledgeShapes
  <2> DEFINE seen == IF reading.pc = "reading" THEN reading.seen \cup ForClients(facts') ELSE reading.seen
  <2>2. seen \in SUBSET FactRows
    BY <1>4, <2>1 DEF ReadingRows
  <2>3. reading' = [reading EXCEPT !.seen = seen]
    BY <1>1
  <2> HIDE DEF seen
  <2>4. /\ reading' \in ReadingRows /\ reading'.pc = reading.pc /\ reading'.named = reading.named
        /\ reading'.copy = reading.copy /\ reading'.told = reading.told /\ reading'.seen = seen
    BY <2>1, <2>2, <2>3 DEF ReadingRows
  <2> QED BY <2>4 DEF seen
<1>6. KnowledgeShapes'
  BY <1>1, <1>2, <1>3, <1>5, ReleaseMoves DEF KnowledgeInv, KnowledgeShapes
<1>7. ReadingKnows'
  <2>1. reading \in ReadingRows /\ ReadingKnows
    BY DEF KnowledgeInv, KnowledgeShapes
  <2>2. CASE reading.pc = "reading"
    BY <1>5, <2>1, <2>2 DEF ReadingKnows, ToldWasShown
  <2>3. CASE reading.pc # "reading"
    BY <1>5, <2>1, <2>3 DEF ReadingKnows, ToldWasShown
  <2> QED BY <2>2, <2>3
<1>8. ApprovedTold'
  <2> SUFFICES ASSUME NEW i \in DOMAIN facts', ByApproval(i)'
               PROVE facts'[i].kind = "rule" /\ facts'[i].active = TRUE /\ facts'[i].shown = TRUE
    BY DEF ApprovedTold
  <2>1. CASE i \in DOMAIN facts /\ facts'[i] = facts[i] /\ ByApproval(i)
    BY <2>1 DEF KnowledgeInv, ApprovedTold
  <2>2. CASE facts'[i] = ApprovedRule(t)
    BY <2>2 DEF ApprovedRule
  <2> QED BY <2>1, <2>2, ApprovedNext
<1>9. ReviewedOnce'
  <2>1. ASSUME NEW r \in reviews', NEW s \in reviews', r.source = s.source PROVE r = s
    <3>1. \A it1, it2 \in reviews : it1.source = it2.source => it1 = it2
      BY DEF KnowledgeInv, ReviewedOnce
    <3>2. CASE Task(t).does = "save"
      BY <1>1, <2>1, <3>1, <3>2
    <3>3. CASE Task(t).does = "review"
      <4>1. \A it \in reviews : it.source # Task(t).source
        BY <1>1, <3>3, CommitDoes DEF ReviewKnows
      <4> QED BY <1>1, <2>1, <3>1, <3>3, <4>1
    <3> QED BY <3>2, <3>3, CommitDoes
  <2>2. ASSUME NEW i \in DOMAIN facts', NEW j \in DOMAIN facts', ByApproval(i)', ByApproval(j)',
               facts'[i].text = facts'[j].text
        PROVE i = j
    <3>1. \A k, m \in DOMAIN facts : ByApproval(k) /\ ByApproval(m) /\ facts[k].text = facts[m].text => k = m
      BY DEF KnowledgeInv, ReviewedOnce
    <3>2. ApprovedRule(t).text = Task(t).text
      BY DEF ApprovedRule
    <3> QED BY <2>2, <3>1, <3>2, ApprovedNext
  <2> QED BY <2>1, <2>2 DEF ReviewedOnce
<1>10. ASSUME NEW u \in Edits, u # t PROVE EditKnows(u)'
  <2>1. EditKnows(u) /\ txn'[u] = txn[u]
    BY <1>2, <1>10 DEF KnowledgeInv
  <2>2. /\ \A x \in Locks : held'[x] = u <=> held[x] = u
        /\ u \in share' <=> u \in share
    BY <1>1, <1>10, ReleaseMoves
  <2>3. HoldsRight(u)'
    BY <1>1, <2>1, <2>2 DEF EditKnows, HoldsRight, Writing, Judging, Task
  <2>4. Task(u).does = "save" => SaveKnows(u)'
    BY <1>1, <2>1, <2>2, LockNames DEF EditKnows, SaveKnows, Writing, Task
  <2>5. ASSUME Task(u).does = "review" PROVE ReviewKnows(u)'
    <3>1. ReviewKnows(u)
      BY <2>1, <2>5 DEF EditKnows
    <3>2. ASSUME Judging(u) PROVE Task(t).does = "save"
      BY <1>10, <3>1, <3>2, CommitDoes DEF ReviewKnows
    <3>3. ASSUME txn[u].pc \in {"same", "commit"}
          PROVE  reviews' = reviews /\ \A i \in DOMAIN facts' :
                    ByApproval(i)' => i \in DOMAIN facts /\ facts'[i] = facts[i] /\ ByApproval(i)
      <4>1. Task(t).does = "save"
        BY <2>5, <3>2, <3>3 DEF Judging
      <4> QED BY <1>1, <4>1, ApprovedNext
    <3>4. ApprovedRule(u)' = ApprovedRule(u) /\ Judging(u)' = Judging(u) /\ Task(u)' = Task(u)
      BY <1>1, <2>1 DEF ApprovedRule, Judging, Task
    <3>5. held'[TheArtist] = u <=> held[TheArtist] = u
      BY <2>2, LockNames
    <3>6. /\ txn'[u].pc \in {"same", "commit"} => \A r \in reviews' : r.source # Task(u).source
          /\ txn[u].pc = "commit" /\ txn[u].add = <<ApprovedRule(u)>> /\ txn[u].add # << >> =>
               \A i \in DOMAIN facts' : ByApproval(i)' => facts'[i].text # Task(u).text
      BY <2>1, <3>1, <3>3 DEF ReviewKnows
    <3> QED BY <2>1, <3>1, <3>4, <3>5, <3>6 DEF ReviewKnows
  <2> QED BY <1>1, <2>3, <2>4, <2>5 DEF EditKnows, Task
<1> QED BY <1>2, <1>6, <1>7, <1>8, <1>9, <1>10 DEF KnowledgeInv

\* The receptionist reads, or staff close a location, while no row changes.
LEMMA ReadingMoves ==
    ASSUME KnowledgeInv, UNCHANGED <<edits, facts, reviews, held, share, txn>>, places' \subseteq Places,
           reading' \in ReadingRows, ReadingKnows'
    PROVE  KnowledgeInv'
<1>1. KnowledgeShapes'
  BY DEF KnowledgeInv, KnowledgeShapes
<1>2. ReviewedOnce' /\ ApprovedTold'
  BY DEF KnowledgeInv, ReviewedOnce, ApprovedTold, ByApproval
<1>3. ASSUME NEW u \in Edits PROVE EditKnows(u)'
  <2>1. EditKnows(u) /\ (\A i \in DOMAIN facts : ByApproval(i)' <=> ByApproval(i))
    BY DEF KnowledgeInv, ByApproval
  <2>2. HoldsRight(u)'
    BY <2>1 DEF EditKnows, HoldsRight, Writing, Judging, Task
  <2>3. Task(u).does = "save" => SaveKnows(u)'
    BY <2>1 DEF EditKnows, SaveKnows, Writing, Task
  <2>4. Task(u).does = "review" => ReviewKnows(u)'
    BY <2>1 DEF EditKnows, ReviewKnows, Judging, ApprovedRule, Task
  <2> QED BY <2>2, <2>3, <2>4 DEF EditKnows, Task
<1> QED BY <1>1, <1>2, <1>3 DEF KnowledgeInv

LEMMA ForClientsAre == ASSUME KnowledgeShapes PROVE ForClients(facts) \subseteq FactRows
BY DEF ForClients, KnowledgeShapes

LEMMA StartReadingKeeps == ASSUME KnowledgeInv, StartReading PROVE KnowledgeInv'
<1>1. PICK named \in (SUBSET Places) \cup {{Everywhere}} :
         reading' = [NotReading EXCEPT !.pc = "reading", !.named = named, !.seen = ForClients(facts)]
  BY DEF StartReading
<1>2. UNCHANGED <<edits, facts, reviews, held, share, txn, places>>
  BY DEF StartReading
<1>3. PICK none \in CopyRows : none = << >> /\ DOMAIN none = {}
  BY NothingPut
<1>4. PICK shown \in SUBSET FactRows : shown = ForClients(facts)
  BY ForClientsAre DEF KnowledgeInv
<1>5. reading' \in ReadingRows /\ reading'.pc = "reading" /\ reading'.named = named
      /\ reading'.copy = none /\ reading'.seen = shown
  <2>1. reading' = [pc |-> "reading", named |-> named, copy |-> none, told |-> {}, seen |-> shown]
    BY <1>1, <1>3, <1>4 DEF NotReading
  <2>2. named \in SUBSET (Places \cup {Everywhere}) /\ {} \in SUBSET FactRows
    OBVIOUS
  <2> QED BY <2>1, <2>2 DEF ReadingRows
<1>6. ForClients(facts)' = shown
  BY <1>2, <1>4 DEF ForClients
<1>7. ReadingKnows'
  <2>1. ToldWasShown'
    BY <1>5 DEF ToldWasShown
  <2>2. named = {Everywhere} \/ named \subseteq Places
    OBVIOUS
  <2> QED BY <1>3, <1>5, <1>6, <2>1, <2>2 DEF ReadingKnows
<1>8. places' \subseteq Places
  BY <1>2 DEF KnowledgeInv, KnowledgeShapes
<1> QED BY <1>2, <1>5, <1>7, <1>8, ReadingMoves

LEMMA ClosePlaceKeeps == ASSUME KnowledgeInv, ClosePlace PROVE KnowledgeInv'
<1>1. UNCHANGED <<edits, facts, reviews, held, share, txn, reading>> /\ places' \subseteq Places
  BY DEF ClosePlace
<1>2. reading' \in ReadingRows /\ ReadingKnows'
  BY <1>1 DEF KnowledgeInv, KnowledgeShapes, ReadingKnows, ToldWasShown, ForClients
<1> QED BY <1>1, <1>2, ReadingMoves

LEMMA ReadTableKeeps == ASSUME KnowledgeInv, NEW table \in Tables, ReadTable(table) PROVE KnowledgeInv'
<1> DEFINE found == IF table = "places" THEN places
                    ELSE {r \in {facts[i] : i \in DOMAIN facts} : r.active /\ r.kind = table}
           old == reading.copy
           new == [x \in DOMAIN old \cup {table} |-> IF x = table THEN found ELSE old[x]]
<1>1. /\ reading.pc = "reading" /\ table \notin DOMAIN old
      /\ reading' = [reading EXCEPT !.copy = new]
      /\ UNCHANGED <<edits, facts, reviews, held, share, txn, places>>
  BY DEF ReadTable
<1>2. reading \in ReadingRows /\ ReadingKnows /\ facts \in Seq(FactRows) /\ places \subseteq Places
  BY DEF KnowledgeInv, KnowledgeShapes
<1>3. old \in CopyRows
  BY <1>2 DEF ReadingRows
<1>4. DOMAIN old \subseteq Tables /\ old \in [DOMAIN old -> (SUBSET FactRows) \cup (SUBSET Places)]
  BY <1>3 DEF CopyRows
<1>5. /\ found \in (SUBSET FactRows) \cup (SUBSET Places)
      /\ table = "places" => found \subseteq Places
      /\ table # "places" => \A r \in found : r \in FactRows /\ r.kind = table
                                              /\ (r.shown = TRUE => r \in ForClients(facts))
  BY <1>2 DEF ForClients
<1> HIDE DEF found, old
<1>6. new \in [DOMAIN old \cup {table} -> (SUBSET FactRows) \cup (SUBSET Places)]
  BY <1>4, <1>5
<1>7. DOMAIN old \cup {table} \in SUBSET Tables
  BY <1>4
<1>8. new \in CopyRows
  BY <1>6, <1>7 DEF CopyRows
<1>9. DOMAIN new = DOMAIN old \cup {table} /\ new[table] = found /\ \A x \in DOMAIN old : x # table => new[x] = old[x]
  OBVIOUS
<1> HIDE DEF new
<1>10. /\ reading' \in ReadingRows /\ reading'.pc = "reading" /\ reading'.named = reading.named
       /\ reading'.copy = new /\ reading'.seen = reading.seen
  BY <1>1, <1>2, <1>8 DEF ReadingRows
<1>11. ForClients(facts)' = ForClients(facts) /\ ForClients(facts) \subseteq reading.seen
  BY <1>1, <1>2 DEF ForClients, ReadingKnows
<1>12. "places" \in DOMAIN new => new["places"] \subseteq Places
  BY <1>1, <1>2, <1>5, <1>9 DEF ReadingKnows, old
<1>13. ASSUME NEW x \in DOMAIN new \cap {"rule", "faq"}, NEW r \in new[x]
       PROVE r \in FactRows /\ r.kind = x /\ (r.shown = TRUE => r \in reading.seen)
  <2>1. CASE x = table
    BY <1>5, <1>9, <1>11, <1>13, <2>1
  <2>2. CASE x # table
    BY <1>1, <1>2, <1>9, <1>13, <2>2 DEF ReadingKnows, old
  <2> QED BY <2>1, <2>2
<1>14. ReadingKnows'
  <2>1. reading.named = {Everywhere} \/ reading.named \subseteq Places
    BY <1>2 DEF ReadingKnows
  <2> QED BY <1>10, <1>11, <1>12, <1>13, <2>1 DEF ReadingKnows, ToldWasShown
<1> QED BY <1>1, <1>2, <1>10, <1>14, ReadingMoves

\* The place that is told of is one at most, and one the client's words fit.
LEMMA TheirPlaceIs ==
    ASSUME NEW named, NEW open \in SUBSET Places, named = {Everywhere} \/ named \subseteq Places
    PROVE  /\ TheirPlace(named, open) \subseteq Places
           /\ TheirPlace(named, open) = {} \/ \E p : TheirPlace(named, open) = {p}
           /\ named # {Everywhere} /\ TheirPlace(named, open) # {} => TheirPlace(named, open) = named \cap open
<1>1. CASE named = {Everywhere}
  <2>1. CASE open = {}
    BY <1>1, <2>1 DEF TheirPlace, Primary
  <2>2. CASE open # {}
    <3>1. (CHOOSE p \in open : TRUE) \in open
      BY <2>2
    <3> QED BY <1>1, <2>2, <3>1 DEF TheirPlace, Primary
  <2> QED BY <2>1, <2>2
<1>2. CASE named # {Everywhere}
  <2>1. named \cap open \subseteq Places /\ IsFiniteSet(named \cap open)
    BY FS_Subset, KnowledgeBounds
  <2>2. CASE Cardinality(named \cap open) = 1
    <3>1. \E p : named \cap open = {p}
      BY <2>1, <2>2, FS_Singleton
    <3> QED BY <1>2, <2>1, <2>2, <3>1 DEF TheirPlace
  <2>3. CASE Cardinality(named \cap open) # 1
    BY <1>2, <2>3 DEF TheirPlace
  <2> QED BY <2>2, <2>3
<1> QED BY <1>1, <1>2

LEMMA ProjectKeeps == ASSUME KnowledgeInv, Project PROVE KnowledgeInv'
<1> DEFINE open == reading.copy["places"]
           here == TheirPlace(reading.named, open)
           told == {r \in reading.copy["rule"] : r.shown}
                   \cup {r \in reading.copy["faq"] : r.at \in here \cup {Everywhere}}
<1>1. /\ reading.pc = "reading" /\ DOMAIN reading.copy = {"rule", "faq", "places"}
      /\ reading' = [reading EXCEPT !.pc = "told", !.told = told]
      /\ UNCHANGED <<edits, facts, reviews, held, share, txn, places>>
  BY DEF Project
<1>2. reading \in ReadingRows /\ ReadingKnows /\ facts \in Seq(FactRows) /\ places \subseteq Places
  BY DEF KnowledgeInv, KnowledgeShapes
<1>3. open \in SUBSET Places /\ (reading.named = {Everywhere} \/ reading.named \subseteq Places)
  BY <1>1, <1>2 DEF ReadingKnows
<1>4. /\ here \subseteq Places /\ (here = {} \/ \E p : here = {p})
      /\ reading.named # {Everywhere} /\ here # {} => here = reading.named \cap open
  BY <1>3, TheirPlaceIs
<1>5. /\ \A r \in reading.copy["rule"] : r \in FactRows /\ r.kind = "rule" /\ (r.shown = TRUE => r \in reading.seen)
      /\ \A r \in reading.copy["faq"] : r \in FactRows /\ r.kind = "faq" /\ (r.shown = TRUE => r \in reading.seen)
  BY <1>1, <1>2 DEF ReadingKnows
<1> HIDE DEF here
<1>6. \A r \in told : r \in FactRows /\ r \in reading.seen /\ r.at \in here \cup {Everywhere}
  BY <1>5 DEF FactRows
<1> HIDE DEF told
<1>7. /\ reading' \in ReadingRows /\ reading'.pc = "told" /\ reading'.named = reading.named
      /\ reading'.copy = reading.copy /\ reading'.seen = reading.seen /\ reading'.told = told
  <2>1. told \in SUBSET FactRows
    BY <1>6
  <2> QED BY <1>1, <1>2, <2>1 DEF ReadingRows
<1>8. ToldWasShown'
  <2> DEFINE own == {r.at : r \in told} \ {Everywhere}
             fits == reading.named \cap open
  <2>1. own \subseteq here
    BY <1>6
  <2>2. own = {} \/ own = here
    BY <1>4, <2>1
  <2>3. Cardinality(own) <= 1
    <3>1. CASE own = {}
      BY <3>1, FS_EmptySet
    <3>2. CASE own # {}
      <4>1. PICK p : own = {p}
        BY <1>4, <2>2, <3>2
      <4>2. Cardinality({p}) = 1
        BY FS_Singleton
      <4> QED BY <4>1, <4>2
    <3> QED BY <3>1, <3>2
  <2>4. own # {} /\ reading.named # {Everywhere} => own = fits
    BY <1>4, <2>2
  <2>5. told \subseteq reading.seen
    BY <1>6
  <2> QED BY <1>7, <2>3, <2>4, <2>5 DEF ToldWasShown
<1>9. ReadingKnows'
  BY <1>3, <1>7, <1>8 DEF ReadingKnows
<1> QED BY <1>1, <1>2, <1>7, <1>9, ReadingMoves

\* What the next statement locks is the profile, the artist, or a row that the page named.
LEMMA NeedsAre ==
    ASSUME KnowledgeInv, NEW t \in Edits
    PROVE  /\ txn[t].pc = "profile" => Needs(t) = {TheProfile}
           /\ txn[t].pc = "rows" => Needs(t) \subseteq Locks \ {TheArtist, TheProfile}
           /\ txn[t].pc \in {"artist", "review"} => Needs(t) = {TheArtist}
           /\ txn[t].pc \notin {"profile", "rows", "artist", "review"} => Needs(t) = {}
           /\ Shares(t) => txn[t].pc = "rows"
<1>1. ASSUME txn[t].pc = "rows" PROVE Needs(t) \subseteq Locks \ {TheArtist, TheProfile}
  <2>1. Task(t).does = "save" /\ EditKnows(t) /\ KnowledgeShapes
    BY <1>1, DoesSave, EditFacts DEF KnowledgeInv
  <2>2. txn[t].at \in 1 .. Len(Task(t).rows) /\ Saved(Task(t))
    BY <1>1, <2>1, TasksAre DEF EditKnows, SaveKnows
  <2>3. Item(t).id \in RowIds \cup {0} /\ 0 \notin RowIds
    BY <2>2 DEF Saved, Item, RowIds
  <2> QED BY <1>1, <2>3, LockNames DEF Needs
<1>2. Shares(t) => txn[t].pc = "rows"
  BY DEF Shares
<1>3. txn[t].pc # "rows" =>
        /\ txn[t].pc = "profile" => Needs(t) = {TheProfile}
        /\ txn[t].pc \in {"artist", "review"} => Needs(t) = {TheArtist}
        /\ txn[t].pc \notin {"profile", "rows", "artist", "review"} => Needs(t) = {}
  BY DEF Needs, TheProfile, TheArtist
<1> QED BY <1>1, <1>2, <1>3

\* Whoever waits does so for the transaction that has the artist or for a save.
LEMMA WaitingFor ==
    ASSUME KnowledgeInv, NEW t \in Edits, NEW u \in WaitsFor(t)
    PROVE  u \in Edits /\ u # t /\ (held[TheArtist] = u \/ Writing(u))
<1>1. /\ held \in [Locks -> Edits \cup {NoEdit}] /\ share \subseteq Edits /\ NoEdit \notin Edits
      /\ \A v \in Edits : HoldsRight(v)
  BY KnowledgeBounds DEF KnowledgeInv, KnowledgeShapes, EditKnows
<1>2. Needs(t) \subseteq Locks
  <2>1. txn[t].pc \in {"profile", "rows", "artist", "review"} \/ txn[t].pc \notin {"profile", "rows", "artist", "review"}
    OBVIOUS
  <2> QED BY <2>1, NeedsAre, LockNames
<1>3. u # t /\ u # NoEdit /\ (u \in share \/ held[TheArtist] = u \/ \E x \in Needs(t) : held[x] = u)
  BY DEF WaitsFor, TheArtist
<1>4. u \in Edits
  BY <1>1, <1>2, <1>3, LockNames
<1>5. ASSUME NEW x \in Locks, held[x] = u, x # TheArtist PROVE Writing(u)
  BY <1>1, <1>4, <1>5 DEF HoldsRight
<1>6. u \in share => Writing(u)
  BY <1>1, <1>4 DEF HoldsRight
<1> QED BY <1>2, <1>3, <1>4, <1>5, <1>6

\* A save that has the profile is the only one, and waits at most for who has the artist.
LEMMA SaveWaits ==
    ASSUME KnowledgeInv, NEW t \in Edits, Writing(t), NEW u \in WaitsFor(t)
    PROVE  held[TheArtist] = u
<1>1. u \in Edits /\ u # t /\ (held[TheArtist] = u \/ Writing(u))
  BY WaitingFor
<1>2. \A v \in Edits : Writing(v) => held[TheProfile] = v
  BY EditFacts DEF EditKnows, SaveKnows, Writing
<1> QED BY <1>1, <1>2

\* Who has the artist has nothing more to lock.
LEMMA HolderGoesOn ==
    ASSUME KnowledgeInv, NEW t \in Edits, held[TheArtist] = t
    PROVE  WaitsFor(t) = {}
<1>1. txn[t].pc \in {"prior", "same", "undo", "commit"}
  BY EditFacts, LockNames DEF EditKnows, HoldsRight, Judging
<1>2. Needs(t) = {} /\ ~Shares(t)
  BY <1>1, NeedsAre
<1>3. TheArtist \notin Needs(t)
  BY <1>2
<1> QED BY <1>2, <1>3 DEF WaitsFor, TheArtist

LEMMA NobodyStuck == ASSUME KnowledgeInv PROVE NeverStuck
<1> SUFFICES ASSUME NEW stuck \in SUBSET Edits, \A t \in stuck : WaitsFor(t) \cap stuck # {}, NEW t \in stuck
             PROVE  FALSE
  BY DEF NeverStuck
<1>1. PICK u \in stuck : u \in WaitsFor(t)
  OBVIOUS
<1>2. CASE held[TheArtist] = u
  BY <1>2, HolderGoesOn
<1>3. CASE Writing(u)
  <2>1. PICK v \in stuck : v \in WaitsFor(u)
    OBVIOUS
  <2>2. held[TheArtist] = v
    BY <1>3, <2>1, SaveWaits
  <2> QED BY <2>2, HolderGoesOn
<1> QED BY <1>1, <1>2, <1>3, WaitingFor

-----------------------------------------------------------------------------
\* What is told apart by the flags is 20000 apart, as orders are at most.
LEMMA BestFits == AftercareSpecific
<1> SUFFICES ASSUME NEW a \in AftercareTexts, NEW b \in AftercareTexts, MoreSpecific(a, b)
             PROVE  Score(a) > Score(b) \/ (Score(a) = Score(b) /\ a.order - b.order = 20000)
  BY DEF AftercareSpecific
<1>1. /\ a.place \in BOOLEAN /\ a.service \in BOOLEAN /\ a.category \in BOOLEAN
      /\ b.place \in BOOLEAN /\ b.service \in BOOLEAN /\ b.category \in BOOLEAN
  BY DEF AftercareTexts
<1>2. a.order \in Int /\ b.order \in Int /\ a.order - b.order <= 20000
  BY DEF AftercareTexts
<1> DEFINE P(f) == IF f THEN 80000 ELSE 0
           S(f) == IF f THEN 40000 ELSE 0
           C(f) == IF f THEN 20000 ELSE 0
<1>3. Score(a) = P(a.place) + S(a.service) + C(a.category) - a.order
  BY DEF Score, Points
<1>4. Score(b) = P(b.place) + S(b.service) + C(b.category) - b.order
  BY DEF Score, Points
<1>5. P(a.place) + S(a.service) + C(a.category) >= 20000 + P(b.place) + S(b.service) + C(b.category)
  <2>1. CASE a.place /\ ~b.place
    BY <1>1, <2>1
  <2>2. CASE a.place = b.place /\ a.service /\ ~b.service
    BY <1>1, <2>2
  <2>3. CASE a.place = b.place /\ a.service = b.service /\ a.category /\ ~b.category
    BY <1>1, <2>3
  <2> QED BY <2>1, <2>2, <2>3 DEF MoreSpecific
<1>6. /\ P(a.place) \in Int /\ S(a.service) \in Int /\ C(a.category) \in Int
      /\ P(b.place) \in Int /\ S(b.service) \in Int /\ C(b.category) \in Int
  BY <1>1
<1> HIDE DEF P, S, C
<1>7. PICK left, right \in Int : left >= 20000 + right /\ Score(a) = left - a.order /\ Score(b) = right - b.order
  <2>1. \A l, r \in Int : l = P(a.place) + S(a.service) + C(a.category) /\ r = P(b.place) + S(b.service) + C(b.category)
           => l >= 20000 + r /\ Score(a) = l - a.order /\ Score(b) = r - b.order
    BY <1>2, <1>3, <1>4, <1>5, <1>6
  <2> QED BY <1>6, <2>1
<1>8. \A m, n, x, y \in Int : m >= 20000 + n /\ x - y <= 20000 =>
         m - x > n - y \/ (m - x = n - y /\ x - y = 20000)
  OBVIOUS
<1>9. left - a.order > right - b.order \/ (left - a.order = right - b.order /\ a.order - b.order = 20000)
  BY <1>2, <1>7, <1>8
<1> QED BY <1>7, <1>9

LEMMA KnowledgeStep == KnowledgeInv /\ [KnowledgeNext]_knowledgeVars => KnowledgeInv'
<1> SUFFICES ASSUME KnowledgeInv, [KnowledgeNext]_knowledgeVars PROVE KnowledgeInv'
  OBVIOUS
<1>1. ASSUME NEW t \in Edits, Edit(t) PROVE KnowledgeInv'
  BY <1>1, BeginEditKeeps, UpdateProfileKeeps, SaveRowKeeps, SaveArtistKeeps, LockArtistKeeps, CheckPriorKeeps,
     AddRuleKeeps, CommitEditKeeps, RollBackKeeps DEF Edit
<1>2. CASE Tell
  BY <1>2, StartReadingKeeps, ReadTableKeeps, ProjectKeeps, ClosePlaceKeeps DEF Tell, Tables
<1>3. CASE UNCHANGED knowledgeVars
  <2>1. UNCHANGED <<edits, facts, reviews, held, share, txn, reading>> /\ places' \subseteq Places
    BY <1>3 DEF knowledgeVars, KnowledgeInv, KnowledgeShapes
  <2>2. reading' \in ReadingRows /\ ReadingKnows'
    BY <1>3 DEF knowledgeVars, KnowledgeInv, KnowledgeShapes, ReadingKnows, ToldWasShown, ForClients
  <2> QED BY <2>1, <2>2, ReadingMoves
<1> QED BY <1>1, <1>2, <1>3 DEF KnowledgeNext

LEMMA KnowledgeKept == KnowledgeSpec => []KnowledgeSafe
<1>1. KnowledgeInv => KnowledgeSafe
  <2> SUFFICES ASSUME KnowledgeInv PROVE KnowledgeSafe
    OBVIOUS
  <2>1. \A t \in Edits : txn[t].pc \in EditSteps
    BY EditFacts DEF TxnRows
  <2>2. KnowledgeTyped
    BY <2>1 DEF KnowledgeTyped, KnowledgeInv, KnowledgeShapes, EditSteps
  <2> QED BY <2>2, NobodyStuck, BestFits DEF KnowledgeSafe, KnowledgeInv, ReadingKnows
<1> QED BY KnowledgeStart, KnowledgeStep, <1>1, PTL DEF KnowledgeSpec

\* Whichever settings pages are saved, locations closed and answers reviewed at once:
\* the studio keeps its locations usable and each one's hours are of one save; no rule
\* is added twice by approvals and no saves wait for each other; and a client is told
\* what was meant for clients and in force since the reading began, of one place.
THEOREM FactsAreRight == LocationsSpec /\ KnowledgeSpec => []StudioFactsSafe
<1>1. LocationsSafe /\ KnowledgeSafe => StudioFactsSafe
  BY DEF StudioFactsSafe
<1> QED BY LocationsKept, KnowledgeKept, <1>1, PTL
=============================================================================
