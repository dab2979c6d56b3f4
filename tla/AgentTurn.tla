----------------------------- MODULE AgentTurn -----------------------------
(***************************************************************************)
(* The receptionist's turns on one client conversation when no reply job   *)
(* stands between a message and its answer: the webhook runs the model at  *)
(* once and hands the reply to the provider, and staff may ask for an      *)
(* unsent draft meanwhile.                                                 *)
(*                                                                         *)
(* A turn reads the artist's row and then the conversation's, lets the     *)
(* model call tools, each behind the same guard, stores what it would say  *)
(* and looks once more before it sends.  Owners switch supervision, staff  *)
(* choose the reply mode and take conversations over between any two of    *)
(* these steps.  Closing and reopening belong to ConversationControl, the  *)
(* life of a draft to ReplyDrafts.                                         *)
(***************************************************************************)
EXTENDS Integers

CONSTANTS
    Turns,        \* the runs of the agent
    TurnKinds,    \* what starts each of them: sets of [Turns -> {"message", "prepare"}]
    LastVersion,  \* bound: highest inbound version
    LastStep      \* bound: tool calls in one turn

ASSUME TurnBounds ==
    /\ LastVersion \in Nat /\ LastStep \in Nat
    /\ TurnKinds \subseteq [Turns -> {"message", "prepare"}]

VARIABLES
    supervised,   \* the owner approves every reply of this artist
    chat,         \* the conversation: [version, mode, override]
    latest,       \* who wrote its latest message: "client" or "maia"
    kind,         \* what started each turn
    turn,         \* each turn: [pc, strict, drafting, seen, step]
    acted,        \* tool calls that changed something: <<turn, step>>
    delivered,    \* turns whose reply went to the client
    unapproved,   \* turns that had not passed their last look when approval was required
    stopped       \* turns between two checks when a person took over

turnVars == <<supervised, chat, latest, kind, turn, acted, delivered, unapproved, stopped>>

Conversation == [version : 0 .. LastVersion, mode : {"AI", "HUMAN"},
                 override : {"none", "DRAFT", "ASSISTED"}]

TurnInit ==
    /\ supervised \in BOOLEAN
    /\ chat = [version |-> 0, mode |-> "AI", override |-> "none"]
    /\ latest = "maia"
    /\ kind \in TurnKinds
    /\ turn = [t \in Turns |-> [pc |-> "idle", strict |-> FALSE, drafting |-> FALSE, seen |-> 0, step |-> 0]]
    /\ acted = {} /\ delivered = {} /\ unapproved = {} /\ stopped = {}

TurnTypeOK ==
    /\ supervised \in BOOLEAN /\ chat \in Conversation /\ latest \in {"client", "maia"}
    /\ kind \in TurnKinds
    /\ turn \in [Turns -> [pc : {"idle", "artist", "conversation", "model", "tool", "store", "check", "send", "done"},
                           strict : BOOLEAN, drafting : BOOLEAN, seen : 0 .. LastVersion, step : 0 .. LastStep]]
    /\ acted \subseteq Turns \X (1 .. LastStep)
    /\ delivered \subseteq Turns /\ unapproved \subseteq Turns /\ stopped \subseteq Turns

\* The mode replies are written in; supervision overrides what the conversation says.
EffectiveMode(strict, override) ==
    IF strict \/ override = "DRAFT" THEN "DRAFT" ELSE "ASSISTED"

At(t, pc) == turn[t].pc = pc
To(t, pc) == turn' = [turn EXCEPT ![t].pc = pc]

\* Turns that still have a check before them.
Unchecked(next) == {t \in Turns : next[t].pc \notin {"tool", "send"}}

-----------------------------------------------------------------------------
(* A message, or a request for a draft, starts a turn.                     *)

ClientMessage(t) ==
    /\ At(t, "idle") /\ kind[t] = "message" /\ chat.version < LastVersion
    /\ chat' = [chat EXCEPT !.version = @ + 1] /\ latest' = "client"
    /\ To(t, IF chat.mode = "AI" THEN "artist" ELSE "done")
    /\ UNCHANGED <<supervised, kind, acted, delivered, unapproved, stopped>>

PrepareDraft(t) ==
    /\ At(t, "idle") /\ kind[t] = "prepare" /\ latest = "client"
    /\ EffectiveMode(supervised, chat.override) = "DRAFT"
    /\ To(t, "artist")
    /\ UNCHANGED <<supervised, chat, latest, kind, acted, delivered, unapproved, stopped>>

\* The artist's settings are read first ...
ReadArtist(t) ==
    /\ At(t, "artist")
    /\ turn' = [turn EXCEPT ![t] = [@ EXCEPT !.pc = "conversation", !.strict = supervised]]
    /\ UNCHANGED <<supervised, chat, latest, kind, acted, delivered, unapproved, stopped>>

Eligible(t) == kind[t] = "prepare" \/ chat.mode = "AI"

\* ... and the conversation after them: its version is what the turn answers.
ReadConversation(t) ==
    /\ At(t, "conversation")
    /\ turn' = [turn EXCEPT ![t] = [@ EXCEPT !.pc = IF Eligible(t) THEN "model" ELSE "done",
                   !.drafting = kind[t] = "prepare" \/ EffectiveMode(turn[t].strict, chat.override) = "DRAFT",
                   !.seen = chat.version]]
    /\ UNCHANGED <<supervised, chat, latest, kind, acted, delivered, unapproved, stopped>>

-----------------------------------------------------------------------------
(* The model works: tools behind a guard, then a reply behind the same.    *)

\* Faulty variant: whoever answers now, the message decides.
SameMessage(t) == chat.version = turn[t].seen

\* The message is still the latest one and nobody took the conversation.
StillPermitted(t) == chat.version = turn[t].seen /\ Eligible(t)

\* A drafting turn has only the tools that read.
CallTool(t) ==
    /\ At(t, "model") /\ ~turn[t].drafting /\ turn[t].step < LastStep
    /\ turn' = [turn EXCEPT ![t] = [@ EXCEPT !.pc = IF StillPermitted(t) THEN "tool" ELSE "done",
                   !.step = turn[t].step + 1]]
    /\ UNCHANGED <<supervised, chat, latest, kind, acted, delivered, unapproved, stopped>>

\* A booking, a deposit request, a waiver link or a name.
Act(t) ==
    /\ At(t, "tool") /\ To(t, "model")
    /\ acted' = acted \cup {<<t, turn[t].step>>}
    /\ UNCHANGED <<supervised, chat, latest, kind, delivered, unapproved, stopped>>

EscalateToArtist(t) ==
    /\ At(t, "tool") /\ To(t, "model")
    /\ chat' = [chat EXCEPT !.mode = "HUMAN"] /\ latest' = "maia"
    /\ stopped' = Unchecked(turn')
    /\ UNCHANGED <<supervised, kind, acted, delivered, unapproved>>

ComposeReply(t) ==
    /\ At(t, "model") /\ To(t, IF StillPermitted(t) THEN "store" ELSE "done")
    /\ UNCHANGED <<supervised, chat, latest, kind, acted, delivered, unapproved, stopped>>

StoreDirectReply(t) ==
    /\ At(t, "store") /\ ~turn[t].drafting /\ To(t, "check") /\ latest' = "maia"
    /\ UNCHANGED <<supervised, chat, kind, acted, delivered, unapproved, stopped>>

\* A draft is filed under both locks, or refused; either way nothing is sent.
FileDraft(t) ==
    /\ At(t, "store") /\ turn[t].drafting /\ To(t, "done")
    /\ UNCHANGED <<supervised, chat, latest, kind, acted, delivered, unapproved, stopped>>

-----------------------------------------------------------------------------
(* The last look, and the provider.                                        *)

AutoReplyStillAllowed(t) ==
    EffectiveMode(supervised, chat.override) # "DRAFT" /\ chat.mode = "AI"

LookAgain(t) ==
    /\ At(t, "check") /\ To(t, IF AutoReplyStillAllowed(t) THEN "send" ELSE "done")
    /\ UNCHANGED <<supervised, chat, latest, kind, acted, delivered, unapproved, stopped>>

SendReply(t) ==
    /\ At(t, "send") /\ To(t, "done") /\ delivered' = delivered \cup {t}
    /\ UNCHANGED <<supervised, chat, latest, kind, acted, unapproved, stopped>>

\* The client has not consented, the model fails, or the process stops.
TurnEnds(t) ==
    /\ turn[t].pc \in {"model", "tool", "check", "send"} /\ To(t, "done")
    /\ UNCHANGED <<supervised, chat, latest, kind, acted, delivered, unapproved, stopped>>

TurnStep(t) ==
    \/ ClientMessage(t) \/ PrepareDraft(t) \/ ReadArtist(t) \/ ReadConversation(t) \/ CallTool(t)
    \/ Act(t) \/ EscalateToArtist(t) \/ ComposeReply(t) \/ StoreDirectReply(t) \/ FileDraft(t)
    \/ LookAgain(t) \/ SendReply(t) \/ TurnEnds(t)

-----------------------------------------------------------------------------
(* The people behind the receptionist.                                     *)

\* Turns that may not send by themselves once the mode becomes "next".
Held(next) ==
    IF next # "DRAFT" THEN {}
    ELSE IF EffectiveMode(supervised, chat.override) = "DRAFT" THEN unapproved
    ELSE {t \in Turns : ~At(t, "send")} \ delivered

\* The owner switches supervision: every reply under way is obsolete.
SetSupervision ==
    /\ chat.version < LastVersion
    /\ supervised' = ~supervised
    /\ chat' = [chat EXCEPT !.version = @ + 1]
    /\ unapproved' = Held(EffectiveMode(supervised', chat.override))
    /\ UNCHANGED <<latest, kind, turn, acted, delivered, stopped>>

\* Under supervision a conversation may only be set to drafts or to the default.
ChooseReplyMode(mode) ==
    /\ chat.version < LastVersion
    /\ supervised => mode # "ASSISTED"
    /\ chat' = [chat EXCEPT !.version = @ + 1, !.override = mode]
    /\ unapproved' = Held(EffectiveMode(supervised, mode))
    /\ UNCHANGED <<supervised, latest, kind, turn, acted, delivered, stopped>>

TakeOver ==
    /\ chat.mode = "AI" /\ chat' = [chat EXCEPT !.mode = "HUMAN"]
    /\ stopped' = Unchecked(turn)
    /\ UNCHANGED <<supervised, latest, kind, turn, acted, delivered, unapproved>>

ReturnToAi ==
    /\ chat.mode = "HUMAN" /\ chat' = [chat EXCEPT !.mode = "AI"] /\ stopped' = {}
    /\ UNCHANGED <<supervised, latest, kind, turn, acted, delivered, unapproved>>

TurnNext ==
    \/ \E t \in Turns : TurnStep(t)
    \/ SetSupervision \/ TakeOver \/ ReturnToAi
    \/ \E mode \in {"none", "DRAFT", "ASSISTED"} : ChooseReplyMode(mode)

TurnSpec == TurnInit /\ [][TurnNext]_turnVars

-----------------------------------------------------------------------------
(* Once replies need approval, only a turn that had already taken its last *)
(* look sends by itself: also when the switch fell between the turn's two  *)
(* reads, so that its version is current and its idea of the mode is not.  *)
ApprovalHolds == delivered \cap unapproved = {}

(* Once a person has the conversation, a turn finishes at most the one     *)
(* step it had been cleared for: no further tool runs and no reply goes.   *)
TakeoverStopsTurn ==
    [][/\ \A a \in acted' \ acted : a[1] \notin stopped
       /\ (delivered' \ delivered) \cap stopped = {}]_turnVars

\* What the run checks of a turn: it yields to approval and to a person.
TurnsSafe == []TurnTypeOK /\ []ApprovalHolds /\ TakeoverStopsTurn
=============================================================================
