-------------------------- MODULE DeliveryReceipts --------------------------
(***************************************************************************)
(* The delivery status of an outgoing text.  Twilio reports each step of a *)
(* text's way with a callback; the callbacks of one text arrive in any     *)
(* order, before or after the sender stored the provider's answer, and may *)
(* come twice.  A callback looks its message up without a lock, tries      *)
(* again for a bounded time, gives up, or applies its status in a          *)
(* transaction that locks the message.                                     *)
(*                                                                         *)
(* The three kinds of sender differ in what exists when the text leaves:   *)
(*   "reply"  a stored message whose id travels in the callback's address; *)
(*            the answer is merged beside the status (twilio/inbound)      *)
(*   "job"    a stored message, matched only by the provider's id, which   *)
(*            is stored with the status by overwriting the metadata        *)
(*   "staff"  no message until the provider has answered                   *)
(* A sender may stop at any point: it then takes no further step.  Error   *)
(* codes are left out; "delivered" and "failed" stand for the terminal     *)
(* statuses and "queued" for accepted and queued.                          *)
(***************************************************************************)
EXTENDS Naturals, FiniteSets

CONSTANTS Texts,      \* outgoing texts
          SenderKinds \* the assignments of kinds of sender to texts explored

ASSUME ReceiptBounds == SenderKinds \subseteq [Texts -> {"reply", "job", "staff"}]

VARIABLES kindOf,   \* the sender of each text
          sender,   \* where each sender stands
          reported,  \* the statuses the carrier has reported so far
          row,      \* the stored message: [there, sid, status]
          callback  \* where the callback of each status stands

rvars == <<kindOf, sender, reported, row, callback>>

StatusRank == [none |-> 0, queued |-> 1, sending |-> 2, sent |-> 3,
               delivered |-> 4, failed |-> 4]
Statuses == DOMAIN StatusRank \ {"none"}
Terminal == {"delivered", "failed"}

ReceiptInit ==
    /\ kindOf \in SenderKinds
    /\ sender = [t \in Texts |-> "ready"]
    /\ reported = [t \in Texts |-> {}]
    /\ row = [t \in Texts |->
                 [there |-> kindOf[t] # "staff", sid |-> FALSE, status |-> "none"]]
    /\ callback = [t \in Texts |-> [s \in Statuses |-> "none"]]

\* The request reaches Twilio: the text is queued and its first report is due.
SendText(t) ==
    /\ sender[t] = "ready"
    /\ sender' = [sender EXCEPT ![t] = "sent"]
    /\ reported' = [reported EXCEPT ![t] = {"queued"}]
    /\ callback' = [callback EXCEPT ![t]["queued"] = "due"]
    /\ UNCHANGED <<kindOf, row>>

\* The carrier reports one more step, possibly skipping some, until the last.
CarrierReports(t) ==
    /\ reported[t] # {} /\ reported[t] \cap Terminal = {}
    /\ \E s \in Statuses \ reported[t] :
           /\ \A old \in reported[t] : StatusRank[s] > StatusRank[old]
           /\ reported' = [reported EXCEPT ![t] = @ \cup {s}]
           /\ callback' = [callback EXCEPT ![t][s] = "due"]
    /\ UNCHANGED <<kindOf, sender, row>>

\* The sender stores the answer: the provider's id, and for a job or a manual
\* text the status of that answer; a reply keeps the status it has.
StoreAnswer(t) ==
    /\ sender[t] = "sent"
    /\ sender' = [sender EXCEPT ![t] = "done"]
    /\ row' = [row EXCEPT ![t] =
           [there |-> TRUE, sid |-> TRUE,
            status |-> IF kindOf[t] = "reply" THEN @.status ELSE "queued"]]
    /\ UNCHANGED <<kindOf, reported, callback>>

-----------------------------------------------------------------------------
\* By the message id of the address, unless another text took the message, or
\* by the provider's id.
Found(t) == row[t].there /\ (kindOf[t] = "reply" \/ row[t].sid)

FindMessage(t, s) ==
    /\ callback[t][s] = "due"
    /\ Found(t)
    /\ callback' = [callback EXCEPT ![t][s] = "found"]
    /\ UNCHANGED <<kindOf, sender, reported, row>>

\* The lookups are used up: acknowledged without effect.
GiveUpCallback(t, s) ==
    /\ callback[t][s] = "due"
    /\ ~Found(t)
    /\ callback' = [callback EXCEPT ![t][s] = "unmatched"]
    /\ UNCHANGED <<kindOf, sender, reported, row>>

\* Faulty variant: only a terminal status is final, ranks are not compared.
NotFinal(current, next) == current # next /\ current \notin Terminal
\* shouldApplyTwilioMessageStatus
MayApply(current, next) ==
    /\ current # next
    /\ current \notin Terminal
    /\ StatusRank[next] >= StatusRank[current]

ApplyStatus(t, s) ==
    /\ callback[t][s] = "found"
    /\ row' = IF MayApply(row[t].status, s)
              THEN [row EXCEPT ![t].status = s, ![t].sid = TRUE]
              ELSE row
    /\ callback' = [callback EXCEPT ![t][s] = "applied"]
    /\ UNCHANGED <<kindOf, sender, reported>>

\* Twilio did not hear the answer, or the transaction failed: the same again.
Redeliver(t, s) ==
    /\ callback[t][s] \in {"found", "applied", "unmatched"}
    /\ callback' = [callback EXCEPT ![t][s] = "due"]
    /\ UNCHANGED <<kindOf, sender, reported, row>>

ReceiptNext ==
    \E t \in Texts :
        \/ SendText(t) \/ CarrierReports(t) \/ StoreAnswer(t)
        \/ \E s \in Statuses : \/ FindMessage(t, s) \/ GiveUpCallback(t, s)
                               \/ ApplyStatus(t, s) \/ Redeliver(t, s)

ReceiptSpec == ReceiptInit /\ [][ReceiptNext]_rvars

-----------------------------------------------------------------------------
ReceiptTypeOK ==
    /\ \A t \in Texts : /\ reported[t] \subseteq Statuses
                        /\ row[t].status \in DOMAIN StatusRank
    /\ \A t \in Texts, s \in Statuses :
           callback[t][s] \in {"none", "due", "found", "applied", "unmatched"}

\* The status shown for a text never goes back and a terminal one stays, in
\* whatever order callbacks and the sender's own write arrive
\* (message-status/route.ts:78-108, twilio-message-status.ts:16-27).
NoStatusRegression ==
    [][\A t \in Texts :
          /\ StatusRank[row'[t].status] >= StatusRank[row[t].status]
          /\ row[t].status \in Terminal => row'[t].status = row[t].status]_rvars

\* The final report of a reply is not lost in the race with the sender's write:
\* once its callback was answered, the message shows how the text ended, even if
\* the sender has not stored the provider's id or died before
\* (message-status/route.ts:43-70 with the id of the address).
FinalReportRecorded ==
    \A t \in Texts, s \in Terminal :
        kindOf[t] = "reply" /\ callback[t][s] \in {"applied", "unmatched"}
            => row[t].status \in Terminal

\* What the run checks of receipts: none goes back, and the last is recorded.
ReceiptsSafe == []ReceiptTypeOK /\ []FinalReportRecorded /\ NoStatusRegression
=============================================================================
