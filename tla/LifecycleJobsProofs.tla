------------------------ MODULE LifecycleJobsProofs ------------------------
(***************************************************************************)
(* Proofs about the texts around an appointment, for any number of workers, *)
(* requests, revisions and changes.                                        *)
(***************************************************************************)
EXTENDS LifecycleJobs, FiniteSetTheorems, TLAPS

-----------------------------------------------------------------------------
(* Types.                                                                   *)

\* A worker that claims a job can always take a token that no other one has.
FreeToken(n) == n \in 1..(Cardinality(Senders) + 1) /\ \A x \in Senders : sender[x].token # n

LEMMA TokenLeft == \E n : FreeToken(n)
<1> DEFINE N == Cardinality(Senders)
           T == {n \in 1..(N + 1) : \E x \in Senders : sender[x].token = n}
           f == [x \in {y \in Senders : sender[y].token \in 1..(N + 1)} |-> sender[x].token]
           S == {y \in Senders : sender[y].token \in 1..(N + 1)}
<1>1. IsFiniteSet(Senders) /\ N \in Nat
  BY LifecycleBounds, FS_CardinalityType
<1>2. IsFiniteSet(S) /\ Cardinality(S) <= N /\ Cardinality(S) \in Nat
  BY <1>1, FS_Subset, FS_CardinalityType
<1>3. f \in Surjection(S, T)
  <2>1. \A x \in S : f[x] = sender[x].token /\ f[x] \in T
    OBVIOUS
  <2>2. f \in [S -> T]
    BY <2>1
  <2>3. \A n \in T : \E x \in S : f[x] = n
    BY <2>1
  <2> HIDE DEF f, S, T
  <2> QED BY <2>2, <2>3 DEF Surjection
<1>4. IsFiniteSet(T) /\ Cardinality(T) <= Cardinality(S) /\ Cardinality(T) \in Nat
  <2> HIDE DEF f, S, T
  <2> QED BY <1>2, <1>3, FS_Surjection, FS_CardinalityType
<1>5. Cardinality(1..(N + 1)) = N + 1
  BY <1>1, FS_Interval
<1>6. T # 1..(N + 1)
  <2> HIDE DEF f, S, T, N
  <2> QED BY <1>1, <1>2, <1>4, <1>5
<1>7. PICK n \in 1..(N + 1) : n \notin T
  BY <1>6
<1>8. ASSUME NEW x \in Senders PROVE sender[x].token # n
  BY <1>7
<1> QED BY <1>7, <1>8 DEF FreeToken

LEMMA KeysInclude ==
    /\ \A t \in Automations, n \in 1..LastRevision : KeyOf(t, n) \in Keys
    /\ <<"followup", 0>> \in Keys /\ <<"nudge", 0>> \in Keys
    /\ \A k \in Keys : k = <<k[1], k[2]>> /\ k[1] \in Automations /\ k[2] \in 0..LastRevision
    /\ \A k \in Keys : k[1] \in PerRevision => k = KeyOf(k[1], k[2]) /\ k[2] # 0
BY LifecycleBounds DEF Keys, KeyOf, Automations, PerRevision

\* A row of the types of a job, with a token exactly while it is leased.
RowTyped(j) == j \in JobRows /\ (j.token # 0 <=> j.status \in {"PROCESSING", "SENDING"})
RowsTyped == jobs \in [Keys -> JobRows] /\ \A k \in Keys : RowTyped(jobs[k])

LEMMA PendingTyped ==
    ASSUME NEW rev \in 0..LastRevision
    PROVE  /\ RowTyped(Pending(rev)) /\ Pending(rev).status = "PENDING" /\ Pending(rev).rev = rev
           /\ Pending(rev).result = FALSE /\ Pending(rev).token = 0
<1>1. Pending(rev) \in [status : {"PENDING"}, rev : {rev}, attempts : {0}, token : {0},
                        result : {FALSE}, code : {"none"}]
  BY DEF Pending, NoJob
<1>2. 0 \in 0..SendAttempts /\ 0 \in Nat /\ "PENDING" \in JobStates
  BY LifecycleBounds DEF JobStates, Undelivered, Due
<1>3. Pending(rev) \in JobRows
  BY <1>1, <1>2 DEF JobRows
<1>4. /\ Pending(rev).status = "PENDING" /\ Pending(rev).rev = rev
      /\ Pending(rev).result = FALSE /\ Pending(rev).token = 0
  BY DEF Pending, NoJob
<1> QED BY <1>3, <1>4 DEF RowTyped

LEMMA ReleasedTyped ==
    ASSUME NEW j \in JobRows, NEW s \in JobStates \ {"PROCESSING", "SENDING"}
    PROVE  /\ RowTyped(Released(j, s)) /\ Released(j, s).status = s /\ Released(j, s).token = 0
           /\ Released(j, s).rev = j.rev /\ Released(j, s).result = j.result
           /\ Released(j, s).attempts = j.attempts /\ Released(j, s).code = j.code
<1>1. /\ Released(j, s).status = s /\ Released(j, s).token = 0
      /\ Released(j, s).rev = j.rev /\ Released(j, s).result = j.result
      /\ Released(j, s).attempts = j.attempts /\ Released(j, s).code = j.code
  BY DEF Released, JobRows
<1>2. Released(j, s) \in JobRows
  BY DEF Released, JobRows
<1> QED BY <1>1, <1>2 DEF RowTyped

-----------------------------------------------------------------------------
(* The inductive invariant: its parts first.                                *)

\* Steps of a worker before and after its job has become SENDING.
PreSend  == {"check", "issue", "retime", "attach"}
PostSend == {"guard", "wire", "record", "finish", "fail"}

\* Every worker at work has a token of its own, and every leased job is that of the
\* worker with its token, which is at a step that fits the job's status.
Leases ==
    /\ \A w \in Senders : sender[w].token # 0 <=> sender[w].pc \notin {"off", "rest"}
    /\ \A v, w \in Senders : v # w /\ sender[v].token = sender[w].token => sender[v].token = 0
    /\ \A k \in Keys : jobs[k].token # 0 =>
         \E w \in Senders :
           /\ sender[w].token = jobs[k].token /\ sender[w].key = k
           /\ jobs[k].status = "PROCESSING" => sender[w].pc \in PreSend
           /\ jobs[k].status = "SENDING" => sender[w].pc \in PostSend

\* A worker that is handing a message over has its job to itself: it is still SENDING
\* under the worker's token, or the lease has run out and the outcome is left open.
Handover(w) ==
    sender[w].pc \in PostSend =>
      /\ \/ /\ jobs[sender[w].key].status = "SENDING"
            /\ jobs[sender[w].key].token = sender[w].token
         \/ jobs[sender[w].key].status = "DELIVERY_UNKNOWN"
      /\ jobs[sender[w].key].result = TRUE
      /\ \A v \in Senders : sender[v].pc \in PostSend /\ sender[v].key = sender[w].key => v = w

\* What the provider has accepted, the row can only record, or leave open.
SentRow(k) ==
    sends[k] > 0 =>
      /\ sends[k] = 1 /\ jobs[k].result = TRUE
      /\ jobs[k].status \in {"SENDING", "COMPLETED", "DELIVERY_UNKNOWN"}
      /\ \A w \in Senders : sender[w].key = k /\ sender[w].pc \in PostSend =>
           \/ sender[w].pc \in {"record", "finish"}
           \/ sender[w].pc = "fail" /\ sender[w].outcome = "DELIVERY_UNKNOWN"

\* A job that no longer applied when it became SENDING is neither sent nor retried: its
\* worker is at the last check, and what made it obsolete still holds.
ObsoleteRow(k) ==
    k \in obsolete =>
      /\ sends[k] = 0
      /\ \/ jobs[k].status \in {"SENDING", "DELIVERY_UNKNOWN"}
         \/ jobs[k].status = "CANCELLED" /\ jobs[k].code # "DISABLED"
      /\ \A w \in Senders : sender[w].key = k /\ sender[w].pc \in PostSend =>
           sender[w].pc = "guard" /\ Outdated(k)

\* The job, or a worker with its copy of it, has the message with the waiver's link.
Carries(w, k) ==
    sender[w].key = k /\ (sender[w].result = TRUE \/ sender[w].pc \in {"retime", "attach"} \cup PostSend)
Owner(k) == k[1] = "waiver" /\ (jobs[k].result = TRUE \/ \E w \in Senders : Carries(w, k))

\* Only one waiver job ever gets a message, and only with a link.
OneOwner ==
    form = "assigned" =>
      /\ \A i, k \in Keys : Owner(i) /\ Owner(k) => i = k
      /\ \A k \in Keys : Owner(k) => Issued

\* A job belongs to a revision the appointment has had, and a follow-up to its end.
Fits(k, j) ==
    /\ j.rev <= appt.rev
    /\ k[1] \in PerRevision => j.rev = k[2]
    /\ k[1] = "followup" => appt.status # "CONFIRMED"
RowFits(k) == jobs[k].status # "NONE" => Fits(k, jobs[k])

PlansFit ==
    \A r \in Requests : request[r].pc = "enqueue" =>
        /\ request[r].rev \in 1..appt.rev
        /\ request[r].todo \subseteq {"reminder", "waiver", "confirmation"}

\* A waiver that the artist's settings ask for is planned, or a request will plan it.
WillPlan(r) ==
    \/ request[r].pc = "plan"
    \/ request[r].pc = "enqueue" /\ request[r].rev = appt.rev /\ "waiver" \in request[r].todo
Covered ==
    ~missed /\ appt.status = "CONFIRMED" /\ "waiver" \in settings
      => jobs[KeyOf("waiver", appt.rev)].status # "NONE" \/ \E r \in Requests : WillPlan(r)

HandoverInv ==
    /\ Leases /\ OneOwner
    /\ \A w \in Senders : Handover(w)
    /\ \A k \in Keys : SentRow(k) /\ ObsoleteRow(k)
PlanInv == (\A k \in Keys : RowFits(k)) /\ PlansFit /\ Covered
LifecycleInv == LifecycleTypeOK /\ HandoverInv /\ PlanInv

-----------------------------------------------------------------------------
(* The types, part by part.                                                 *)

WorldTyped ==
    /\ appt \in [status : {"CONFIRMED", "COMPLETED", "CANCELLED"}, rev : 1..LastRevision]
    /\ uses \subseteq Automations /\ settings \subseteq uses
    /\ early \in BOOLEAN /\ reach \in BOOLEAN /\ human \in BOOLEAN
    /\ upsets \in 0..2 /\ form \in {"assigned", "template"}
PaperTyped == links \in [{"maia", "staff"} -> WaiverStates] /\ signed \in BOOLEAN
SendersTyped == sender \in [Senders -> SenderStates]
RequestsTyped == request \in [Requests -> RequestStates]
PastTyped == sends \in [Keys -> 0..2] /\ obsolete \subseteq Keys /\ missed \in BOOLEAN

LEMMA TypesByPart ==
    LifecycleTypeOK <=> /\ WorldTyped /\ PaperTyped /\ RowsTyped
                        /\ SendersTyped /\ RequestsTyped /\ PastTyped
<1>1. RowsTyped <=> /\ jobs \in [Keys -> JobRows]
                    /\ \A k \in Keys : jobs[k].token # 0 <=> jobs[k].status \in {"PROCESSING", "SENDING"}
  BY DEF RowsTyped, RowTyped
<1> QED BY <1>1 DEF LifecycleTypeOK, WorldTyped, PaperTyped, SendersTyped, RequestsTyped, PastTyped

-----------------------------------------------------------------------------
(* What happens to a job row without a worker.                              *)

\* The row stays, waits again or is withdrawn from a state before its delivery, or is
\* left open when its delivery has taken too long.
RowMoves(k, n) ==
    /\ RowTyped(n)
    /\ \/ n = jobs[k]
       \/ /\ \/ jobs[k].status \in {"NONE"} \cup Undelivered
             \/ jobs[k].status = "CANCELLED" /\ jobs[k].code = "DISABLED"
          /\ n.status \in Due \cup {"CANCELLED", "FAILED"} /\ n.token = 0
          /\ n.result = TRUE => jobs[k].result = TRUE
          /\ jobs[k].status = "NONE" \/ n.rev # jobs[k].rev => Fits(k, n)
       \/ /\ jobs[k].status = "SENDING" /\ n.status = "DELIVERY_UNKNOWN"
          /\ n.token = 0 /\ n.result = jobs[k].result /\ n.rev = jobs[k].rev
RowsMove(new) == new \in [Keys -> JobRows] /\ \A k \in Keys : RowMoves(k, new[k])

LEMMA RowsStay == ASSUME RowsTyped PROVE RowsMove(jobs)
BY DEF RowsMove, RowMoves, RowsTyped

LEMMA InsertedMoves ==
    ASSUME RowsTyped, NEW x \in Keys, NEW rev \in 0..LastRevision, Fits(x, Pending(rev))
    PROVE  RowsMove(Inserted(x, rev))
<1>1. /\ RowTyped(Pending(rev)) /\ Pending(rev).status = "PENDING" /\ Pending(rev).rev = rev
      /\ Pending(rev).result = FALSE /\ Pending(rev).token = 0
  BY PendingTyped
<1>2. CASE jobs[x].status = "NONE"
  <2>1. Inserted(x, rev) = [jobs EXCEPT ![x] = Pending(rev)]
    BY <1>2 DEF Inserted
  <2>2. Inserted(x, rev) \in [Keys -> JobRows]
    BY <2>1, <1>1 DEF RowsTyped, RowTyped
  <2>3. ASSUME NEW k \in Keys PROVE RowMoves(k, Inserted(x, rev)[k])
    <3>1. CASE k = x
      <4>1. Inserted(x, rev)[k] = Pending(rev)
        BY <2>1, <3>1 DEF RowsTyped
      <4>2. RowMoves(k, Pending(rev))
        BY <1>1, <1>2, <3>1 DEF RowMoves, Due
      <4> QED BY <4>1, <4>2
    <3>2. CASE k # x
      <4>1. Inserted(x, rev)[k] = jobs[k]
        BY <2>1, <3>2 DEF RowsTyped
      <4> QED BY <4>1, RowsStay DEF RowsMove, RowMoves
    <3> QED BY <3>1, <3>2
  <2> QED BY <2>2, <2>3 DEF RowsMove
<1>3. CASE jobs[x].status # "NONE"
  BY <1>3, RowsStay DEF Inserted
<1> QED BY <1>2, <1>3

LEMMA WithdrawnMoves ==
    ASSUME RowsTyped, NEW types
    PROVE  RowsMove(Withdrawn(types))
<1>1. ASSUME NEW k \in Keys PROVE Withdrawn(types)[k] \in JobRows /\ RowMoves(k, Withdrawn(types)[k])
  <2>1. jobs[k] \in JobRows /\ RowTyped(jobs[k])
    BY DEF RowsTyped
  <2>2. CASE k[1] \in types /\ jobs[k].status \in Undelivered
    <3> DEFINE n == [Released(jobs[k], "CANCELLED") EXCEPT !.code = "none"]
    <3>1. /\ RowTyped(Released(jobs[k], "CANCELLED")) /\ Released(jobs[k], "CANCELLED").status = "CANCELLED"
          /\ Released(jobs[k], "CANCELLED").token = 0
          /\ Released(jobs[k], "CANCELLED").rev = jobs[k].rev
          /\ Released(jobs[k], "CANCELLED").result = jobs[k].result
      BY <2>1, ReleasedTyped DEF JobStates
    <3>2. n \in JobRows /\ n.status = "CANCELLED" /\ n.token = 0 /\ n.rev = jobs[k].rev /\ n.result = jobs[k].result
      <4> DEFINE p == Released(jobs[k], "CANCELLED")
      <4> HIDE DEF p
      <4>1. [p EXCEPT !.code = "none"].status = p.status /\ [p EXCEPT !.code = "none"] \in JobRows
        BY <3>1 DEF RowTyped, JobRows, p
      <4>2. /\ [p EXCEPT !.code = "none"].token = p.token /\ [p EXCEPT !.code = "none"].rev = p.rev
            /\ [p EXCEPT !.code = "none"].result = p.result
        BY <3>1 DEF RowTyped, JobRows, p
      <4> QED BY <3>1, <4>1, <4>2 DEF p
    <3>3. Withdrawn(types)[k] = n
      BY <2>2 DEF Withdrawn
    <3>4. RowMoves(k, n)
      <4> HIDE DEF n
      <4>1. RowTyped(n)
        BY <3>2 DEF RowTyped
      <4> QED BY <2>2, <3>2, <4>1 DEF RowMoves, Undelivered, Due
    <3> QED BY <3>2, <3>3, <3>4
  <2>3. CASE ~(k[1] \in types /\ jobs[k].status \in Undelivered)
    <3>1. Withdrawn(types)[k] = jobs[k]
      BY <2>3 DEF Withdrawn
    <3> QED BY <2>1, <3>1 DEF RowMoves
  <2> QED BY <2>2, <2>3
<1>2. Withdrawn(types) \in [Keys -> JobRows]
  <2>1. Withdrawn(types) = [k \in Keys |-> Withdrawn(types)[k]]
    BY DEF Withdrawn
  <2> QED BY <1>1, <2>1
<1> QED BY <1>1, <1>2 DEF RowsMove

LEMMA SweptMoves ==
    ASSUME RowsTyped, NEW x \in Keys, jobs[x].status \in {"PROCESSING", "SENDING"}
    PROVE  RowsMove([jobs EXCEPT ![x] = SweptRow(jobs[x])])
<1> DEFINE s == IF jobs[x].status = "SENDING" THEN "DELIVERY_UNKNOWN"
                ELSE IF jobs[x].attempts < SendAttempts THEN "RETRY" ELSE "FAILED"
           n == Released(jobs[x], s)
<1>1. /\ RowTyped(n) /\ n.status = s /\ n.token = 0
      /\ n.rev = jobs[x].rev /\ n.result = jobs[x].result
  <2>1. jobs[x] \in JobRows
    BY DEF RowsTyped
  <2>2. s \in JobStates \ {"PROCESSING", "SENDING"}
    BY DEF JobStates, Undelivered, Due
  <2> HIDE DEF s
  <2> QED BY <2>1, <2>2, ReleasedTyped
<1>2. SweptRow(jobs[x]) = n
  BY DEF SweptRow
<1>3. RowMoves(x, n)
  <2> HIDE DEF n
  <2> QED BY <1>1 DEF RowMoves, Undelivered, Due
<1>4. [jobs EXCEPT ![x] = n] \in [Keys -> JobRows]
  <2> HIDE DEF n
  <2> QED BY <1>1 DEF RowsTyped, RowTyped
<1>5. ASSUME NEW k \in Keys PROVE RowMoves(k, [jobs EXCEPT ![x] = n][k])
  <2> HIDE DEF n
  <2>1. CASE k = x
    BY <1>3, <2>1 DEF RowsTyped
  <2>2. CASE k # x
    <3>1. [jobs EXCEPT ![x] = n][k] = jobs[k]
      BY <2>2 DEF RowsTyped
    <3> QED BY <3>1, RowsStay DEF RowsMove, RowMoves
  <2> QED BY <2>1, <2>2
<1> QED BY <1>2, <1>4, <1>5 DEF RowsMove

\* A waiver job that is enabled, or gets a new send time, waits for the current revision.
LEMMA RevivedTyped ==
    ASSUME NEW j \in JobRows, NEW rev \in 0..LastRevision
    PROVE  [j EXCEPT !.status = "PENDING", !.rev = rev, !.code = "none"] \in JobRows
<1>1. "PENDING" \in {"NONE"} \cup JobStates
  BY DEF JobStates, Undelivered, Due
<1> QED BY <1>1 DEF JobRows

LEMMA SyncedMoves ==
    ASSUME RowsTyped, WorldTyped, NEW enabled \in BOOLEAN
    PROVE  RowsMove(Synced(enabled))
<1> DEFINE x == KeyOf("waiver", appt.rev)
<1>1. /\ appt.rev \in 1..LastRevision /\ x \in Keys /\ x[1] = "waiver" /\ x[2] = appt.rev
  BY KeysInclude DEF WorldTyped, KeyOf, PerRevision, Automations
<1>2. CASE enabled = FALSE
  <2>1. Synced(enabled) = [k \in Keys |-> IF k[1] = "waiver" /\ jobs[k].status \in Due
                             THEN [jobs[k] EXCEPT !.status = "CANCELLED", !.code = "DISABLED"]
                             ELSE jobs[k]]
    BY <1>2 DEF Synced
  <2>2. ASSUME NEW k \in Keys PROVE Synced(enabled)[k] \in JobRows /\ RowMoves(k, Synced(enabled)[k])
    <3>1. jobs[k] \in JobRows /\ RowTyped(jobs[k])
      BY DEF RowsTyped
    <3>2. CASE k[1] = "waiver" /\ jobs[k].status \in Due
      <4> DEFINE n == [jobs[k] EXCEPT !.status = "CANCELLED", !.code = "DISABLED"]
      <4>1. /\ n.status = "CANCELLED" /\ n.token = jobs[k].token
            /\ n.rev = jobs[k].rev /\ n.result = jobs[k].result
        BY <3>1 DEF JobRows
      <4>2. n \in JobRows
        BY <3>1 DEF JobRows, JobStates
      <4>3. jobs[k].token = 0 /\ jobs[k].status # "NONE"
        BY <3>1, <3>2 DEF RowTyped, Due
      <4>4. Synced(enabled)[k] = n
        BY <2>1, <3>2
      <4>5. RowMoves(k, n)
        <5> HIDE DEF n
        <5>1. RowTyped(n)
          BY <4>1, <4>2, <4>3 DEF RowTyped
        <5> QED BY <3>2, <4>1, <4>3, <5>1 DEF RowMoves, Undelivered
      <4> QED BY <4>2, <4>4, <4>5
    <3>3. CASE ~(k[1] = "waiver" /\ jobs[k].status \in Due)
      <4>1. Synced(enabled)[k] = jobs[k]
        BY <2>1, <3>3
      <4> QED BY <3>1, <4>1 DEF RowMoves
    <3> QED BY <3>2, <3>3
  <2>3. Synced(enabled) \in [Keys -> JobRows]
    <3>1. Synced(enabled) = [k \in Keys |-> Synced(enabled)[k]]
      BY <2>1
    <3> QED BY <2>2, <3>1
  <2> QED BY <2>2, <2>3 DEF RowsMove
<1>3. CASE /\ enabled = TRUE /\ Synced(enabled) # jobs
  <2> DEFINE n == [jobs[x] EXCEPT !.status = "PENDING", !.rev = appt.rev, !.code = "none"]
  <2>1. /\ Synced(enabled) = [jobs EXCEPT ![x] = n] /\ appt.status = "CONFIRMED"
        /\ \/ jobs[x].status \in {"NONE"} \cup Due
           \/ jobs[x].status = "CANCELLED" /\ jobs[x].code = "DISABLED"
    <3> DEFINE may == /\ appt.status = "CONFIRMED" /\ reach
                      /\ \/ jobs[x].status \in {"NONE"} \cup Due
                         \/ jobs[x].status = "CANCELLED" /\ jobs[x].code = "DISABLED"
    <3>1. Synced(TRUE) = IF may THEN [jobs EXCEPT ![x] = n] ELSE jobs
      BY DEF Synced
    <3>2. may
      <4> HIDE DEF may, n, x
      <4> QED BY <1>3, <3>1
    <3>3. Synced(TRUE) = [jobs EXCEPT ![x] = n]
      <4> HIDE DEF may, n, x
      <4> QED BY <3>1, <3>2
    <3>4. Synced(enabled) = Synced(TRUE)
      BY <1>3
    <3>5. may
      BY <3>2
    <3> HIDE DEF n, x
    <3> QED BY <3>3, <3>4, <3>5
  <2>2. jobs[x] \in JobRows /\ RowTyped(jobs[x])
    BY <1>1 DEF RowsTyped
  <2>3. /\ n.status = "PENDING" /\ n.token = jobs[x].token /\ n.rev = appt.rev /\ n.result = jobs[x].result
    BY <2>2 DEF JobRows
  <2>4. n \in JobRows
    <3>1. appt.rev \in 0..LastRevision
      BY <1>1
    <3> HIDE DEF x
    <3> QED BY <2>2, <3>1, RevivedTyped
  <2>5. jobs[x].token = 0
    BY <2>1, <2>2 DEF RowTyped, Due
  <2>6. RowMoves(x, n)
    <3> HIDE DEF n, x
    <3>1. RowTyped(n)
      BY <2>3, <2>4, <2>5 DEF RowTyped
    <3>2. Fits(x, n)
      BY <1>1, <2>3 DEF Fits
    <3> QED BY <2>1, <2>3, <2>5, <3>1, <3>2 DEF RowMoves, Undelivered, Due
  <2>7. [jobs EXCEPT ![x] = n] \in [Keys -> JobRows]
    <3> HIDE DEF n, x
    <3> QED BY <2>4 DEF RowsTyped
  <2>8. ASSUME NEW k \in Keys PROVE RowMoves(k, [jobs EXCEPT ![x] = n][k])
    <3> HIDE DEF n, x
    <3>1. CASE k = x
      BY <2>6, <3>1 DEF RowsTyped
    <3>2. CASE k # x
      <4>1. [jobs EXCEPT ![x] = n][k] = jobs[k]
        BY <3>2 DEF RowsTyped
      <4> QED BY <4>1, RowsStay DEF RowsMove
    <3> QED BY <3>1, <3>2
  <2> QED BY <2>1, <2>7, <2>8 DEF RowsMove
<1>4. CASE Synced(enabled) = jobs
  BY <1>4, RowsStay
<1> QED BY <1>2, <1>3, <1>4

-----------------------------------------------------------------------------
(* Steps of requests, the client, the clock and the sweep.                  *)

\* An appointment never becomes confirmed again, its revisions only grow, and what
\* kind of form a waiver is, and that a link was made, stays.
WorldMoves ==
    /\ appt.rev <= appt'.rev
    /\ appt.status # "CONFIRMED" => appt'.status # "CONFIRMED"
    /\ appt.status = "CANCELLED" => appt'.status = "CANCELLED"
    /\ form' = form /\ (Issued => Issued')

\* What a step that is not a worker's keeps of the plans, and does to the rows.
OthersStep ==
    /\ WorldTyped' /\ PaperTyped' /\ RequestsTyped' /\ missed' \in BOOLEAN
    /\ PlansFit' /\ Covered'
    /\ WorldMoves /\ RowsMove(jobs')
    /\ UNCHANGED <<sender, sends, obsolete>>

Parts == /\ WorldTyped /\ PaperTyped /\ RowsTyped /\ SendersTyped /\ RequestsTyped /\ PastTyped
         /\ PlanInv
LEMMA PartsHold == LifecycleInv => Parts
BY TypesByPart DEF LifecycleInv, Parts

\* A planned row stays planned.
LEMMA RowsRemain ==
    ASSUME NEW k \in Keys, RowsMove(jobs'), jobs[k].status # "NONE"
    PROVE  jobs'[k].status # "NONE"
BY DEF RowsMove, RowMoves, Due

LEMMA PlansStay ==
    ASSUME Parts, WorldMoves, WorldTyped', NEW r \in Requests, NEW new \in RequestStates,
           request' = [request EXCEPT ![r] = new],
           new.pc = "enqueue" => /\ new.rev \in 1..appt'.rev
                                 /\ new.todo \subseteq {"reminder", "waiver", "confirmation"}
    PROVE  RequestsTyped' /\ PlansFit'
<1>1. RequestsTyped' /\ request'[r] = new
  BY DEF Parts, RequestsTyped
<1>2. ASSUME NEW q \in Requests, request'[q].pc = "enqueue"
      PROVE  request'[q].rev \in 1..appt'.rev /\ request'[q].todo \subseteq {"reminder", "waiver", "confirmation"}
  <2>1. CASE q = r
    BY <1>1, <1>2, <2>1
  <2>2. CASE q # r
    <3>1. request'[q] = request[q]
      BY <2>2 DEF Parts, RequestsTyped
    <3>2. request[q].rev \in 1..appt.rev /\ request[q].todo \subseteq {"reminder", "waiver", "confirmation"}
      BY <1>2, <3>1 DEF Parts, PlanInv, PlansFit
    <3>3. appt.rev \in Nat /\ appt'.rev \in Nat /\ appt.rev <= appt'.rev
      BY LifecycleBounds DEF Parts, WorldTyped, WorldMoves
    <3> QED BY <3>1, <3>2, <3>3
  <2> QED BY <2>1, <2>2
<1> QED BY <1>1, <1>2 DEF PlansFit

LEMMA CoverStays ==
    ASSUME Parts, RowsMove(jobs'), missed => missed',
           appt' = appt \/ appt'.status # "CONFIRMED",
           settings' = settings \/ "waiver" \notin settings',
           \A q \in Requests : WillPlan(q) => request'[q] = request[q]
    PROVE  Covered'
<1> SUFFICES ASSUME ~missed', appt'.status = "CONFIRMED", "waiver" \in settings'
             PROVE  \/ jobs'[KeyOf("waiver", appt'.rev)].status # "NONE"
                    \/ \E q \in Requests : WillPlan(q)'
  BY DEF Covered
<1>1. appt' = appt /\ settings' = settings /\ ~missed
  OBVIOUS
<1>2. KeyOf("waiver", appt.rev) \in Keys
  BY KeysInclude DEF Parts, WorldTyped, Automations
<1>3. CASE jobs[KeyOf("waiver", appt.rev)].status # "NONE"
  BY <1>1, <1>2, <1>3, RowsRemain
<1>4. CASE \E q \in Requests : WillPlan(q)
  <2>1. PICK q \in Requests : WillPlan(q)
    BY <1>4
  <2>2. request'[q] = request[q] /\ appt'.rev = appt.rev
    BY <1>1, <2>1
  <2>3. WillPlan(q)'
    BY <2>1, <2>2 DEF WillPlan
  <2> QED BY <2>3
<1> QED BY <1>1, <1>3, <1>4 DEF Parts, PlanInv, Covered

\* A request that neither plans nor schedules leaves the plans as they are.
LEMMA OrdinaryRequest ==
    ASSUME Parts, NEW r \in Requests, NEW new \in RequestStates,
           request[r].pc \notin {"plan", "enqueue"}, new.pc # "enqueue",
           request' = [request EXCEPT ![r] = new],
           WorldMoves, WorldTyped', appt' = appt \/ appt'.status # "CONFIRMED",
           PaperTyped', RowsMove(jobs'), settings' = settings,
           UNCHANGED <<sender, past>>
    PROVE  OthersStep
<1>1. \A q \in Requests : WillPlan(q) => request'[q] = request[q]
  BY DEF WillPlan, Parts, RequestsTyped
<1>2. missed' = missed /\ sends' = sends /\ obsolete' = obsolete
  BY DEF past
<1>3. Covered'
  BY <1>1, <1>2, CoverStays
<1>4. RequestsTyped' /\ PlansFit'
  BY PlansStay
<1> QED BY <1>2, <1>3, <1>4 DEF OthersStep, Parts, PastTyped

\* What a request becomes: another step, or done.
LEMMA RequestBecomes ==
    ASSUME RequestsTyped, NEW r \in Requests
    PROVE  /\ \A pc \in {"ready", "done", "plan", "withdraw", "close", "followup", "text", "nudge", "unnudge"} :
                Step(r, pc) => \E new \in RequestStates :
                    new.pc = pc /\ request' = [request EXCEPT ![r] = new]
           /\ Done(r) => \E new \in RequestStates :
                    new.pc = "done" /\ request' = [request EXCEPT ![r] = new]
<1>1. request[r] \in RequestStates
  BY DEF RequestsTyped
<1>2. ASSUME NEW pc \in {"ready", "done", "plan", "withdraw", "close", "followup", "text", "nudge", "unnudge"},
             Step(r, pc)
      PROVE  \E new \in RequestStates : new.pc = pc /\ request' = [request EXCEPT ![r] = new]
  <2>1. [request[r] EXCEPT !.pc = pc] \in RequestStates /\ [request[r] EXCEPT !.pc = pc].pc = pc
    BY <1>1 DEF RequestStates
  <2>2. request' = [request EXCEPT ![r] = [request[r] EXCEPT !.pc = pc]]
    BY <1>2 DEF Step
  <2> QED BY <2>1, <2>2
<1>3. ASSUME Done(r)
      PROVE  \E new \in RequestStates : new.pc = "done" /\ request' = [request EXCEPT ![r] = new]
  <2>1. [Ready EXCEPT !.pc = "done"] \in RequestStates /\ [Ready EXCEPT !.pc = "done"].pc = "done"
    BY LifecycleBounds DEF Ready, RequestStates
  <2> QED BY <1>3, <2>1 DEF Done
<1> QED BY <1>2, <1>3

LEMMA WorldStays ==
    ASSUME Parts, UNCHANGED world
    PROVE  WorldTyped' /\ appt' = appt /\ settings' = settings /\ form' = form
BY DEF world, Parts, WorldTyped

LEMMA LinkMoves ==
    ASSUME Parts, UNCHANGED world, PaperTyped',
           \A by \in {"maia", "staff"} : links[by] # "NONE" => links'[by] # "NONE"
    PROVE  WorldMoves
BY WorldStays, LifecycleBounds DEF WorldMoves, Issued, Parts, WorldTyped

LEMMA PaperStays ==
    ASSUME Parts, UNCHANGED paper
    PROVE  PaperTyped' /\ links' = links
BY DEF paper, Parts, PaperTyped

\* The appointment is cancelled or completed.
LEMMA AppointmentEnds ==
    ASSUME Parts, NEW r \in Requests, CancelAppointment(r) \/ CompleteAppointment(r)
    PROVE  OthersStep
<1>1. PICK s \in {"CANCELLED", "COMPLETED"} :
           appt' = [appt EXCEPT !.status = s] /\ (appt.status = "CANCELLED" => s = "CANCELLED")
  BY DEF CancelAppointment, CompleteAppointment
<1>2. appt' \in [status : {"CONFIRMED", "COMPLETED", "CANCELLED"}, rev : 1..LastRevision]
      /\ appt'.status = s /\ appt'.rev = appt.rev /\ appt.rev \in Nat
  BY <1>1, LifecycleBounds DEF Parts, WorldTyped
<1>3. /\ UNCHANGED <<uses, settings, early, reach, human, upsets, form, paper, jobs, sender, past>>
      /\ request[r].pc = "ready"
  BY DEF CancelAppointment, CompleteAppointment
<1>4. WorldTyped' /\ settings' = settings /\ links' = links /\ form' = form
  BY <1>2, <1>3 DEF Parts, WorldTyped, paper
<1>5. WorldMoves
  BY <1>1, <1>2, <1>4 DEF WorldMoves, Issued
<1>6. PaperTyped' /\ RowsMove(jobs')
  BY <1>3, RowsStay, PaperStays DEF Parts
<1>7. PICK pc \in {"withdraw", "close", "followup"} : Step(r, pc)
  BY DEF CancelAppointment, CompleteAppointment
<1>8. PICK new \in RequestStates : new.pc = pc /\ request' = [request EXCEPT ![r] = new]
  BY <1>7, RequestBecomes DEF Parts
<1> QED BY <1>2, <1>3, <1>4, <1>5, <1>6, <1>8, OrdinaryRequest

\* Jobs are withdrawn, and the follow-up is planned.
LEMMA JobsAreWithdrawn ==
    ASSUME Parts, NEW r \in Requests, Withdraw(r) \/ CloseJobs(r) \/ Unnudge(r)
    PROVE  OthersStep
<1>1. /\ UNCHANGED <<world, paper, sender, past>> /\ request[r].pc \in {"withdraw", "close", "unnudge"}
      /\ \E types : jobs' = Withdrawn(types)
      /\ Done(r) \/ Step(r, "followup")
  BY DEF Withdraw, CloseJobs, Unnudge
<1>2. RowsMove(jobs')
  BY <1>1, WithdrawnMoves DEF Parts
<1>3. PICK new \in RequestStates : new.pc \in {"done", "followup"} /\ request' = [request EXCEPT ![r] = new]
  BY <1>1, RequestBecomes DEF Parts
<1>4. WorldTyped' /\ appt' = appt /\ settings' = settings /\ PaperTyped' /\ links' = links
  BY <1>1, WorldStays, PaperStays
<1>5. WorldMoves
  BY <1>1, <1>4, LinkMoves
<1> QED BY <1>1, <1>2, <1>3, <1>4, <1>5, OrdinaryRequest

LEMMA FollowupPlanned ==
    ASSUME Parts, NEW r \in Requests, PlanFollowup(r) \/ StaffNudge(r)
    PROVE  OthersStep
<1>1. /\ UNCHANGED <<world, paper, sender, past>> /\ request[r].pc \in {"followup", "nudge"} /\ Done(r)
      /\ \/ jobs' = jobs
         \/ jobs' = Inserted(<<"followup", 0>>, appt.rev) /\ appt.status = "COMPLETED"
         \/ jobs' = Inserted(<<"nudge", 0>>, appt.rev)
  BY DEF PlanFollowup, StaffNudge
<1>2. appt.rev \in 0..LastRevision /\ appt.rev \in Nat
  BY LifecycleBounds DEF Parts, WorldTyped
<1>3. Pending(appt.rev).rev = appt.rev
  BY <1>2, PendingTyped
<1>4. /\ Fits(<<"nudge", 0>>, Pending(appt.rev))
      /\ appt.status = "COMPLETED" => Fits(<<"followup", 0>>, Pending(appt.rev))
  BY <1>2, <1>3 DEF Fits, PerRevision
<1>5. RowsMove(jobs')
  BY <1>1, <1>2, <1>4, RowsStay, InsertedMoves, KeysInclude DEF Parts
<1>6. PICK new \in RequestStates : new.pc = "done" /\ request' = [request EXCEPT ![r] = new]
  BY <1>1, RequestBecomes DEF Parts
<1>7. WorldTyped' /\ appt' = appt /\ settings' = settings /\ PaperTyped' /\ links' = links
  BY <1>1, WorldStays, PaperStays
<1>8. WorldMoves
  BY <1>1, <1>7, LinkMoves
<1> QED BY <1>1, <1>5, <1>6, <1>7, <1>8, OrdinaryRequest

\* Staff make, text and mark links, and the form provider reports a signature.
LEMMA LinksChange ==
    ASSUME Parts, NEW r \in Requests,
           StaffLink(r) \/ StaffText(r) \/ StaffMark(r) \/ ProviderSigns(r)
    PROVE  OthersStep
<1>1. /\ UNCHANGED <<world, signed, sender, past>> /\ request[r].pc \in {"ready", "text"}
      /\ jobs' = jobs \/ jobs' = Withdrawn({"nudge"})
      /\ \E by \in {"maia", "staff"}, s \in WaiverStates \ {"NONE"} : links' = [links EXCEPT ![by] = s]
  <2>1. CASE StaffLink(r)
    BY <2>1 DEF StaffLink, WaiverStates
  <2>2. CASE StaffText(r)
    BY <2>2 DEF StaffText, WaiverStates
  <2>3. CASE StaffMark(r)
    BY <2>3 DEF StaffMark, WaiverStates
  <2>4. CASE ProviderSigns(r)
    BY <2>4 DEF ProviderSigns, WaiverStates
  <2> QED BY <2>1, <2>2, <2>3, <2>4
<1>2. \E new \in RequestStates : new.pc \in {"done", "text", "nudge", "unnudge"} /\ request' = [request EXCEPT ![r] = new]
  <2>1. CASE Done(r) \/ Step(r, "text") \/ Step(r, "nudge")
    BY <2>1, RequestBecomes DEF Parts
  <2>2. CASE \E todo \in SUBSET Automations :
               request' = [request EXCEPT ![r].pc = "unnudge", ![r].todo = todo]
    <3>1. PICK todo \in SUBSET Automations : request' = [request EXCEPT ![r].pc = "unnudge", ![r].todo = todo]
      BY <2>2
    <3>2. request[r] \in RequestStates
      BY DEF Parts, RequestsTyped
    <3>3. /\ [request[r] EXCEPT !.pc = "unnudge", !.todo = todo] \in RequestStates
          /\ [request[r] EXCEPT !.pc = "unnudge", !.todo = todo].pc = "unnudge"
      BY <3>2 DEF RequestStates
    <3>4. request' = [request EXCEPT ![r] = [request[r] EXCEPT !.pc = "unnudge", !.todo = todo]]
      BY <3>1, <3>2 DEF Parts, RequestsTyped
    <3> QED BY <3>3, <3>4
  <2>3. {"nudge"} \in SUBSET Automations /\ PreCompletion \in SUBSET Automations
    BY DEF Automations, PreCompletion
  <2> QED BY <2>1, <2>2, <2>3 DEF StaffLink, StaffText, StaffMark, ProviderSigns
<1>3. PICK new \in RequestStates : new.pc # "enqueue" /\ request' = [request EXCEPT ![r] = new]
  BY <1>2
<1>4. PICK by \in {"maia", "staff"}, s \in WaiverStates \ {"NONE"} : links' = [links EXCEPT ![by] = s]
  BY <1>1
<1>5. PaperTyped' /\ \A b \in {"maia", "staff"} : links[b] # "NONE" => links'[b] # "NONE"
  BY <1>1, <1>4 DEF Parts, PaperTyped
<1>6. WorldTyped' /\ appt' = appt /\ settings' = settings /\ WorldMoves
  BY <1>1, <1>5, WorldStays, LinkMoves
<1>7. RowsMove(jobs')
  BY <1>1, RowsStay, WithdrawnMoves DEF Parts
<1> QED BY <1>1, <1>3, <1>5, <1>6, <1>7, OrdinaryRequest

\* A move plans again, for the new revision.
LEMMA MovePlans ==
    ASSUME Parts, NEW r \in Requests, Move(r)
    PROVE  OthersStep
<1>1. /\ appt' = [appt EXCEPT !.rev = @ + 1] /\ appt.rev < LastRevision /\ early' \in {FALSE, "waiver" \in uses}
      /\ UNCHANGED <<uses, settings, reach, human, upsets, form, paper, jobs, sender, past>>
      /\ Step(r, "plan") /\ request[r].pc = "ready"
  BY DEF Move
<1>2. /\ appt.rev \in 1..LastRevision /\ appt.rev \in Nat /\ LastRevision \in Nat
      /\ appt'.rev = appt.rev + 1 /\ appt'.status = appt.status
      /\ appt' \in [status : {"CONFIRMED", "COMPLETED", "CANCELLED"}, rev : 1..LastRevision]
  BY <1>1, LifecycleBounds DEF Parts, WorldTyped
<1>3. WorldTyped' /\ PaperTyped' /\ RowsMove(jobs') /\ links' = links
  <2>1. early' \in BOOLEAN
    <3> DEFINE b == "waiver" \in uses
    <3>1. b \in BOOLEAN
      OBVIOUS
    <3>2. early' = FALSE \/ early' = b
      BY <1>1
    <3> HIDE DEF b
    <3> QED BY <3>1, <3>2
  <2>2. WorldTyped'
    BY <1>1, <1>2, <2>1 DEF Parts, WorldTyped
  <2>3. PaperTyped' /\ links' = links
    BY <1>1, PaperStays
  <2> QED BY <1>1, <2>2, <2>3, RowsStay DEF Parts
<1>4. WorldMoves
  BY <1>1, <1>2, <1>3 DEF WorldMoves, Issued
<1>5. PICK new \in RequestStates : new.pc = "plan" /\ request' = [request EXCEPT ![r] = new]
  BY <1>1, RequestBecomes DEF Parts
<1>6. RequestsTyped' /\ PlansFit'
  BY <1>3, <1>4, <1>5, PlansStay
<1>7. Covered'
  <2>1. request'[r].pc = "plan"
    BY <1>5 DEF Parts, RequestsTyped
  <2> QED BY <2>1 DEF Covered, WillPlan
<1> QED BY <1>1, <1>3, <1>4, <1>6, <1>7 DEF OthersStep, past, Parts, PastTyped

\* What is planned is what the row says; what is scheduled is of that revision.
LEMMA PlanningStep ==
    ASSUME Parts, NEW r \in Requests, Plan(r)
    PROVE  OthersStep
<1>1. /\ request[r].pc = "plan" /\ missed' = (missed \/ ~reach)
      /\ UNCHANGED <<world, paper, jobs, sender, sends, obsolete>>
  BY DEF Plan
<1>2. /\ WorldTyped' /\ PaperTyped' /\ RowsMove(jobs') /\ appt' = appt /\ settings' = settings /\ links' = links
      /\ reach \in BOOLEAN /\ missed' \in BOOLEAN
  BY <1>1, WorldStays, PaperStays, RowsStay DEF Parts, WorldTyped, PastTyped
<1>3. WorldMoves
  BY <1>1, <1>2, LinkMoves
<1>4. CASE appt.status = "CONFIRMED" /\ reach
  <2> DEFINE todo == settings \cap {"reminder", "waiver", "confirmation"}
             new == [pc |-> "enqueue", rev |-> appt.rev, todo |-> todo]
  <2>1. request' = [request EXCEPT ![r] = new]
    BY <1>4 DEF Plan
  <2>2. new \in RequestStates /\ new.rev \in 1..appt'.rev /\ new.todo \subseteq {"reminder", "waiver", "confirmation"}
    <3>1. appt.rev \in 1..LastRevision /\ appt.rev \in Nat /\ LastRevision \in Nat /\ todo \subseteq Automations
      BY LifecycleBounds DEF Parts, WorldTyped, Automations
    <3> QED BY <1>2, <3>1 DEF RequestStates
  <2>3. RequestsTyped' /\ PlansFit'
    <3> HIDE DEF new
    <3> QED BY <1>2, <1>3, <2>1, <2>2, PlansStay
  <2>4. request'[r] = new
    BY <2>1 DEF Parts, RequestsTyped
  <2>5. Covered'
    <3>1. "waiver" \in settings' => WillPlan(r)'
      BY <1>2, <2>4 DEF WillPlan
    <3> QED BY <3>1 DEF Covered
  <2> QED BY <1>1, <1>2, <1>3, <2>3, <2>5 DEF OthersStep
<1>5. CASE ~(appt.status = "CONFIRMED" /\ reach)
  <2>1. PICK new \in RequestStates : new.pc = "done" /\ request' = [request EXCEPT ![r] = new]
    BY <1>5, RequestBecomes DEF Plan, Parts
  <2>2. RequestsTyped' /\ PlansFit'
    BY <1>2, <1>3, <2>1, PlansStay
  <2>3. Covered'
    BY <1>1, <1>2, <1>5 DEF Covered
  <2> QED BY <1>1, <1>2, <1>3, <2>2, <2>3 DEF OthersStep
<1> QED BY <1>4, <1>5

LEMMA NextTodoChosen ==
    ASSUME NEW todo, todo # {}, todo \subseteq {"reminder", "waiver", "confirmation"}
    PROVE  Next_Todo(todo) \in todo
<1>1. \E t \in todo : t = "reminder" \/ (t = "waiver" /\ "reminder" \notin todo) \/ todo = {"confirmation"}
  <2>1. CASE "reminder" \in todo
    BY <2>1
  <2>2. CASE "reminder" \notin todo /\ "waiver" \in todo
    BY <2>2
  <2>3. CASE "reminder" \notin todo /\ "waiver" \notin todo
    <3>1. todo = {"confirmation"}
      BY <2>3
    <3> QED BY <3>1
  <2> QED BY <2>1, <2>2, <2>3
<1> QED BY <1>1 DEF Next_Todo

LEMMA SchedulingStep ==
    ASSUME Parts, NEW r \in Requests, Enqueue(r)
    PROVE  OthersStep
<1>1. request[r].pc = "enqueue" /\ UNCHANGED <<world, paper, sender, past>>
  BY DEF Enqueue
<1>2. /\ request[r] \in RequestStates
      /\ request[r].rev \in 1..appt.rev /\ request[r].todo \subseteq {"reminder", "waiver", "confirmation"}
      /\ appt.rev \in Nat /\ LastRevision \in Nat /\ appt.rev <= LastRevision
  BY <1>1, LifecycleBounds DEF Parts, RequestsTyped, PlanInv, PlansFit, WorldTyped
<1>3. /\ WorldTyped' /\ PaperTyped' /\ appt' = appt /\ settings' = settings /\ links' = links
      /\ missed' = missed /\ missed \in BOOLEAN /\ sends' = sends /\ obsolete' = obsolete
  BY <1>1, WorldStays, PaperStays DEF past, Parts, PastTyped
<1>4. WorldMoves
  BY <1>1, <1>3, LinkMoves
<1>5. CASE request[r].todo = {}
  <2>1. PICK new \in RequestStates : new.pc = "done" /\ request' = [request EXCEPT ![r] = new]
    BY <1>5, RequestBecomes DEF Enqueue, Parts
  <2>2. RequestsTyped' /\ PlansFit' /\ jobs' = jobs /\ RowsMove(jobs')
    BY <1>3, <1>4, <1>5, <2>1, PlansStay, RowsStay DEF Enqueue, Parts
  <2>3. \A q \in Requests : WillPlan(q) => request'[q] = request[q]
    BY <1>1, <1>5, <2>1 DEF WillPlan, Parts, RequestsTyped
  <2>4. Covered'
    BY <1>3, <2>2, <2>3, CoverStays
  <2> QED BY <1>1, <1>3, <1>4, <2>2, <2>4 DEF OthersStep
<1>6. CASE request[r].todo # {}
  <2> DEFINE t == Next_Todo(request[r].todo)
             rev == request[r].rev
             x == KeyOf(t, rev)
             new == [request[r] EXCEPT !.todo = @ \ {t}]
  <2>1. t \in request[r].todo /\ t \in {"reminder", "waiver", "confirmation"}
    BY <1>2, <1>6, NextTodoChosen
  <2>2. rev \in 1..LastRevision /\ rev \in 0..LastRevision /\ rev <= appt.rev
    BY <1>2
  <2>3. x \in Keys /\ x[1] = t /\ (t \in PerRevision => x[2] = rev) /\ (t = "waiver" => x = KeyOf("waiver", rev))
    <3>1. t \in Automations
      BY <2>1 DEF Automations
    <3> HIDE DEF t, rev
    <3> QED BY <2>2, <3>1, KeysInclude DEF KeyOf
  <2>4. jobs' = Inserted(x, rev) /\ request' = [request EXCEPT ![r].todo = @ \ {t}]
    BY <1>6 DEF Enqueue
  <2>5. Fits(x, Pending(rev))
    <3>1. Pending(rev).rev = rev
      BY <2>2, PendingTyped
    <3>2. x[1] # "followup"
      BY <2>1, <2>3
    <3> HIDE DEF x, rev
    <3> QED BY <2>1, <2>2, <2>3, <3>1, <3>2 DEF Fits
  <2>6. RowsMove(jobs')
    <3> HIDE DEF x, rev
    <3> QED BY <2>2, <2>3, <2>4, <2>5, InsertedMoves DEF Parts
  <2>7. /\ new \in RequestStates /\ new.pc = "enqueue" /\ new.rev = rev /\ new.todo = request[r].todo \ {t}
    <3> HIDE DEF t
    <3> QED BY <1>1, <1>2 DEF RequestStates
  <2>8. request' = [request EXCEPT ![r] = new] /\ request'[r] = new
    BY <2>4 DEF Parts, RequestsTyped
  <2>9. RequestsTyped' /\ PlansFit'
    <3>1. new.rev \in 1..appt'.rev /\ new.todo \subseteq {"reminder", "waiver", "confirmation"}
      BY <1>2, <1>3, <2>7
    <3> HIDE DEF new
    <3> QED BY <1>3, <1>4, <2>7, <2>8, <3>1, PlansStay
  <2>10. Covered'
    <3> SUFFICES ASSUME ~missed', appt'.status = "CONFIRMED", "waiver" \in settings'
                 PROVE  \/ jobs'[KeyOf("waiver", appt'.rev)].status # "NONE"
                        \/ \E q \in Requests : WillPlan(q)'
      BY DEF Covered
    <3>1. CASE jobs[KeyOf("waiver", appt.rev)].status # "NONE"
      <4>1. KeyOf("waiver", appt.rev) \in Keys
        BY KeysInclude DEF Parts, WorldTyped, Automations
      <4> QED BY <1>3, <2>6, <3>1, <4>1, RowsRemain
    <3>2. CASE \E q \in Requests : WillPlan(q)
      <4>1. PICK q \in Requests : WillPlan(q)
        BY <3>2
      <4>2. CASE q # r
        <5>1. request'[q] = request[q]
          BY <2>8, <4>2 DEF Parts, RequestsTyped
        <5>2. WillPlan(q)'
          BY <1>3, <4>1, <5>1 DEF WillPlan
        <5> QED BY <5>2
      <4>3. CASE q = r /\ t # "waiver"
        <5>1. rev = appt.rev /\ "waiver" \in request[r].todo
          BY <1>1, <4>1, <4>3 DEF WillPlan
        <5>2. request'[r].pc = "enqueue" /\ request'[r].rev = appt'.rev /\ "waiver" \in request'[r].todo
          <6> HIDE DEF t, new, rev
          <6> QED BY <1>3, <2>7, <2>8, <4>3, <5>1
        <5> QED BY <5>2 DEF WillPlan
      <4>4. CASE q = r /\ t = "waiver"
        <5>1. rev = appt.rev
          BY <1>1, <4>1, <4>4 DEF WillPlan
        <5>2. x = KeyOf("waiver", appt'.rev)
          <6> HIDE DEF x, t, rev
          <6> QED BY <1>3, <2>3, <4>4, <5>1
        <5>3. jobs'[x].status # "NONE"
          <6> HIDE DEF x, rev
          <6>1. CASE jobs[x].status # "NONE"
            BY <2>3, <2>6, <6>1, RowsRemain
          <6>2. CASE jobs[x].status = "NONE"
            <7>1. jobs' = [jobs EXCEPT ![x] = Pending(rev)] /\ Pending(rev).status = "PENDING"
              BY <2>2, <2>4, <6>2, PendingTyped DEF Inserted
            <7>2. jobs'[x] = Pending(rev)
              BY <2>3, <7>1 DEF Parts, RowsTyped
            <7> QED BY <7>1, <7>2
          <6> QED BY <6>1, <6>2
        <5> QED BY <5>2, <5>3
      <4> QED BY <4>2, <4>3, <4>4
    <3> QED BY <1>3, <3>1, <3>2 DEF Parts, PlanInv, Covered
  <2> QED BY <1>1, <1>3, <1>4, <2>6, <2>9, <2>10 DEF OthersStep
<1> QED BY <1>5, <1>6

LEMMA RequestDies ==
    ASSUME Parts, NEW r \in Requests, RequestStops(r)
    PROVE  OthersStep
<1>1. missed' = TRUE /\ Done(r) /\ UNCHANGED <<world, paper, jobs, sender, sends, obsolete>>
  BY DEF RequestStops
<1>2. /\ WorldTyped' /\ PaperTyped' /\ RowsMove(jobs') /\ appt' = appt /\ links' = links
  BY <1>1, WorldStays, PaperStays, RowsStay DEF Parts
<1>3. WorldMoves
  BY <1>1, <1>2, LinkMoves
<1>4. PICK new \in RequestStates : new.pc = "done" /\ request' = [request EXCEPT ![r] = new]
  BY <1>1, RequestBecomes DEF Parts
<1>5. RequestsTyped' /\ PlansFit'
  BY <1>2, <1>3, <1>4, PlansStay
<1> QED BY <1>1, <1>2, <1>3, <1>5 DEF OthersStep, Covered

\* A step that leaves the requests as they are.
LEMMA RequestsStay ==
    ASSUME Parts, WorldMoves, WorldTyped', request' = request
    PROVE  RequestsTyped' /\ PlansFit'
<1>1. appt.rev \in Nat /\ appt'.rev \in Nat /\ appt.rev <= appt'.rev
  BY LifecycleBounds DEF Parts, WorldTyped, WorldMoves
<1>2. ASSUME NEW q \in Requests, request'[q].pc = "enqueue"
      PROVE  request'[q].rev \in 1..appt'.rev /\ request'[q].todo \subseteq {"reminder", "waiver", "confirmation"}
  <2>1. request[q].rev \in 1..appt.rev /\ request[q].todo \subseteq {"reminder", "waiver", "confirmation"}
    BY <1>2 DEF Parts, PlanInv, PlansFit
  <2> QED BY <1>1, <2>1
<1> QED BY <1>2 DEF PlansFit, Parts, RequestsTyped

\* Saving the settings plans the waiver job that they ask for in the same transaction.
LEMMA SettingsSaved ==
    ASSUME Parts, SaveSettings
    PROVE  OthersStep
<1>1. PICK s \in SUBSET uses :
        /\ settings' = s
        /\ jobs' = IF ("waiver" \in s) # ("waiver" \in settings) \/ early' # early
                   THEN Synced("waiver" \in s) ELSE jobs
  BY DEF SaveSettings
<1>2. /\ upsets > 0 /\ upsets' = upsets - 1 /\ early' \in {FALSE, "waiver" \in uses}
      /\ missed' = (missed \/ ~reach)
      /\ UNCHANGED <<appt, uses, reach, human, form, paper, sender, request, sends, obsolete>>
  BY DEF SaveSettings
<1>3. WorldTyped' /\ links' = links /\ PaperTyped'
  <2>1. early' \in BOOLEAN
    <3> DEFINE b == "waiver" \in uses
    <3>1. b \in BOOLEAN
      OBVIOUS
    <3>2. early' = FALSE \/ early' = b
      BY <1>2
    <3> HIDE DEF b
    <3> QED BY <3>1, <3>2
  <2>2. upsets' \in 0..2
    BY <1>2 DEF Parts, WorldTyped
  <2>3. WorldTyped'
    BY <1>1, <1>2, <2>1, <2>2 DEF Parts, WorldTyped
  <2>4. PaperTyped' /\ links' = links
    BY <1>2, PaperStays
  <2> QED BY <2>3, <2>4
<1>4. WorldMoves
  BY <1>2, <1>3, LifecycleBounds DEF WorldMoves, Issued, Parts, WorldTyped
<1>5. RowsMove(jobs')
  <2>1. CASE jobs' = jobs
    BY <2>1, RowsStay DEF Parts
  <2>2. CASE jobs' = Synced("waiver" \in s)
    <3>1. ("waiver" \in s) \in BOOLEAN
      OBVIOUS
    <3> QED BY <2>2, <3>1, SyncedMoves DEF Parts
  <2> QED BY <1>1, <2>1, <2>2
<1>6. RequestsTyped' /\ PlansFit'
  BY <1>2, <1>3, <1>4, RequestsStay
<1>7. Covered'
  <2> SUFFICES ASSUME ~missed', appt'.status = "CONFIRMED", "waiver" \in settings'
               PROVE  \/ jobs'[KeyOf("waiver", appt'.rev)].status # "NONE"
                      \/ \E q \in Requests : WillPlan(q)'
    BY DEF Covered
  <2>1. ~missed /\ reach /\ appt' = appt /\ appt.status = "CONFIRMED" /\ "waiver" \in s
    BY <1>1, <1>2 DEF Parts, PastTyped, WorldTyped
  <2>2. KeyOf("waiver", appt.rev) \in Keys
    BY KeysInclude DEF Parts, WorldTyped, Automations
  <2>3. CASE jobs[KeyOf("waiver", appt.rev)].status # "NONE"
    BY <1>5, <2>1, <2>2, <2>3, RowsRemain
  <2>4. CASE "waiver" \notin settings /\ jobs[KeyOf("waiver", appt.rev)].status = "NONE"
    <3> DEFINE x == KeyOf("waiver", appt.rev)
               n == [jobs[x] EXCEPT !.status = "PENDING", !.rev = appt.rev, !.code = "none"]
    <3>1. jobs' = Synced(TRUE)
      <4>1. ("waiver" \in s) = TRUE /\ ("waiver" \in settings) = FALSE
        BY <2>1, <2>4
      <4> QED BY <1>1, <4>1
    <3>2. Synced(TRUE) = [jobs EXCEPT ![x] = n]
      BY <2>1, <2>4 DEF Synced
    <3>3. jobs[x] \in JobRows
      BY <2>2 DEF Parts, RowsTyped
    <3>4. n.status = "PENDING"
      <4> HIDE DEF x
      <4> QED BY <3>3 DEF JobRows
    <3>5. jobs'[x] = n
      <4> HIDE DEF n
      <4> QED BY <2>2, <3>1, <3>2 DEF Parts, RowsTyped
    <3> QED BY <2>1, <3>4, <3>5
  <2>5. CASE "waiver" \in settings /\ \E q \in Requests : WillPlan(q)
    <3>1. PICK q \in Requests : WillPlan(q)
      BY <2>5
    <3>2. WillPlan(q)'
      BY <1>2, <2>1, <3>1 DEF WillPlan
    <3> QED BY <3>2
  <2> QED BY <2>1, <2>3, <2>4, <2>5 DEF Parts, PlanInv, Covered
<1>8. missed' \in BOOLEAN
  BY <1>2 DEF Parts, WorldTyped, PastTyped
<1> QED BY <1>2, <1>3, <1>4, <1>5, <1>6, <1>7, <1>8 DEF OthersStep

LEMMA ClockAndClient ==
    ASSUME Parts, WorldChanges \/ ClientSigns \/ Sweep \/ UNCHANGED lifecycleVars
    PROVE  OthersStep
<1>1. /\ UNCHANGED <<appt, uses, settings, form, sender, request, past>>
      /\ missed' = missed /\ sends' = sends /\ obsolete' = obsolete
  BY DEF WorldChanges, ClientSigns, Sweep, lifecycleVars, world, past
<1>2. WorldTyped'
  <2>1. CASE WorldChanges
    <3>1. upsets' \in 0..2
      BY <2>1 DEF WorldChanges, Parts, WorldTyped
    <3>2. early' \in BOOLEAN /\ reach' \in BOOLEAN /\ human' \in BOOLEAN
      BY <2>1 DEF WorldChanges, Parts, WorldTyped
    <3> QED BY <2>1, <3>1, <3>2 DEF WorldChanges, Parts, WorldTyped
  <2>2. CASE ClientSigns \/ Sweep \/ UNCHANGED lifecycleVars
    BY <2>2, WorldStays DEF ClientSigns, Sweep, lifecycleVars
  <2> QED BY <2>1, <2>2
<1>3. PaperTyped' /\ \A by \in {"maia", "staff"} : links[by] # "NONE" => links'[by] # "NONE"
  <2>1. CASE ClientSigns
    <3>1. CASE \E by \in {"maia", "staff"} : links' = [links EXCEPT ![by] = "COMPLETED"] /\ UNCHANGED signed
      BY <3>1 DEF Parts, PaperTyped, WaiverStates
    <3>2. CASE signed' = TRUE /\ UNCHANGED links
      BY <3>2 DEF Parts, PaperTyped
    <3> QED BY <2>1, <3>1, <3>2 DEF ClientSigns
  <2>2. CASE WorldChanges \/ Sweep \/ UNCHANGED lifecycleVars
    BY <2>2, PaperStays DEF WorldChanges, Sweep, lifecycleVars
  <2> QED BY <2>1, <2>2
<1>4. WorldMoves
  BY <1>1, <1>3, LifecycleBounds DEF WorldMoves, Issued, Parts, WorldTyped
<1>5. RowsMove(jobs')
  <2>1. CASE ClientSigns
    BY <2>1, RowsStay, WithdrawnMoves DEF ClientSigns, Parts
  <2>2. CASE Sweep
    BY <2>2, SweptMoves DEF Sweep, Parts
  <2>3. CASE WorldChanges \/ UNCHANGED lifecycleVars
    BY <2>3, RowsStay DEF WorldChanges, lifecycleVars, Parts
  <2> QED BY <2>1, <2>2, <2>3
<1>6. RequestsTyped' /\ PlansFit'
  BY <1>1, <1>2, <1>4, RequestsStay
<1>7. Covered'
  BY <1>1, <1>5, CoverStays
<1> QED BY <1>1, <1>2, <1>3, <1>4, <1>5, <1>6, <1>7 DEF OthersStep, Parts, PastTyped

LEMMA OthersMove ==
    ASSUME LifecycleInv, [LifecycleNext]_lifecycleVars, \A w \in Senders : ~SenderStep(w)
    PROVE  OthersStep
<1>1. Parts
  BY PartsHold
<1>2. CASE \E r \in Requests : RequestStep(r)
  BY <1>1, <1>2, MovePlans, PlanningStep, SchedulingStep, AppointmentEnds, JobsAreWithdrawn,
     FollowupPlanned, LinksChange, RequestDies DEF RequestStep
<1>3. CASE SaveSettings
  BY <1>1, <1>3, SettingsSaved
<1>4. CASE WorldChanges \/ ClientSigns \/ Sweep \/ UNCHANGED lifecycleVars
  BY <1>1, <1>4, ClockAndClient
<1> QED BY <1>2, <1>3, <1>4 DEF LifecycleNext

-----------------------------------------------------------------------------
(* Steps that are not a worker's keep what the workers rely on.             *)

LEMMA OthersKeepHandover ==
    ASSUME LifecycleInv, OthersStep
    PROVE  HandoverInv'
<1>1. /\ sender' = sender /\ sends' = sends /\ obsolete' = obsolete
      /\ WorldMoves /\ \A k \in Keys : RowMoves(k, jobs'[k])
      /\ HandoverInv /\ Parts
  BY PartsHold DEF OthersStep, RowsMove, LifecycleInv
<1>2. \A k \in Keys : /\ RowTyped(jobs[k]) /\ RowTyped(jobs'[k])
  BY <1>1 DEF RowMoves, Parts, RowsTyped
<1>3. \A w \in Senders : sender[w].key \in Keys
  BY <1>1 DEF Parts, SendersTyped, SenderStates
<1>4. Leases'
  <2>1. \A k \in Keys : jobs'[k].token # 0 => jobs'[k] = jobs[k]
    BY <1>1 DEF RowMoves
  <2> QED BY <1>1, <2>1 DEF HandoverInv, Leases
<1>5. ASSUME NEW w \in Senders PROVE Handover(w)'
  <2> DEFINE k == sender[w].key
  <2>1. CASE sender[w].pc \in PostSend
    <3>1. RowMoves(k, jobs'[k]) /\ Handover(w)
      BY <1>1, <1>3 DEF HandoverInv
    <3>2. /\ \/ jobs'[k] = jobs[k]
             \/ jobs'[k].status = "DELIVERY_UNKNOWN" /\ jobs'[k].result = jobs[k].result
      <4>1. jobs[k].status \in {"SENDING", "DELIVERY_UNKNOWN"}
        BY <2>1, <3>1 DEF Handover
      <4> HIDE DEF k
      <4> QED BY <3>1, <4>1 DEF RowMoves, Undelivered, Due
    <3> QED BY <1>1, <2>1, <3>1, <3>2 DEF Handover
  <2>2. CASE sender[w].pc \notin PostSend
    BY <1>1, <2>2 DEF Handover
  <2> QED BY <2>1, <2>2
<1>6. ASSUME NEW k \in Keys PROVE SentRow(k)'
  <2>1. SentRow(k) /\ RowMoves(k, jobs'[k])
    BY <1>1 DEF HandoverInv
  <2>2. CASE sends[k] > 0
    <3>1. /\ jobs'[k].result = TRUE /\ jobs'[k].status \in {"SENDING", "COMPLETED", "DELIVERY_UNKNOWN"}
      BY <2>1, <2>2 DEF SentRow, RowMoves, Undelivered, Due
    <3> QED BY <1>1, <2>1, <2>2, <3>1 DEF SentRow
  <2>3. CASE ~(sends[k] > 0)
    BY <1>1, <2>3 DEF SentRow
  <2> QED BY <2>2, <2>3
<1>7. ASSUME NEW k \in Keys PROVE ObsoleteRow(k)'
  <2>1. ObsoleteRow(k) /\ RowMoves(k, jobs'[k]) /\ RowFits(k)
    BY <1>1 DEF HandoverInv, Parts, PlanInv
  <2>2. CASE k \in obsolete
    <3>1. \/ jobs'[k] = jobs[k]
          \/ jobs'[k].status = "DELIVERY_UNKNOWN" /\ jobs'[k].rev = jobs[k].rev
      BY <2>1, <2>2 DEF ObsoleteRow, RowMoves, Undelivered, Due
    <3>2. ASSUME NEW w \in Senders, sender[w].key = k, sender[w].pc \in PostSend
          PROVE  sender[w].pc = "guard" /\ Outdated(k)'
      <4>1. sender[w].pc = "guard" /\ Outdated(k)
        BY <2>1, <2>2, <3>2 DEF ObsoleteRow
      <4>2. jobs'[k].rev = jobs[k].rev /\ jobs[k].status # "NONE"
        BY <2>1, <2>2, <3>1 DEF ObsoleteRow
      <4>3. /\ jobs[k].rev \in Nat /\ appt.rev \in Nat /\ appt'.rev \in Nat /\ appt.rev <= appt'.rev
            /\ jobs[k].rev <= appt.rev /\ k[1] \in Automations
            /\ k[1] = "followup" => appt.status # "CONFIRMED"
            /\ appt.status # "CONFIRMED" => appt'.status # "CONFIRMED"
            /\ appt.status = "CANCELLED" => appt'.status = "CANCELLED"
            /\ appt.status \in {"CONFIRMED", "COMPLETED", "CANCELLED"}
        <5>1. appt.rev \in Nat /\ appt'.rev \in Nat /\ appt.status \in {"CONFIRMED", "COMPLETED", "CANCELLED"}
          BY <1>1 DEF OthersStep, Parts, WorldTyped
        <5>2. jobs[k].rev \in Nat
          BY <1>2, LifecycleBounds DEF RowTyped, JobRows
        <5>3. k[1] \in Automations
          BY KeysInclude
        <5>4. jobs[k].rev <= appt.rev /\ (k[1] = "followup" => appt.status # "CONFIRMED")
          BY <2>1, <4>2 DEF RowFits, Fits
        <5>5. /\ appt.rev <= appt'.rev
              /\ appt.status # "CONFIRMED" => appt'.status # "CONFIRMED"
              /\ appt.status = "CANCELLED" => appt'.status = "CANCELLED"
          BY <1>1 DEF WorldMoves
        <5> QED BY <5>1, <5>2, <5>3, <5>4, <5>5
      <4>4. CASE k[1] \in {"reminder", "waiver", "confirmation"}
        <5>1. appt.status # "CONFIRMED" \/ appt.rev # jobs[k].rev
          BY <4>1, <4>4 DEF Outdated
        <5>2. appt'.status # "CONFIRMED" \/ appt'.rev # jobs'[k].rev
          BY <4>2, <4>3, <5>1
        <5> QED BY <4>1, <4>4, <5>2 DEF Outdated
      <4>5. CASE k[1] = "followup"
        <5>1. appt'.status = "CANCELLED"
          BY <4>1, <4>3, <4>5 DEF Outdated
        <5> QED BY <4>1, <4>5, <5>1 DEF Outdated
      <4>6. CASE k[1] = "nudge"
        BY <4>1, <4>6 DEF Outdated
      <4> QED BY <4>3, <4>4, <4>5, <4>6 DEF Automations
    <3>3. \/ jobs'[k].status \in {"SENDING", "DELIVERY_UNKNOWN"}
          \/ jobs'[k].status = "CANCELLED" /\ jobs'[k].code # "DISABLED"
      BY <2>1, <2>2, <3>1 DEF ObsoleteRow
    <3> QED BY <1>1, <2>1, <2>2, <3>2, <3>3 DEF ObsoleteRow
  <2>3. CASE k \notin obsolete
    BY <1>1, <2>3 DEF ObsoleteRow
  <2> QED BY <2>2, <2>3
<1>8. OneOwner'
  <2>1. \A k \in Keys : Owner(k)' => Owner(k)
    <3>1. \A k \in Keys : jobs'[k].result = TRUE => jobs[k].result = TRUE
      BY <1>1 DEF RowMoves
    <3> QED BY <1>1, <3>1 DEF Owner, Carries
  <2>2. (form' = form) /\ (Issued => Issued')
    BY <1>1 DEF WorldMoves
  <2> QED BY <1>1, <2>1, <2>2 DEF HandoverInv, OneOwner
<1> QED BY <1>4, <1>5, <1>6, <1>7, <1>8 DEF HandoverInv

LEMMA OthersKeepRows ==
    ASSUME LifecycleInv, OthersStep, NEW k \in Keys
    PROVE  RowFits(k)'
<1>1. RowFits(k) /\ RowMoves(k, jobs'[k]) /\ WorldMoves /\ Parts
  BY PartsHold DEF OthersStep, RowsMove, LifecycleInv, PlanInv
<1>2. /\ appt.rev \in Nat /\ appt'.rev \in Nat /\ appt.rev <= appt'.rev
      /\ appt.status # "CONFIRMED" => appt'.status # "CONFIRMED"
  BY <1>1 DEF OthersStep, Parts, WorldTyped, WorldMoves
<1>3. jobs'[k].rev \in Nat
  BY <1>1, LifecycleBounds DEF RowMoves, RowTyped, JobRows
<1>4. jobs'[k].status # "NONE" => Fits(k, jobs'[k])
  <2>1. jobs'[k].rev = jobs[k].rev /\ jobs[k].status # "NONE" => Fits(k, jobs'[k])
    BY <1>1 DEF RowFits, Fits
  <2> QED BY <1>1, <2>1 DEF RowMoves
<1> QED BY <1>2, <1>3, <1>4 DEF RowFits, Fits

-----------------------------------------------------------------------------
(* How a worker moves: it alone, with at most one job.                      *)

Acts(w, new, x, row) ==
    /\ new \in SenderStates /\ x \in Keys /\ RowTyped(row) /\ row.rev = jobs[x].rev
    /\ row = jobs[x] \/ (row.status # "NONE" /\ jobs[x].status # "NONE")
    /\ sender' = [sender EXCEPT ![w] = new] /\ jobs' = [jobs EXCEPT ![x] = row]

\* What the others see of it: the world stays, and no link is unmade.
Around == /\ UNCHANGED <<world, request, missed>>
          /\ PaperTyped' /\ (Issued => Issued')

LEMMA ActsShape ==
    ASSUME Parts, NEW w \in Senders, NEW new, NEW x, NEW row, Acts(w, new, x, row)
    PROVE  /\ sender' \in [Senders -> SenderStates] /\ sender'[w] = new
           /\ \A v \in Senders : v # w => sender'[v] = sender[v]
           /\ jobs' \in [Keys -> JobRows] /\ jobs'[x] = row
           /\ \A k \in Keys : k # x => jobs'[k] = jobs[k]
           /\ \A k \in Keys : RowTyped(jobs'[k]) /\ RowTyped(jobs[k]) /\ jobs'[k].rev = jobs[k].rev
           /\ \A k \in Keys : jobs'[k].status = "NONE" <=> jobs[k].status = "NONE"
<1>1. sender \in [Senders -> SenderStates] /\ jobs \in [Keys -> JobRows] /\ \A k \in Keys : RowTyped(jobs[k])
  BY DEF Parts, SendersTyped, RowsTyped
<1>2. x \in Keys /\ row \in JobRows /\ RowTyped(row)
  BY DEF Acts, RowTyped
<1>3. sender' \in [Senders -> SenderStates] /\ sender'[w] = new /\ \A v \in Senders : v # w => sender'[v] = sender[v]
  BY <1>1 DEF Acts
<1>4. jobs' \in [Keys -> JobRows] /\ jobs'[x] = row /\ \A k \in Keys : k # x => jobs'[k] = jobs[k]
  BY <1>1, <1>2 DEF Acts
<1>5. \A k \in Keys : RowTyped(jobs'[k]) /\ jobs'[k].rev = jobs[k].rev
  BY <1>1, <1>2, <1>4 DEF Acts
<1>6. \A k \in Keys : jobs'[k].status = "NONE" <=> jobs[k].status = "NONE"
  BY <1>4 DEF Acts
<1> QED BY <1>1, <1>3, <1>4, <1>5, <1>6

LEMMA ActsKeepPlans ==
    ASSUME Parts, NEW w \in Senders, NEW new, NEW x, NEW row, Acts(w, new, x, row), Around
    PROVE  PlanInv' /\ RowsTyped' /\ SendersTyped' /\ WorldTyped' /\ RequestsTyped'
<1>1. /\ WorldTyped' /\ appt' = appt /\ settings' = settings
      /\ request' = request /\ missed' = missed
  BY WorldStays DEF Around
<1>2. RowsTyped' /\ SendersTyped'
  BY ActsShape DEF RowsTyped, SendersTyped
<1>3. \A k \in Keys : RowFits(k)'
  <2>1. \A k \in Keys : jobs'[k].rev = jobs[k].rev /\ (jobs'[k].status = "NONE" <=> jobs[k].status = "NONE")
    BY ActsShape
  <2> QED BY <1>1, <2>1 DEF Parts, PlanInv, RowFits, Fits
<1>4. PlansFit'
  BY <1>1 DEF Parts, PlanInv, PlansFit
<1>5. Covered'
  <2>1. KeyOf("waiver", appt.rev) \in Keys
    BY KeysInclude DEF Parts, WorldTyped, Automations
  <2>2. jobs'[KeyOf("waiver", appt.rev)].status = "NONE" <=> jobs[KeyOf("waiver", appt.rev)].status = "NONE"
    BY <2>1, ActsShape
  <2>3. \A q \in Requests : WillPlan(q)' <=> WillPlan(q)
    BY <1>1 DEF WillPlan
  <2> QED BY <1>1, <2>2, <2>3 DEF Parts, PlanInv, Covered
<1> QED BY <1>1, <1>2, <1>3, <1>4, <1>5 DEF PlanInv, Parts, RequestsTyped

\* A job that a worker holds is leased to it alone, and shows how far it has got.
LEMMA HolderAlone ==
    ASSUME Parts, HandoverInv, NEW w \in Senders, HoldsJob(w)
    PROVE  /\ sender[w].token # 0
           /\ \A v \in Senders : v # w => sender[v].token # sender[w].token
           /\ sender[w].pc \in PreSend => jobs[sender[w].key].status = "PROCESSING"
           /\ sender[w].pc \in PostSend => jobs[sender[w].key].status = "SENDING"
           /\ sender[w].pc \in PreSend \cup PostSend
<1> DEFINE k == sender[w].key
<1>1. k \in Keys
  BY DEF Parts, SendersTyped, SenderStates
<1>2. jobs[k].token = sender[w].token /\ jobs[k].status \in {"PROCESSING", "SENDING"}
  BY DEF HoldsJob
<1>3. jobs[k].token # 0
  BY <1>1, <1>2 DEF Parts, RowsTyped, RowTyped
<1>4. PICK u \in Senders : /\ sender[u].token = jobs[k].token /\ sender[u].key = k
                           /\ jobs[k].status = "PROCESSING" => sender[u].pc \in PreSend
                           /\ jobs[k].status = "SENDING" => sender[u].pc \in PostSend
  BY <1>1, <1>3 DEF HandoverInv, Leases
<1>5. u = w
  BY <1>2, <1>3, <1>4 DEF HandoverInv, Leases
<1> QED BY <1>2, <1>3, <1>4, <1>5 DEF HandoverInv, Leases, PreSend, PostSend

-----------------------------------------------------------------------------
(* A worker reads on: neither its job nor whose it is changes.              *)

Rereads(w, new) ==
    /\ new.key = sender[w].key /\ new.token = sender[w].token /\ new.result = sender[w].result
    /\ Acts(w, new, sender[w].key, jobs[sender[w].key])
    /\ \/ sender[w].pc \in PreSend /\ new.pc \in PreSend
       \/ sender[w].pc \in PostSend /\ new.pc \in PostSend

LEMMA RereadsKeepLeases ==
    ASSUME Parts, HandoverInv, NEW w \in Senders, NEW new, Rereads(w, new)
    PROVE  Leases' /\ \A v \in Senders : Handover(v)'
<1> DEFINE x == sender[w].key
<1>1. /\ sender'[w] = new /\ \A v \in Senders : v # w => sender'[v] = sender[v]
      /\ \A k \in Keys : jobs'[k] = jobs[k]
  BY ActsShape DEF Rereads
<1>2. /\ new.key = sender[w].key /\ new.token = sender[w].token
      /\ \/ sender[w].pc \in PreSend /\ new.pc \in PreSend
         \/ sender[w].pc \in PostSend /\ new.pc \in PostSend
  BY DEF Rereads
<1>3. /\ \A v \in Senders : sender'[v].token = sender[v].token /\ sender'[v].key = sender[v].key
      /\ \A v \in Senders : sender'[v].pc \in PreSend <=> sender[v].pc \in PreSend
      /\ \A v \in Senders : sender'[v].pc \in PostSend <=> sender[v].pc \in PostSend
      /\ \A v \in Senders : sender'[v].pc \in {"off", "rest"} <=> sender[v].pc \in {"off", "rest"}
  BY <1>1, <1>2 DEF PreSend, PostSend
<1>4. Leases'
  BY <1>1, <1>3 DEF HandoverInv, Leases
<1>5. \A v \in Senders : sender[v].key \in Keys
  BY DEF Parts, SendersTyped, SenderStates
<1>6. ASSUME NEW v \in Senders PROVE Handover(v)'
  <2>1. Handover(v)
    BY DEF HandoverInv
  <2>2. jobs'[sender'[v].key] = jobs[sender[v].key]
    BY <1>1, <1>3, <1>5
  <2> QED BY <1>3, <2>1, <2>2 DEF Handover
<1> QED BY <1>4, <1>6

\* It gets past the last check only with a job that still applies, hands it over
\* once, and writes a message only as the owner of the link.
LEMMA RereadsKeepRows ==
    ASSUME Parts, HandoverInv, NEW w \in Senders, NEW new, Rereads(w, new),
           appt' = appt, UNCHANGED <<sends, obsolete>>,
           new.pc \in PostSend => /\ sends[sender[w].key] > 0 => new.pc \in {"record", "finish"}
                                  /\ sender[w].key \notin obsolete,
           NEW k \in Keys
    PROVE  SentRow(k)' /\ ObsoleteRow(k)'
<1>1. /\ sender'[w] = new /\ \A v \in Senders : v # w => sender'[v] = sender[v]
      /\ jobs'[k] = jobs[k] /\ new.key = sender[w].key
      /\ new.pc \in PostSend <=> sender[w].pc \in PostSend
  BY ActsShape DEF Rereads, PreSend, PostSend
<1>2. SentRow(k)'
  <2>1. SentRow(k)
    BY DEF HandoverInv
  <2>2. CASE sends[k] > 0
    <3>1. ASSUME NEW v \in Senders, sender'[v].key = k, sender'[v].pc \in PostSend
          PROVE  sender'[v].pc \in {"record", "finish"} \/ (sender'[v].pc = "fail" /\ sender'[v].outcome = "DELIVERY_UNKNOWN")
      <4>1. CASE v = w
        BY <1>1, <2>2, <3>1, <4>1
      <4>2. CASE v # w
        BY <1>1, <2>1, <2>2, <3>1, <4>2 DEF SentRow
      <4> QED BY <4>1, <4>2
    <3> QED BY <1>1, <2>1, <2>2, <3>1 DEF SentRow
  <2>3. CASE ~(sends[k] > 0)
    BY <2>3 DEF SentRow
  <2> QED BY <2>2, <2>3
<1>3. ObsoleteRow(k)'
  <2>1. ObsoleteRow(k)
    BY DEF HandoverInv
  <2>2. CASE k \in obsolete
    <3>1. ASSUME NEW v \in Senders, sender'[v].key = k, sender'[v].pc \in PostSend
          PROVE  sender'[v].pc = "guard" /\ Outdated(k)'
      <4>1. v # w
        BY <1>1, <2>2, <3>1
      <4>2. sender[v].pc = "guard" /\ sender'[v].pc = "guard" /\ Outdated(k)
        BY <1>1, <2>1, <2>2, <3>1, <4>1 DEF ObsoleteRow
      <4>3. Outdated(k)' = Outdated(k)
        BY <1>1 DEF Outdated
      <4> QED BY <4>2, <4>3
    <3> QED BY <1>1, <2>1, <2>2, <3>1 DEF ObsoleteRow
  <2>3. CASE k \notin obsolete
    BY <2>3 DEF ObsoleteRow
  <2> QED BY <2>2, <2>3
<1> QED BY <1>2, <1>3

LEMMA OwnersStay ==
    ASSUME Parts, HandoverInv, Around, \A k \in Keys : Owner(k)' => Owner(k)
    PROVE  OneOwner'
<1>1. form' = form /\ (Issued => Issued')
  BY DEF Around, world
<1> QED BY <1>1 DEF HandoverInv, OneOwner

LEMMA RereadsKeepOwners ==
    ASSUME Parts, HandoverInv, NEW w \in Senders, NEW new, Rereads(w, new),
           \/ sender[w].key[1] # "waiver"
           \/ sender[w].result = TRUE \/ sender[w].pc \in {"retime", "attach"} \cup PostSend
           \/ new.pc \notin {"retime", "attach"} \cup PostSend,
           NEW k \in Keys, Owner(k)'
    PROVE  Owner(k)
<1>1. /\ sender'[w] = new /\ \A v \in Senders : v # w => sender'[v] = sender[v]
      /\ jobs'[k] = jobs[k] /\ new.key = sender[w].key /\ new.result = sender[w].result
  BY ActsShape DEF Rereads
<1>2. CASE jobs[k].result = TRUE
  BY <1>1, <1>2 DEF Owner
<1>3. CASE \E v \in Senders : Carries(v, k)'
  <2>1. PICK v \in Senders : Carries(v, k)'
    BY <1>3
  <2>2. k[1] = "waiver"
    BY DEF Owner
  <2>3. Carries(v, k)
    <3>1. CASE v = w
      BY <1>1, <2>1, <2>2, <3>1 DEF Carries
    <3>2. CASE v # w
      BY <1>1, <2>1, <3>2 DEF Carries
    <3> QED BY <3>1, <3>2
  <2> QED BY <2>2, <2>3 DEF Owner
<1> QED BY <1>1, <1>2, <1>3 DEF Owner

\* The message is handed over once: its job had not been sent.
LEMMA WireKeepsRows ==
    ASSUME Parts, HandoverInv, NEW w \in Senders, NEW new, Rereads(w, new), sender[w].pc = "wire",
           appt' = appt, obsolete' = obsolete,
           \/ sends' = sends
           \/ /\ sends' = [sends EXCEPT ![sender[w].key] = IF @ < 2 THEN @ + 1 ELSE @]
              /\ new.pc = "record" \/ (new.pc = "fail" /\ new.outcome = "DELIVERY_UNKNOWN"),
           NEW k \in Keys
    PROVE  SentRow(k)' /\ ObsoleteRow(k)' /\ sends' \in [Keys -> 0..2]
<1> DEFINE x == sender[w].key
<1>1. /\ sender'[w] = new /\ \A v \in Senders : v # w => sender'[v] = sender[v]
      /\ jobs'[k] = jobs[k] /\ new.key = x
      /\ sender[w].pc \in PostSend /\ x \in Keys
  BY ActsShape DEF Rereads, PreSend, PostSend, Acts
<1>2. /\ jobs[x].status \in {"SENDING", "DELIVERY_UNKNOWN"} /\ jobs[x].result = TRUE
      /\ \A v \in Senders : sender[v].pc \in PostSend /\ sender[v].key = x => v = w
  BY <1>1 DEF HandoverInv, Handover
<1>3. ~(sends[x] > 0) /\ x \notin obsolete /\ sends \in [Keys -> 0..2]
  BY <1>1 DEF HandoverInv, SentRow, ObsoleteRow, Parts, PastTyped
<1>4. sends[x] = 0 /\ sends' \in [Keys -> 0..2] /\ sends'[x] \in 0..1 /\ (k # x => sends'[k] = sends[k])
  <2>1. sends[x] \in 0..2 /\ sends[x] = 0
    BY <1>1, <1>3
  <2>2. CASE sends' = sends
    BY <1>3, <2>1, <2>2
  <2>3. CASE sends' = [sends EXCEPT ![x] = IF @ < 2 THEN @ + 1 ELSE @]
    <3>1. sends' = [sends EXCEPT ![x] = 1]
      BY <2>1, <2>3
    <3> HIDE DEF x
    <3> QED BY <1>1, <1>3, <2>1, <3>1
  <2> QED BY <2>2, <2>3
<1>5. SentRow(k)'
  <2>1. CASE k = x
    <3>1. CASE sends'[x] > 0
      <4>1. sends'[x] = 1 /\ (new.pc = "record" \/ (new.pc = "fail" /\ new.outcome = "DELIVERY_UNKNOWN"))
        BY <1>4, <3>1
      <4>2. \A v \in Senders : sender'[v].pc \in PostSend /\ sender'[v].key = x => v = w
        BY <1>1, <1>2
      <4> QED BY <1>1, <1>2, <2>1, <4>1, <4>2 DEF SentRow
    <3>2. CASE ~(sends'[x] > 0)
      BY <2>1, <3>2 DEF SentRow
    <3> QED BY <3>1, <3>2
  <2>2. CASE k # x
    <3>1. SentRow(k)
      BY DEF HandoverInv
    <3> QED BY <1>1, <1>4, <2>2, <3>1 DEF SentRow
  <2> QED BY <2>1, <2>2
<1>6. ObsoleteRow(k)'
  <2>1. CASE k = x
    BY <1>3, <2>1 DEF ObsoleteRow
  <2>2. CASE k # x
    <3>1. ObsoleteRow(k) /\ (Outdated(k)' = Outdated(k))
      BY <1>1 DEF HandoverInv, Outdated
    <3>2. \A v \in Senders : sender'[v].key = k => sender'[v] = sender[v]
      BY <1>1, <2>2
    <3>3. sends'[k] = sends[k]
      BY <1>4, <2>2
    <3> HIDE DEF x
    <3> QED BY <1>1, <3>1, <3>2, <3>3 DEF ObsoleteRow
  <2> QED BY <2>1, <2>2
<1> QED BY <1>4, <1>5, <1>6

-----------------------------------------------------------------------------
(* A worker lets its job go, if it still has it.                            *)

LetsGo(w, new, row) ==
    /\ Acts(w, new, sender[w].key, row)
    /\ \/ new.token = 0 /\ new.pc = "rest" /\ new.result = FALSE /\ new.key[1] # "waiver"
       \/ /\ new.pc = "blame" /\ new.token = sender[w].token /\ new.key = sender[w].key
          /\ new.result = sender[w].result /\ sender[w].token # 0
    /\ ~HoldsJob(w) => row = jobs[sender[w].key]
    /\ HoldsJob(w) =>
         /\ row.token = 0 /\ row.status \in {"COMPLETED", "CANCELLED", "RETRY", "FAILED", "DELIVERY_UNKNOWN"}
         /\ row.result = TRUE => jobs[sender[w].key].result = TRUE \/ Carries(w, sender[w].key)

LEMMA LetsGoKeepsLeases ==
    ASSUME Parts, HandoverInv, NEW w \in Senders, NEW new, NEW row, LetsGo(w, new, row)
    PROVE  Leases' /\ \A v \in Senders : Handover(v)'
<1> DEFINE x == sender[w].key
<1>1. /\ sender'[w] = new /\ \A v \in Senders : v # w => sender'[v] = sender[v]
      /\ jobs'[x] = row /\ \A k \in Keys : k # x => jobs'[k] = jobs[k]
      /\ x \in Keys
  BY ActsShape DEF LetsGo, Acts
<1>2. /\ new.pc \in {"rest", "blame"}
      /\ new.pc = "rest" => new.token = 0
      /\ new.pc = "blame" => new.token = sender[w].token /\ new.token # 0
      /\ ~HoldsJob(w) => row = jobs[x]
      /\ HoldsJob(w) => row.token = 0
  BY DEF LetsGo
<1>3. /\ \A v \in Senders : sender[v].token # 0 <=> sender[v].pc \notin {"off", "rest"}
      /\ \A u, v \in Senders : u # v /\ sender[v].token = sender[u].token => sender[u].token = 0
      /\ \A k \in Keys : RowTyped(jobs[k])
  BY DEF HandoverInv, Leases, Parts, RowsTyped
<1>4. \A v \in Senders : sender'[v].token # 0 <=> sender'[v].pc \notin {"off", "rest"}
  BY <1>1, <1>2, <1>3
<1>5. \A u, v \in Senders : u # v /\ sender'[v].token = sender'[u].token => sender'[u].token = 0
  BY <1>1, <1>2, <1>3
<1>6. ASSUME NEW k \in Keys, jobs'[k].token # 0
      PROVE  \E v \in Senders : /\ sender'[v].token = jobs'[k].token /\ sender'[v].key = k
                                /\ jobs'[k].status = "PROCESSING" => sender'[v].pc \in PreSend
                                /\ jobs'[k].status = "SENDING" => sender'[v].pc \in PostSend
  <2>1. jobs'[k] = jobs[k]
    BY <1>1, <1>2, <1>6
  <2>2. PICK v \in Senders : /\ sender[v].token = jobs[k].token /\ sender[v].key = k
                             /\ jobs[k].status = "PROCESSING" => sender[v].pc \in PreSend
                             /\ jobs[k].status = "SENDING" => sender[v].pc \in PostSend
    BY <1>6, <2>1 DEF HandoverInv, Leases
  <2>3. v # w
    <3> SUFFICES ASSUME v = w PROVE FALSE
      OBVIOUS
    <3>1. k = x /\ jobs[k].token = sender[w].token
      BY <2>2
    <3>2. jobs[k].status \in {"PROCESSING", "SENDING"}
      BY <1>3, <1>6, <2>1 DEF RowTyped
    <3>3. HoldsJob(w)
      BY <3>1, <3>2 DEF HoldsJob
    <3> QED BY <1>1, <1>2, <1>6, <3>1, <3>3
  <2> QED BY <1>1, <2>1, <2>2, <2>3
<1>7. Leases'
  BY <1>4, <1>5, <1>6 DEF Leases
<1>8. ASSUME NEW v \in Senders PROVE Handover(v)'
  <2>1. CASE sender'[v].pc \in PostSend
    <3>1. v # w /\ sender'[v] = sender[v] /\ sender[v].pc \in PostSend
      BY <1>1, <1>2, <2>1 DEF PostSend
    <3>2. Handover(v) /\ sender[v].key \in Keys
      BY DEF HandoverInv, Parts, SendersTyped, SenderStates
    <3>3. jobs'[sender[v].key] = jobs[sender[v].key]
      <4>1. CASE sender[v].key # x
        BY <1>1, <3>2, <4>1
      <4>2. CASE sender[v].key = x
        <5>1. jobs[x].status \in {"SENDING", "DELIVERY_UNKNOWN"} /\ (sender[w].pc \in PostSend => FALSE)
          BY <3>1, <3>2, <4>2 DEF Handover
        <5>2. ~HoldsJob(w)
          BY <5>1, HolderAlone DEF HoldsJob
        <5> QED BY <1>1, <1>2, <4>2, <5>2
      <4> QED BY <4>1, <4>2
    <3>4. \A u \in Senders : sender'[u].pc \in PostSend => sender'[u] = sender[u]
      BY <1>1, <1>2 DEF PostSend
    <3> QED BY <3>1, <3>2, <3>3, <3>4 DEF Handover
  <2>2. CASE sender'[v].pc \notin PostSend
    BY <2>2 DEF Handover
  <2> QED BY <2>1, <2>2
<1> QED BY <1>7, <1>8

LEMMA LetsGoKeepsRows ==
    ASSUME Parts, HandoverInv, NEW w \in Senders, NEW new, NEW row, LetsGo(w, new, row),
           appt' = appt, UNCHANGED <<sends, obsolete>>,
           HoldsJob(w) =>
             /\ sends[sender[w].key] > 0 => /\ row.status \in {"COMPLETED", "DELIVERY_UNKNOWN"}
                                            /\ row.result = TRUE
             /\ sender[w].key \in obsolete => (row.status = "CANCELLED" /\ row.code # "DISABLED"),
           NEW k \in Keys
    PROVE  SentRow(k)' /\ ObsoleteRow(k)' /\ (Owner(k)' => Owner(k))
<1> DEFINE x == sender[w].key
<1>1. /\ sender'[w] = new /\ \A v \in Senders : v # w => sender'[v] = sender[v]
      /\ jobs'[x] = row /\ (k # x => jobs'[k] = jobs[k]) /\ jobs'[k].rev = jobs[k].rev
      /\ new.pc \notin PostSend /\ new.pc \in {"rest", "blame"}
  <2>1. new.pc \in {"rest", "blame"} /\ Acts(w, new, x, row)
    BY DEF LetsGo
  <2>2. new.pc \notin PostSend
    BY <2>1 DEF PostSend
  <2> HIDE DEF x
  <2> QED BY <2>1, <2>2, ActsShape
<1>2. \A v \in Senders : sender'[v].pc \in PostSend => v # w /\ sender'[v] = sender[v]
  BY <1>1
<1>3. jobs'[k] = jobs[k] \/ (k = x /\ HoldsJob(w))
  BY <1>1 DEF LetsGo
<1>4. SentRow(k)'
  <2>1. SentRow(k)
    BY DEF HandoverInv
  <2>2. CASE sends[k] > 0
    <3>1. jobs'[k].result = TRUE /\ jobs'[k].status \in {"SENDING", "COMPLETED", "DELIVERY_UNKNOWN"}
      BY <1>1, <1>3, <2>1, <2>2 DEF SentRow
    <3> QED BY <1>2, <2>1, <2>2, <3>1 DEF SentRow
  <2>3. CASE ~(sends[k] > 0)
    BY <2>3 DEF SentRow
  <2> QED BY <2>2, <2>3
<1>5. ObsoleteRow(k)'
  <2>1. ObsoleteRow(k) /\ (Outdated(k)' = Outdated(k))
    BY <1>1 DEF HandoverInv, Outdated
  <2>2. CASE k \in obsolete
    <3>1. \/ jobs'[k].status \in {"SENDING", "DELIVERY_UNKNOWN"}
          \/ jobs'[k].status = "CANCELLED" /\ jobs'[k].code # "DISABLED"
      BY <1>1, <1>3, <2>1, <2>2 DEF ObsoleteRow
    <3> QED BY <1>2, <2>1, <2>2, <3>1 DEF ObsoleteRow
  <2>3. CASE k \notin obsolete
    BY <2>3 DEF ObsoleteRow
  <2> QED BY <2>2, <2>3
<1>6. ASSUME Owner(k)' PROVE Owner(k)
  <2>1. k[1] = "waiver"
    BY <1>6 DEF Owner
  <2>2. CASE jobs'[k].result = TRUE
    BY <1>1, <1>3, <2>1, <2>2 DEF Owner, LetsGo
  <2>3. CASE \E v \in Senders : Carries(v, k)'
    <3>1. PICK v \in Senders : Carries(v, k)'
      BY <2>3
    <3>2. Carries(v, k)
      <4>1. CASE v = w
        BY <1>1, <2>1, <3>1, <4>1 DEF Carries, LetsGo
      <4>2. CASE v # w
        BY <1>1, <3>1, <4>2 DEF Carries
      <4> QED BY <4>1, <4>2
    <3> QED BY <2>1, <3>2 DEF Owner
  <2> QED BY <1>6, <2>2, <2>3 DEF Owner
<1> QED BY <1>4, <1>5, <1>6

-----------------------------------------------------------------------------
(* A worker claims a job under a fresh token, and makes it SENDING.         *)

Claimed(j, n, a) == [j EXCEPT !.status = "PROCESSING", !.token = n, !.code = "none", !.attempts = a]

LEMMA ClaimedTyped ==
    ASSUME NEW j \in JobRows, NEW n \in Nat, n # 0, NEW a \in 0..SendAttempts
    PROVE  /\ RowTyped(Claimed(j, n, a)) /\ Claimed(j, n, a).status = "PROCESSING"
           /\ Claimed(j, n, a).token = n
           /\ Claimed(j, n, a).rev = j.rev /\ Claimed(j, n, a).result = j.result
<1>1. /\ Claimed(j, n, a).status = "PROCESSING" /\ Claimed(j, n, a).token = n
      /\ Claimed(j, n, a).rev = j.rev /\ Claimed(j, n, a).result = j.result
  BY DEF JobRows, Claimed
<1>2. "PROCESSING" \in {"NONE"} \cup JobStates
  BY DEF JobStates, Undelivered
<1>3. Claimed(j, n, a) \in JobRows
  BY <1>2 DEF JobRows, Claimed
<1> QED BY <1>1, <1>3 DEF RowTyped

Claims(w, new, k, row) ==
    /\ Acts(w, new, k, row) /\ jobs[k].status \in Due
    /\ sender[w].pc = "rest" /\ new.pc = "check" /\ new.key = k /\ new.token = row.token
    /\ new.token # 0 /\ \A v \in Senders : sender[v].token # new.token
    /\ row.status = "PROCESSING" /\ row.result = jobs[k].result /\ new.result = jobs[k].result

LEMMA ClaimsHappen ==
    ASSUME Parts, NEW w \in Senders, ClaimJob(w)
    PROVE  \E new, k, row : Claims(w, new, k, row)
<1> DEFINE fresh == CHOOSE n \in 1..(Cardinality(Senders) + 1) : \A x \in Senders : sender[x].token # n
<1>1. /\ fresh \in 1..(Cardinality(Senders) + 1) /\ \A x \in Senders : sender[x].token # fresh
  BY TokenLeft DEF FreeToken
<1>2. fresh \in Nat /\ fresh # 0
  <2>1. Cardinality(Senders) \in Nat
    BY LifecycleBounds, FS_CardinalityType
  <2> HIDE DEF fresh
  <2> QED BY <1>1, <2>1
<1>3. PICK k \in Keys :
         /\ jobs[k].status \in Due
         /\ jobs' = [jobs EXCEPT ![k] =
                      [jobs[k] EXCEPT !.status = "PROCESSING", !.token = fresh, !.code = "none",
                         !.attempts = IF @ < SendAttempts THEN @ + 1 ELSE @]]
         /\ sender' = [sender EXCEPT ![w] = [Resting EXCEPT !.pc = "check", !.key = k,
                         !.token = fresh, !.result = jobs[k].result]]
         /\ sender[w].pc = "rest"
  BY DEF ClaimJob
<1> DEFINE a == IF jobs[k].attempts < SendAttempts THEN jobs[k].attempts + 1 ELSE jobs[k].attempts
           row == Claimed(jobs[k], fresh, a)
           new == [Resting EXCEPT !.pc = "check", !.key = k, !.token = fresh, !.result = jobs[k].result]
<1> HIDE DEF fresh
<1>4. jobs[k] \in JobRows /\ jobs[k].result \in BOOLEAN /\ a \in 0..SendAttempts
  <2>1. jobs[k] \in JobRows
    BY DEF Parts, RowsTyped
  <2>2. jobs[k].result \in BOOLEAN /\ jobs[k].attempts \in 0..SendAttempts
    BY <2>1 DEF JobRows
  <2>3. a \in 0..SendAttempts
    BY <2>2, LifecycleBounds
  <2> QED BY <2>1, <2>2, <2>3
<1>5. RowTyped(row) /\ row.status = "PROCESSING" /\ row.token = fresh /\ row.rev = jobs[k].rev /\ row.result = jobs[k].result
  BY <1>2, <1>4, ClaimedTyped
<1>6. /\ new \in SenderStates /\ new.pc = "check" /\ new.key = k /\ new.token = fresh /\ new.result = jobs[k].result
  BY <1>2, <1>4 DEF Resting, SenderStates
<1>7. sender' = [sender EXCEPT ![w] = new] /\ jobs' = [jobs EXCEPT ![k] = row]
  <2>1. row = [jobs[k] EXCEPT !.status = "PROCESSING", !.token = fresh, !.code = "none",
                 !.attempts = IF @ < SendAttempts THEN @ + 1 ELSE @]
    BY <1>4 DEF JobRows, Claimed
  <2> QED BY <1>3, <2>1
<1> HIDE DEF row, new, a
<1>8. Claims(w, new, k, row)
  BY <1>1, <1>2, <1>3, <1>5, <1>6, <1>7 DEF Claims, Acts, Due
<1> QED BY <1>8

LEMMA ClaimsKeepHandover ==
    ASSUME Parts, HandoverInv, NEW w \in Senders, NEW new, NEW x, NEW row, Claims(w, new, x, row),
           Around, appt' = appt, UNCHANGED <<sends, obsolete>>
    PROVE  HandoverInv'
<1>1. /\ sender'[w] = new /\ \A v \in Senders : v # w => sender'[v] = sender[v]
      /\ jobs'[x] = row /\ \A k \in Keys : k # x => jobs'[k] = jobs[k]
      /\ \A k \in Keys : RowTyped(jobs[k]) /\ jobs'[k].rev = jobs[k].rev
      /\ x \in Keys
  BY ActsShape, ZenonT(40) DEF Claims, Acts
<1>2. /\ jobs[x].status \in Due
      /\ sender[w].pc = "rest" /\ new.pc = "check" /\ new.key = x /\ new.token = row.token
      /\ new.token # 0 /\ \A v \in Senders : sender[v].token # new.token
      /\ row.status = "PROCESSING" /\ row.result = jobs[x].result /\ new.result = jobs[x].result
  BY DEF Claims
<1>3. new.pc \notin PostSend /\ new.pc \in PreSend /\ new.pc \notin {"off", "rest"}
  BY <1>2 DEF PostSend, PreSend
<1>4. sender[w].token = 0
  BY <1>2 DEF HandoverInv, Leases
<1>5. Leases'
  <2>1. \A v \in Senders : sender'[v].token # 0 <=> sender'[v].pc \notin {"off", "rest"}
    BY <1>1, <1>2, <1>3 DEF HandoverInv, Leases
  <2>2. \A u, v \in Senders : u # v /\ sender'[v].token = sender'[u].token => sender'[u].token = 0
    BY <1>1, <1>2 DEF HandoverInv, Leases
  <2>3. ASSUME NEW k \in Keys, jobs'[k].token # 0
        PROVE  \E v \in Senders : /\ sender'[v].token = jobs'[k].token /\ sender'[v].key = k
                                  /\ jobs'[k].status = "PROCESSING" => sender'[v].pc \in PreSend
                                  /\ jobs'[k].status = "SENDING" => sender'[v].pc \in PostSend
    <3>1. CASE k = x
      BY <1>1, <1>2, <1>3, <3>1
    <3>2. CASE k # x
      <4>1. PICK v \in Senders : /\ sender[v].token = jobs[k].token /\ sender[v].key = k
                                 /\ jobs[k].status = "PROCESSING" => sender[v].pc \in PreSend
                                 /\ jobs[k].status = "SENDING" => sender[v].pc \in PostSend
        BY <1>1, <2>3, <3>2 DEF HandoverInv, Leases
      <4>2. v # w
        BY <1>1, <1>4, <2>3, <3>2, <4>1
      <4> QED BY <1>1, <3>2, <4>1, <4>2
    <3> QED BY <3>1, <3>2
  <2> QED BY <2>1, <2>2, <2>3 DEF Leases
<1>6. \A v \in Senders : sender'[v].pc \in PostSend => v # w /\ sender'[v] = sender[v]
  BY <1>1, <1>3
<1>7. ASSUME NEW v \in Senders PROVE Handover(v)'
  <2>1. CASE sender'[v].pc \in PostSend
    <3>1. sender'[v] = sender[v] /\ sender[v].pc \in PostSend /\ Handover(v) /\ sender[v].key \in Keys
      BY <1>6, <2>1 DEF HandoverInv, Parts, SendersTyped, SenderStates
    <3>2. sender[v].key # x
      BY <1>2, <3>1 DEF Handover, Due
    <3> QED BY <1>1, <1>6, <3>1, <3>2 DEF Handover
  <2>2. CASE sender'[v].pc \notin PostSend
    BY <2>2 DEF Handover
  <2> QED BY <2>1, <2>2
<1>8. ASSUME NEW k \in Keys PROVE SentRow(k)' /\ ObsoleteRow(k)'
  <2>1. SentRow(k) /\ ObsoleteRow(k) /\ (Outdated(k)' = Outdated(k))
    BY <1>1 DEF HandoverInv, Outdated
  <2>2. CASE k = x
    <3>1. ~(sends[k] > 0) /\ k \notin obsolete
      BY <1>2, <2>1, <2>2 DEF SentRow, ObsoleteRow, Due
    <3> QED BY <3>1 DEF SentRow, ObsoleteRow
  <2>3. CASE k # x
    <3>1. SentRow(k)'
      BY <1>1, <1>6, <2>1, <2>3 DEF SentRow
    <3>2. ObsoleteRow(k)'
      BY <1>1, <1>6, <2>1, <2>3 DEF ObsoleteRow
    <3> QED BY <3>1, <3>2
  <2> QED BY <2>2, <2>3
<1>9. ASSUME NEW k \in Keys, Owner(k)' PROVE Owner(k)
  <2>1. k[1] = "waiver" /\ (jobs'[k].result = TRUE => jobs[k].result = TRUE)
    BY <1>1, <1>2, <1>9 DEF Owner
  <2>2. ASSUME NEW v \in Senders, Carries(v, k)' PROVE jobs[k].result = TRUE \/ Carries(v, k)
    <3>1. CASE v = w
      BY <1>1, <1>2, <1>3, <2>2, <3>1 DEF Carries
    <3>2. CASE v # w
      BY <1>1, <2>2, <3>2 DEF Carries
    <3> QED BY <3>1, <3>2
  <2> QED BY <1>9, <2>1, <2>2 DEF Owner
<1> QED BY <1>5, <1>7, <1>8, <1>9, OwnersStay DEF HandoverInv

Attaches(w, new, row) ==
    /\ Acts(w, new, sender[w].key, row) /\ HoldsJob(w)
    /\ sender[w].pc = "attach" /\ new.pc \in {"guard", "wire"}
    /\ new.key = sender[w].key /\ new.token = sender[w].token /\ new.result = sender[w].result
    /\ new.pc = "wire" => ~Outdated(sender[w].key)
    /\ row.status = "SENDING" /\ row.token = jobs[sender[w].key].token /\ row.result = TRUE

LEMMA AttachesKeepHandover ==
    ASSUME Parts, HandoverInv, NEW w \in Senders, NEW new, NEW row, Attaches(w, new, row),
           Around, appt' = appt, sends' = sends,
           obsolete' = IF Outdated(sender[w].key) THEN obsolete \cup {sender[w].key} ELSE obsolete
    PROVE  HandoverInv'
<1> DEFINE x == sender[w].key
<1>1. /\ sender'[w] = new /\ \A v \in Senders : v # w => sender'[v] = sender[v]
      /\ jobs'[x] = row /\ \A k \in Keys : k # x => jobs'[k] = jobs[k]
      /\ \A k \in Keys : RowTyped(jobs[k]) /\ jobs'[k].rev = jobs[k].rev
      /\ x \in Keys
  BY ActsShape, ZenonT(40) DEF Attaches, Acts
<1>2. /\ sender[w].pc = "attach" /\ new.pc \in {"guard", "wire"}
      /\ new.key = x /\ new.token = sender[w].token /\ new.result = sender[w].result
      /\ new.pc = "wire" => ~Outdated(x)
      /\ row.status = "SENDING" /\ row.token = jobs[x].token /\ row.result = TRUE
      /\ HoldsJob(w)
  BY DEF Attaches
<1>3. /\ new.pc \in PostSend /\ new.pc \notin {"off", "rest"}
      /\ sender[w].pc \in PreSend /\ sender[w].pc \notin PostSend /\ sender[w].pc \notin {"off", "rest"}
  BY <1>2 DEF PostSend, PreSend
<1>4. jobs[x].status = "PROCESSING" /\ jobs[x].token = sender[w].token
  BY <1>2, <1>3, HolderAlone DEF HoldsJob
<1>5. \A v \in Senders : sender[v].key = x /\ sender[v].pc \in PostSend => FALSE
  BY <1>4 DEF HandoverInv, Handover
<1>6. ~(sends[x] > 0) /\ x \notin obsolete
  BY <1>1, <1>4 DEF HandoverInv, SentRow, ObsoleteRow
<1>7. Leases'
  <2>1. /\ \A v \in Senders : sender'[v].token = sender[v].token /\ sender'[v].key = sender[v].key
        /\ \A v \in Senders : sender'[v].pc \in {"off", "rest"} <=> sender[v].pc \in {"off", "rest"}
    BY <1>1, <1>2, <1>3
  <2>2. ASSUME NEW k \in Keys, jobs'[k].token # 0
        PROVE  \E v \in Senders : /\ sender'[v].token = jobs'[k].token /\ sender'[v].key = k
                                  /\ jobs'[k].status = "PROCESSING" => sender'[v].pc \in PreSend
                                  /\ jobs'[k].status = "SENDING" => sender'[v].pc \in PostSend
    <3>1. CASE k = x
      BY <1>1, <1>2, <1>3, <1>4, <3>1
    <3>2. CASE k # x
      <4>1. PICK v \in Senders : /\ sender[v].token = jobs[k].token /\ sender[v].key = k
                                 /\ jobs[k].status = "PROCESSING" => sender[v].pc \in PreSend
                                 /\ jobs[k].status = "SENDING" => sender[v].pc \in PostSend
        BY <1>1, <2>2, <3>2 DEF HandoverInv, Leases
      <4>2. v # w
        BY <3>2, <4>1
      <4> QED BY <1>1, <3>2, <4>1, <4>2
    <3> QED BY <3>1, <3>2
  <2>3. /\ \A v \in Senders : sender'[v].token # 0 <=> sender'[v].pc \notin {"off", "rest"}
        /\ \A u, v \in Senders : u # v /\ sender'[v].token = sender'[u].token => sender'[u].token = 0
    BY <2>1 DEF HandoverInv, Leases
  <2> QED BY <2>2, <2>3 DEF Leases
<1>8. ASSUME NEW v \in Senders PROVE Handover(v)'
  <2>1. CASE v = w
    <3>1. \A u \in Senders : sender'[u].pc \in PostSend /\ sender'[u].key = x => u = w
      BY <1>1, <1>5
    <3> QED BY <1>1, <1>2, <1>4, <2>1, <3>1 DEF Handover
  <2>2. CASE v # w /\ sender'[v].pc \in PostSend
    <3>1. sender'[v] = sender[v] /\ sender[v].pc \in PostSend /\ Handover(v) /\ sender[v].key \in Keys
      BY <1>1, <2>2 DEF HandoverInv, Parts, SendersTyped, SenderStates
    <3>2. sender[v].key # x
      BY <1>5, <3>1
    <3>3. jobs'[sender[v].key] = jobs[sender[v].key]
      BY <1>1, <3>1, <3>2
    <3>4. \A u \in Senders : sender'[u].pc \in PostSend /\ sender'[u].key = sender[v].key => sender'[u] = sender[u]
      BY <1>1, <1>2, <3>2
    <3> QED BY <3>1, <3>3, <3>4 DEF Handover
  <2>3. CASE sender'[v].pc \notin PostSend
    BY <2>3 DEF Handover
  <2> QED BY <2>1, <2>2, <2>3
<1>9. ASSUME NEW k \in Keys PROVE SentRow(k)' /\ ObsoleteRow(k)'
  <2>1. SentRow(k) /\ ObsoleteRow(k) /\ (Outdated(k)' = Outdated(k))
    BY <1>1 DEF HandoverInv, Outdated
  <2>2. CASE k = x
    <3>1. \A v \in Senders : sender'[v].pc \in PostSend /\ sender'[v].key = x => v = w
      BY <1>1, <1>5
    <3>2. SentRow(k)'
      BY <1>6, <2>2 DEF SentRow
    <3>3. CASE Outdated(x)
      <4>1. new.pc = "guard" /\ sends[x] = 0
        <5>1. sends[x] \in 0..2
          BY <1>1 DEF Parts, PastTyped
        <5> QED BY <1>2, <1>6, <3>3, <5>1
      <4> QED BY <1>1, <1>2, <2>1, <2>2, <3>1, <3>2, <3>3, <4>1 DEF ObsoleteRow
    <3>4. CASE ~Outdated(x)
      <4>1. k \notin obsolete'
        BY <1>6, <2>2, <3>4
      <4> QED BY <3>2, <4>1 DEF ObsoleteRow
    <3> QED BY <3>3, <3>4
  <2>3. CASE k # x
    <3>1. \A v \in Senders : sender'[v].key = k => sender'[v] = sender[v]
      BY <1>1, <1>2, <2>3
    <3>2. (k \in obsolete' <=> k \in obsolete) /\ jobs'[k] = jobs[k]
      BY <1>1, <2>3
    <3>3. SentRow(k)'
      BY <2>1, <3>1, <3>2 DEF SentRow
    <3>4. ObsoleteRow(k)'
      BY <2>1, <3>1, <3>2 DEF ObsoleteRow
    <3> QED BY <3>3, <3>4
  <2> QED BY <2>2, <2>3
<1>10. ASSUME NEW k \in Keys, Owner(k)' PROVE Owner(k)
  <2>1. k[1] = "waiver"
    BY <1>10 DEF Owner
  <2>2. Carries(w, x)
    BY <1>2 DEF Carries
  <2>3. CASE k = x
    BY <2>1, <2>2, <2>3 DEF Owner
  <2>4. CASE k # x
    <3>1. jobs'[k] = jobs[k] /\ \A v \in Senders : Carries(v, k)' => Carries(v, k)
      BY <1>1, <1>2, <2>4 DEF Carries
    <3> QED BY <1>10, <2>1, <3>1 DEF Owner
  <2> QED BY <2>3, <2>4
<1> QED BY <1>7, <1>8, <1>9, <1>10, OwnersStay DEF HandoverInv

-----------------------------------------------------------------------------
(* Each action of a worker is one of these.                                 *)

StepDone(w) ==
    /\ Around /\ HandoverInv' /\ PastTyped'
    /\ \E new, x, row : Acts(w, new, x, row)

LEMMA QuietAround ==
    ASSUME Parts, UNCHANGED <<world, request, past>>, UNCHANGED paper
    PROVE  /\ Around /\ appt' = appt /\ sends' = sends /\ obsolete' = obsolete /\ PastTyped'
<1>1. PaperTyped' /\ links' = links
  BY PaperStays
<1>2. Issued => Issued'
  BY <1>1 DEF Issued
<1> QED BY <1>1, <1>2 DEF Around, past, world, Parts, PastTyped

\* A step that makes or marks a link never unmakes one.
LEMMA LinkedAround ==
    ASSUME Parts, UNCHANGED <<world, request, past>>, signed' = signed,
           NEW by \in {"maia", "staff"}, NEW s \in WaiverStates \ {"NONE"},
           links' = [links EXCEPT ![by] = s]
    PROVE  /\ Around /\ appt' = appt /\ sends' = sends /\ obsolete' = obsolete /\ PastTyped'
           /\ Issued'
<1>1. PaperTyped' /\ links'[by] = s
  BY DEF Parts, PaperTyped
<1>2. Issued'
  BY <1>1 DEF Issued
<1> QED BY <1>1, <1>2 DEF Around, past, world, Parts, PastTyped

LEMMA ToRereads ==
    ASSUME Parts, NEW w \in Senders, NEW pc, To(w, pc), jobs' = jobs,
           \/ sender[w].pc \in PreSend /\ pc \in PreSend
           \/ sender[w].pc \in PostSend /\ pc \in PostSend
    PROVE  \E new : Rereads(w, new) /\ new.pc = pc
<1> DEFINE new == [sender[w] EXCEPT !.pc = pc]
<1>1. sender[w] \in SenderStates /\ sender[w].key \in Keys /\ RowTyped(jobs[sender[w].key])
  BY DEF Parts, SendersTyped, RowsTyped, SenderStates
<1>2. /\ new.pc = pc /\ new.key = sender[w].key /\ new.token = sender[w].token
      /\ new.result = sender[w].result /\ new \in SenderStates
  <2>1. pc \in PreSend \cup PostSend
    OBVIOUS
  <2> QED BY <1>1, <2>1 DEF SenderStates, PreSend, PostSend
<1>3. sender' = [sender EXCEPT ![w] = new]
  BY DEF To
<1>4. jobs' = [jobs EXCEPT ![sender[w].key] = jobs[sender[w].key]]
  BY <1>1 DEF Parts, RowsTyped
<1>5. Rereads(w, new)
  <2> HIDE DEF new
  <2> QED BY <1>1, <1>2, <1>3, <1>4 DEF Rereads, Acts
<1> QED BY <1>2, <1>5

LEMMA RereadDone ==
    ASSUME Parts, HandoverInv, NEW w \in Senders, NEW new, Rereads(w, new),
           Around, appt' = appt, UNCHANGED <<sends, obsolete>>, PastTyped',
           new.pc \in PostSend => /\ sends[sender[w].key] > 0 => new.pc \in {"record", "finish"}
                                  /\ sender[w].key \notin obsolete,
           \/ sender[w].key[1] # "waiver"
           \/ sender[w].result = TRUE \/ sender[w].pc \in {"retime", "attach"} \cup PostSend
           \/ new.pc \notin {"retime", "attach"} \cup PostSend
    PROVE  StepDone(w)
<1>1. Leases' /\ \A v \in Senders : Handover(v)'
  BY RereadsKeepLeases
<1>2. \A k \in Keys : SentRow(k)' /\ ObsoleteRow(k)'
  BY RereadsKeepRows
<1>3. OneOwner'
  <2>1. \A k \in Keys : Owner(k)' => Owner(k)
    BY RereadsKeepOwners
  <2> QED BY <2>1, OwnersStay
<1>4. \E n, x, row : Acts(w, n, x, row)
  BY DEF Rereads
<1> QED BY <1>1, <1>2, <1>3, <1>4 DEF StepDone, HandoverInv

LEMMA LetsGoDone ==
    ASSUME Parts, HandoverInv, NEW w \in Senders, NEW new, NEW row, LetsGo(w, new, row),
           Around, appt' = appt, UNCHANGED <<sends, obsolete>>, PastTyped',
           HoldsJob(w) =>
             /\ sends[sender[w].key] > 0 => /\ row.status \in {"COMPLETED", "DELIVERY_UNKNOWN"}
                                            /\ row.result = TRUE
             /\ sender[w].key \in obsolete => (row.status = "CANCELLED" /\ row.code # "DISABLED")
    PROVE  StepDone(w)
<1>1. Leases' /\ \A v \in Senders : Handover(v)'
  BY LetsGoKeepsLeases
<1>2. \A k \in Keys : SentRow(k)' /\ ObsoleteRow(k)' /\ (Owner(k)' => Owner(k))
  BY LetsGoKeepsRows
<1>3. OneOwner'
  BY <1>2, OwnersStay
<1>4. \E n, x, r : Acts(w, n, x, r)
  BY DEF LetsGo
<1> QED BY <1>1, <1>2, <1>3, <1>4 DEF StepDone, HandoverInv

\* What a fenced write and a rest, or the step to the link's blame, come to.
LEMMA FencedLetsGo ==
    ASSUME Parts, NEW w \in Senders, NEW row, RowTyped(row), jobs' = Fenced(w, row),
           row.rev = jobs[sender[w].key].rev, row.token = 0,
           row.status \in {"COMPLETED", "CANCELLED", "RETRY", "FAILED", "DELIVERY_UNKNOWN"},
           row.result = TRUE => jobs[sender[w].key].result = TRUE \/ Carries(w, sender[w].key),
           Rest(w) \/ (To(w, "blame") /\ sender[w].token # 0)
    PROVE  \E new, r : LetsGo(w, new, r) /\ (HoldsJob(w) => r = row)
<1> DEFINE x == sender[w].key
           r == IF HoldsJob(w) THEN row ELSE jobs[x]
           new == IF Rest(w) THEN Resting ELSE [sender[w] EXCEPT !.pc = "blame"]
<1>1. sender[w] \in SenderStates /\ x \in Keys /\ RowTyped(jobs[x])
  BY DEF Parts, SendersTyped, RowsTyped, SenderStates
<1>2. /\ new \in SenderStates /\ sender' = [sender EXCEPT ![w] = new]
      /\ \/ new.token = 0 /\ new.pc = "rest" /\ new.result = FALSE /\ new.key[1] # "waiver"
         \/ /\ new.pc = "blame" /\ new.token = sender[w].token /\ new.key = x
            /\ new.result = sender[w].result /\ sender[w].token # 0
  <2>1. CASE Rest(w)
    <3>1. new = Resting /\ Resting \in SenderStates
      BY <2>1, KeysInclude DEF Resting, SenderStates
    <3> QED BY <2>1, <3>1 DEF Rest, Resting
  <2>2. CASE ~Rest(w)
    <3>1. new = [sender[w] EXCEPT !.pc = "blame"] /\ To(w, "blame") /\ sender[w].token # 0
      BY <2>2
    <3>2. [sender[w] EXCEPT !.pc = "blame"] \in SenderStates
      BY <1>1 DEF SenderStates
    <3>3. /\ [sender[w] EXCEPT !.pc = "blame"].pc = "blame"
          /\ [sender[w] EXCEPT !.pc = "blame"].token = sender[w].token
          /\ [sender[w] EXCEPT !.pc = "blame"].key = sender[w].key
          /\ [sender[w] EXCEPT !.pc = "blame"].result = sender[w].result
      BY <1>1 DEF SenderStates
    <3>4. sender' = [sender EXCEPT ![w] = [sender[w] EXCEPT !.pc = "blame"]]
      BY <3>1 DEF To
    <3> QED BY <3>1, <3>2, <3>3, <3>4
  <2> QED BY <2>1, <2>2
<1>3. HoldsJob(w) => jobs[x].status # "NONE"
  BY DEF HoldsJob
<1>4. jobs' = [jobs EXCEPT ![x] = r]
  <2>1. CASE HoldsJob(w)
    BY <2>1 DEF Fenced
  <2>2. CASE ~HoldsJob(w)
    <3>1. jobs' = jobs /\ r = jobs[x] /\ jobs \in [Keys -> JobRows]
      BY <2>2 DEF Fenced, Parts, RowsTyped
    <3> HIDE DEF r, x
    <3> QED BY <1>1, <3>1
  <2> QED BY <2>1, <2>2
<1>5. Acts(w, new, x, r)
  <2>1. RowTyped(r) /\ r.rev = jobs[x].rev /\ (r = jobs[x] \/ (r.status # "NONE" /\ jobs[x].status # "NONE"))
    BY <1>1, <1>3
  <2> HIDE DEF new, r
  <2> QED BY <1>1, <1>2, <1>4, <2>1 DEF Acts
<1>6. LetsGo(w, new, r)
  <2>1. /\ HoldsJob(w) => r = row
        /\ ~HoldsJob(w) => r = jobs[x]
    OBVIOUS
  <2> HIDE DEF new, r
  <2> QED BY <1>2, <1>5, <2>1 DEF LetsGo
<1> QED BY <1>6

\* What has become of the job a worker holds, by the worker's step.
LEMMA HeldRow ==
    ASSUME Parts, HandoverInv, NEW w \in Senders
    PROVE  /\ sender[w].key \in Keys /\ jobs[sender[w].key] \in JobRows /\ RowTyped(jobs[sender[w].key])
           /\ sends[sender[w].key] > 0 => jobs[sender[w].key].result = TRUE
           /\ HoldsJob(w) /\ sender[w].pc \in PreSend =>
                ~(sends[sender[w].key] > 0) /\ sender[w].key \notin obsolete
           /\ sender[w].pc \in PostSend /\ sends[sender[w].key] > 0 =>
                sender[w].pc \in {"record", "finish"} \/ (sender[w].pc = "fail" /\ sender[w].outcome = "DELIVERY_UNKNOWN")
           /\ sender[w].pc \in PostSend /\ sender[w].key \in obsolete =>
                sender[w].pc = "guard" /\ Outdated(sender[w].key)
<1> DEFINE x == sender[w].key
<1>1. x \in Keys /\ jobs[x] \in JobRows /\ RowTyped(jobs[x])
  BY DEF Parts, SendersTyped, SenderStates, RowsTyped
<1>2. SentRow(x) /\ ObsoleteRow(x)
  BY <1>1 DEF HandoverInv
<1>3. HoldsJob(w) /\ sender[w].pc \in PreSend => ~(sends[x] > 0) /\ x \notin obsolete
  <2>1. HoldsJob(w) /\ sender[w].pc \in PreSend => jobs[x].status = "PROCESSING"
    BY HolderAlone
  <2> HIDE DEF x
  <2> QED BY <1>2, <2>1 DEF SentRow, ObsoleteRow
<1>4. /\ sends[x] > 0 => jobs[x].result = TRUE
      /\ sender[w].pc \in PostSend /\ sends[x] > 0 =>
           sender[w].pc \in {"record", "finish"} \/ (sender[w].pc = "fail" /\ sender[w].outcome = "DELIVERY_UNKNOWN")
  BY <1>2 DEF SentRow
<1>5. sender[w].pc \in PostSend /\ x \in obsolete => sender[w].pc = "guard" /\ Outdated(x)
  BY <1>2 DEF ObsoleteRow
<1> QED BY <1>1, <1>3, <1>4, <1>5

\* A fenced write lets the job go in a state that fits what became of its message.
LEMMA ReleaseDone ==
    ASSUME Parts, HandoverInv, NEW w \in Senders, NEW row, RowTyped(row), jobs' = Fenced(w, row),
           row.rev = jobs[sender[w].key].rev, row.token = 0,
           row.status \in {"COMPLETED", "CANCELLED", "RETRY", "FAILED", "DELIVERY_UNKNOWN"},
           row.result = TRUE => jobs[sender[w].key].result = TRUE \/ Carries(w, sender[w].key),
           Rest(w) \/ (To(w, "blame") /\ sender[w].token # 0),
           UNCHANGED <<world, request, past>>, UNCHANGED paper,
           HoldsJob(w) =>
             /\ sends[sender[w].key] > 0 => /\ row.status \in {"COMPLETED", "DELIVERY_UNKNOWN"}
                                            /\ row.result = TRUE
             /\ sender[w].key \in obsolete => (row.status = "CANCELLED" /\ row.code # "DISABLED")
    PROVE  StepDone(w)
<1>1. Around /\ appt' = appt /\ sends' = sends /\ obsolete' = obsolete /\ PastTyped'
  BY QuietAround
<1>2. PICK new, r : LetsGo(w, new, r) /\ (HoldsJob(w) => r = row)
  BY FencedLetsGo
<1>3. HoldsJob(w) =>
             /\ sends[sender[w].key] > 0 => /\ r.status \in {"COMPLETED", "DELIVERY_UNKNOWN"}
                                            /\ r.result = TRUE
             /\ sender[w].key \in obsolete => (r.status = "CANCELLED" /\ r.code # "DISABLED")
  BY <1>2
<1> QED BY <1>1, <1>2, <1>3, LetsGoDone

LEMMA CodedTyped ==
    ASSUME NEW j \in JobRows, NEW code \in {"none", "DISABLED", "ISSUED"}
    PROVE  /\ RowTyped([Released(j, "CANCELLED") EXCEPT !.code = code])
           /\ [Released(j, "CANCELLED") EXCEPT !.code = code].status = "CANCELLED"
           /\ [Released(j, "CANCELLED") EXCEPT !.code = code].token = 0
           /\ [Released(j, "CANCELLED") EXCEPT !.code = code].rev = j.rev
           /\ [Released(j, "CANCELLED") EXCEPT !.code = code].result = j.result
           /\ [Released(j, "CANCELLED") EXCEPT !.code = code].code = code
<1> DEFINE p == Released(j, "CANCELLED")
<1>1. /\ RowTyped(p) /\ p \in JobRows /\ p.status = "CANCELLED" /\ p.token = 0
      /\ p.rev = j.rev /\ p.result = j.result
  BY ReleasedTyped DEF JobStates, RowTyped
<1> HIDE DEF p
<1>2. /\ [p EXCEPT !.code = code].status = p.status /\ [p EXCEPT !.code = code].token = p.token
      /\ [p EXCEPT !.code = code].rev = p.rev /\ [p EXCEPT !.code = code].result = p.result
      /\ [p EXCEPT !.code = code].code = code
  BY <1>1 DEF JobRows
<1>3. [p EXCEPT !.code = code] \in JobRows
  BY <1>1 DEF JobRows
<1>4. RowTyped([p EXCEPT !.code = code])
  BY <1>1, <1>2, <1>3 DEF RowTyped
<1> QED BY <1>1, <1>2, <1>4 DEF p

\* A worker gives its job up before it became SENDING, or at the last check.
LEMMA GivesUpDone ==
    ASSUME Parts, HandoverInv, NEW w \in Senders, NEW code \in {"none", "DISABLED", "ISSUED"},
           GivesUp(w, code), UNCHANGED <<world, request, past>>, UNCHANGED paper,
           sender[w].pc \in PreSend \/ (sender[w].pc = "guard" /\ code = "none")
    PROVE  StepDone(w)
<1> DEFINE x == sender[w].key
           row == [Released(jobs[x], "CANCELLED") EXCEPT !.code = code]
<1>1. /\ x \in Keys /\ jobs[x] \in JobRows /\ RowTyped(jobs[x])
      /\ HoldsJob(w) /\ sender[w].pc \in PreSend => ~(sends[x] > 0) /\ x \notin obsolete
      /\ sender[w].pc = "guard" => ~(sends[x] > 0)
  BY HeldRow DEF PostSend
<1>2. /\ RowTyped(row) /\ row.status = "CANCELLED" /\ row.token = 0 /\ row.rev = jobs[x].rev
      /\ row.result = jobs[x].result /\ row.code = code
  BY <1>1, CodedTyped
<1>3. jobs' = Fenced(w, row) /\ Rest(w)
  BY DEF GivesUp
<1>4. HoldsJob(w) => ~(sends[x] > 0) /\ (x \in obsolete => code = "none")
  BY <1>1
<1> HIDE DEF row
<1>5. /\ row.status \in {"COMPLETED", "CANCELLED", "RETRY", "FAILED", "DELIVERY_UNKNOWN"}
      /\ row.result = TRUE => jobs[x].result = TRUE \/ Carries(w, x)
      /\ HoldsJob(w) =>
             /\ sends[x] > 0 => row.status \in {"COMPLETED", "DELIVERY_UNKNOWN"} /\ row.result = TRUE
             /\ x \in obsolete => (row.status = "CANCELLED" /\ row.code # "DISABLED")
  BY <1>2, <1>4
<1> QED BY <1>2, <1>3, <1>5, ReleaseDone

\* A worker puts its job off, unsent, to try it again.
LEMMA RetriesDone ==
    ASSUME Parts, HandoverInv, NEW w \in Senders, sender[w].pc \in PreSend,
           jobs' = Fenced(w, Released(jobs[sender[w].key], "RETRY")), Rest(w),
           UNCHANGED <<world, request, past>>, UNCHANGED paper
    PROVE  StepDone(w)
<1> DEFINE x == sender[w].key
           row == Released(jobs[x], "RETRY")
<1>1. /\ x \in Keys /\ jobs[x] \in JobRows
      /\ HoldsJob(w) => ~(sends[x] > 0) /\ x \notin obsolete
  BY HeldRow
<1>2. /\ RowTyped(row) /\ row.status = "RETRY" /\ row.token = 0 /\ row.rev = jobs[x].rev
      /\ row.result = jobs[x].result
  BY <1>1, ReleasedTyped DEF JobStates, Undelivered, Due
<1>3. jobs' = Fenced(w, row)
  OBVIOUS
<1> HIDE DEF row
<1> QED BY <1>1, <1>2, <1>3, ReleaseDone

\* A worker goes on, with its job and the message as they are.
LEMMA GoesOn ==
    ASSUME Parts, HandoverInv, NEW w \in Senders, NEW pc \in PreSend, sender[w].pc \in PreSend,
           To(w, pc), jobs' = jobs, UNCHANGED <<world, request, past>>, UNCHANGED paper,
           \/ sender[w].key[1] # "waiver"
           \/ sender[w].result = TRUE \/ sender[w].pc = "retime"
           \/ pc \notin {"retime", "attach"}
    PROVE  StepDone(w)
<1>1. Around /\ appt' = appt /\ sends' = sends /\ obsolete' = obsolete /\ PastTyped'
  BY QuietAround
<1>2. PICK new : Rereads(w, new) /\ new.pc = pc
  BY ToRereads
<1>3. new.pc \notin PostSend
  BY <1>2 DEF PreSend, PostSend
<1>4. \/ sender[w].key[1] # "waiver"
      \/ sender[w].result = TRUE \/ sender[w].pc \in {"retime", "attach"} \cup PostSend
      \/ new.pc \notin {"retime", "attach"} \cup PostSend
  BY <1>2, <1>3
<1> QED BY <1>1, <1>2, <1>3, <1>4, RereadDone

LEMMA ClaimDone ==
    ASSUME Parts, HandoverInv, NEW w \in Senders, ClaimJob(w)
    PROVE  StepDone(w)
<1>1. UNCHANGED <<world, request, past>> /\ UNCHANGED paper
  BY DEF ClaimJob
<1>2. Around /\ appt' = appt /\ sends' = sends /\ obsolete' = obsolete /\ PastTyped'
  BY <1>1, QuietAround
<1>3. PICK new, k, row : Claims(w, new, k, row)
  BY ClaimsHappen
<1>4. HandoverInv'
  BY <1>2, <1>3, ClaimsKeepHandover
<1>5. \E n, x, r : Acts(w, n, x, r)
  BY <1>3 DEF Claims
<1> QED BY <1>2, <1>4, <1>5 DEF StepDone

LEMMA CheckDone ==
    ASSUME Parts, HandoverInv, NEW w \in Senders, CheckJob(w)
    PROVE  StepDone(w)
<1> DEFINE k == sender[w].key
<1>1. /\ UNCHANGED <<world, request, past>> /\ UNCHANGED paper
      /\ sender[w].pc = "check" /\ sender[w].pc \in PreSend
  BY DEF CheckJob, PreSend
<1>2. \/ GivesUp(w, "DISABLED") \/ GivesUp(w, "none") \/ GivesUp(w, "ISSUED")
      \/ k[1] # "waiver" /\ To(w, "attach") /\ jobs' = jobs
      \/ jobs' = Fenced(w, Released(jobs[k], "RETRY")) /\ Rest(w)
      \/ sender[w].result /\ To(w, "retime") /\ jobs' = jobs
      \/ To(w, "issue") /\ jobs' = jobs
  BY DEF CheckJob
<1>3. sender[w].result \in BOOLEAN
  BY DEF Parts, SendersTyped, SenderStates
<1>4. CASE GivesUp(w, "DISABLED") \/ GivesUp(w, "none") \/ GivesUp(w, "ISSUED")
  BY <1>1, <1>4, GivesUpDone
<1>5. CASE k[1] # "waiver" /\ To(w, "attach") /\ jobs' = jobs
  BY <1>1, <1>5, GoesOn DEF PreSend
<1>6. CASE jobs' = Fenced(w, Released(jobs[k], "RETRY")) /\ Rest(w)
  BY <1>1, <1>6, RetriesDone
<1>7. CASE sender[w].result /\ To(w, "retime") /\ jobs' = jobs
  BY <1>1, <1>3, <1>7, GoesOn DEF PreSend
<1>8. CASE To(w, "issue") /\ jobs' = jobs
  BY <1>1, <1>8, GoesOn DEF PreSend
<1> QED BY <1>2, <1>4, <1>5, <1>6, <1>7, <1>8

\* The send time is read again: the worker has the message.
LEMMA RetimeDone ==
    ASSUME Parts, HandoverInv, NEW w \in Senders, Retime(w)
    PROVE  StepDone(w)
<1> DEFINE x == sender[w].key
           row == [Released(jobs[x], "RETRY") EXCEPT !.result = TRUE]
<1>1. /\ UNCHANGED <<world, request, past>> /\ UNCHANGED paper
      /\ sender[w].pc = "retime" /\ sender[w].pc \in PreSend
  BY DEF Retime, PreSend
<1>2. CASE ~early
  BY <1>1, <1>2, GoesOn DEF Retime, PreSend
<1>3. CASE early
  <2>1. jobs' = Fenced(w, row) /\ Rest(w)
    BY <1>3 DEF Retime
  <2>2. /\ x \in Keys /\ jobs[x] \in JobRows
        /\ HoldsJob(w) => ~(sends[x] > 0) /\ x \notin obsolete
    BY <1>1, HeldRow
  <2>3. /\ RowTyped(row) /\ row.status = "RETRY" /\ row.token = 0 /\ row.rev = jobs[x].rev
    <3> DEFINE p == Released(jobs[x], "RETRY")
    <3>1. RowTyped(p) /\ p \in JobRows /\ p.status = "RETRY" /\ p.token = 0 /\ p.rev = jobs[x].rev
      BY <2>2, ReleasedTyped DEF JobStates, Undelivered, Due, RowTyped
    <3> HIDE DEF p
    <3>2. /\ [p EXCEPT !.result = TRUE] \in JobRows /\ [p EXCEPT !.result = TRUE].status = p.status
          /\ [p EXCEPT !.result = TRUE].token = p.token /\ [p EXCEPT !.result = TRUE].rev = p.rev
      BY <3>1 DEF JobRows
    <3>3. RowTyped([p EXCEPT !.result = TRUE])
      BY <3>1, <3>2 DEF RowTyped
    <3> QED BY <3>1, <3>2, <3>3 DEF p
  <2>4. Carries(w, x)
    BY <1>1 DEF Carries
  <2> HIDE DEF row
  <2> QED BY <1>1, <2>1, <2>2, <2>3, <2>4, ReleaseDone
<1> QED BY <1>2, <1>3

LEMMA IssueDone ==
    ASSUME Parts, HandoverInv, NEW w \in Senders, IssueLink(w)
    PROVE  StepDone(w)
<1>1. /\ UNCHANGED <<world, request, past>> /\ signed' = signed
      /\ sender[w].pc = "issue" /\ sender[w].pc \in PreSend /\ "retime" \in PreSend
  BY DEF IssueLink, PreSend
<1>2. CASE Issued
  <2>1. GivesUp(w, "ISSUED") /\ links' = links
    BY <1>2 DEF IssueLink
  <2>2. UNCHANGED paper
    BY <1>1, <2>1 DEF paper
  <2> QED BY <1>1, <2>1, <2>2, GivesUpDone
<1>3. CASE ~Issued
  <2>1. /\ To(w, "retime") /\ jobs' = jobs
        /\ links' = IF form = "assigned" THEN [links EXCEPT !["maia"] = "PENDING"] ELSE links
    BY <1>3 DEF IssueLink
  <2>2. /\ Around /\ appt' = appt /\ sends' = sends /\ obsolete' = obsolete /\ PastTyped'
        /\ form' = form /\ (form = "assigned" => Issued')
    <3>1. CASE form = "assigned"
      <4>1. links' = [links EXCEPT !["maia"] = "PENDING"] /\ "PENDING" \in WaiverStates \ {"NONE"}
        BY <2>1, <3>1 DEF WaiverStates
      <4> QED BY <1>1, <4>1, LinkedAround DEF Around, world
    <3>2. CASE form # "assigned"
      <4>1. UNCHANGED paper
        BY <1>1, <2>1, <3>2 DEF paper
      <4> QED BY <1>1, <3>2, <4>1, QuietAround DEF Around, world
    <3> QED BY <3>1, <3>2
  <2>3. PICK new : Rereads(w, new) /\ new.pc = "retime"
    BY <1>1, <2>1, ToRereads
  <2>4. new.pc \notin PostSend
    BY <2>3 DEF PostSend
  <2>5. Leases' /\ \A v \in Senders : Handover(v)'
    BY <2>3, RereadsKeepLeases
  <2>6. \A k \in Keys : SentRow(k)' /\ ObsoleteRow(k)'
    BY <2>2, <2>3, <2>4, RereadsKeepRows
  <2>7. OneOwner'
    <3>1. CASE form = "assigned"
      <4>1. \A k \in Keys : ~Owner(k)
        BY <1>3, <3>1 DEF HandoverInv, OneOwner
      <4>2. /\ sender'[w] = new /\ \A v \in Senders : v # w => sender'[v] = sender[v]
            /\ \A k \in Keys : jobs'[k] = jobs[k]
            /\ new.key = sender[w].key /\ sender[w].key \in Keys
        BY <2>3, ActsShape DEF Rereads, Acts
      <4>3. \A k \in Keys : Owner(k)' => k = sender[w].key
        BY <4>1, <4>2 DEF Owner, Carries
      <4> QED BY <2>2, <3>1, <4>3 DEF OneOwner
    <3>2. CASE form # "assigned"
      BY <2>2, <3>2 DEF OneOwner
    <3> QED BY <3>1, <3>2
  <2>8. \E n, x, row : Acts(w, n, x, row)
    BY <2>3 DEF Rereads
  <2> QED BY <2>2, <2>5, <2>6, <2>7, <2>8 DEF StepDone, HandoverInv
<1> QED BY <1>2, <1>3

\* A worker that no longer has its job does nothing.
LEMMA IdleLetsGo ==
    ASSUME Parts, NEW w \in Senders, ~HoldsJob(w), Rest(w), jobs' = jobs
    PROVE  \E new : LetsGo(w, new, jobs[sender[w].key])
<1> DEFINE x == sender[w].key
<1>1. sender[w] \in SenderStates /\ x \in Keys /\ RowTyped(jobs[x]) /\ jobs \in [Keys -> JobRows]
  BY DEF Parts, SendersTyped, RowsTyped, SenderStates
<1>2. /\ Resting \in SenderStates /\ Resting.token = 0 /\ Resting.pc = "rest" /\ Resting.result = FALSE
      /\ Resting.key[1] # "waiver"
  BY KeysInclude DEF Resting, SenderStates
<1>3. jobs' = [jobs EXCEPT ![x] = jobs[x]]
  BY <1>1
<1>4. LetsGo(w, Resting, jobs[x])
  BY <1>1, <1>2, <1>3 DEF LetsGo, Acts, Rest
<1> QED BY <1>4

LEMMA AttachDone ==
    ASSUME Parts, HandoverInv, NEW w \in Senders, Attach(w)
    PROVE  StepDone(w)
<1> DEFINE x == sender[w].key
<1>1. /\ sender[w].pc = "attach" /\ UNCHANGED <<world, request, sends, missed>> /\ UNCHANGED paper
      /\ sender[w] \in SenderStates /\ x \in Keys /\ jobs[x] \in JobRows /\ RowTyped(jobs[x])
  BY HeldRow DEF Attach, Parts, SendersTyped
<1>2. Around /\ appt' = appt /\ sends' = sends
  <2>1. PaperTyped' /\ links' = links
    BY <1>1, PaperStays
  <2>2. Issued => Issued'
    BY <2>1 DEF Issued
  <2> QED BY <1>1, <2>1, <2>2 DEF Around, world
<1>3. CASE HoldsJob(w)
  <2> DEFINE pc == IF x[1] = "nudge" THEN "wire" ELSE "guard"
             new == [sender[w] EXCEPT !.pc = pc]
             row == [jobs[x] EXCEPT !.status = "SENDING", !.result = TRUE]
  <2>1. /\ jobs' = [jobs EXCEPT ![x].status = "SENDING", ![x].result = TRUE]
        /\ To(w, pc)
        /\ obsolete' = IF Outdated(x) THEN obsolete \cup {x} ELSE obsolete
    BY <1>3 DEF Attach
  <2>2. PastTyped'
    BY <1>1, <2>1 DEF Parts, PastTyped
  <2>3. jobs' = [jobs EXCEPT ![x] = row] /\ sender' = [sender EXCEPT ![w] = new]
    BY <2>1, <1>1 DEF To, Parts, RowsTyped, SendersTyped
  <2>4. /\ new \in SenderStates /\ new.pc = pc /\ new.key = x /\ new.token = sender[w].token
        /\ new.result = sender[w].result /\ pc \in {"guard", "wire"}
    BY <1>1 DEF SenderStates
  <2>5. pc = "wire" => ~Outdated(x)
    BY DEF Outdated
  <2>6. jobs[x].token # 0 /\ jobs[x].status = "PROCESSING"
    BY <1>1, <1>3, HolderAlone DEF HoldsJob, PreSend
  <2>7. /\ row \in JobRows /\ row.status = "SENDING" /\ row.result = TRUE /\ row.token = jobs[x].token
        /\ row.rev = jobs[x].rev
    BY <1>1 DEF JobRows, JobStates
  <2>8. RowTyped(row)
    BY <2>6, <2>7 DEF RowTyped
  <2> HIDE DEF row, new, pc
  <2>9. Attaches(w, new, row)
    BY <1>1, <1>3, <2>3, <2>4, <2>5, <2>6, <2>7, <2>8 DEF Attaches, Acts
  <2>10. HandoverInv'
    BY <1>2, <2>1, <2>9, AttachesKeepHandover
  <2>11. \E n, y, r : Acts(w, n, y, r)
    BY <2>9 DEF Attaches
  <2> QED BY <1>2, <2>2, <2>10, <2>11 DEF StepDone
<1>4. CASE ~HoldsJob(w)
  <2>1. Rest(w) /\ jobs' = jobs /\ obsolete' = obsolete
    BY <1>4 DEF Attach
  <2>2. PastTyped'
    BY <1>1, <2>1 DEF Parts, PastTyped
  <2>3. PICK new : LetsGo(w, new, jobs[x])
    BY <1>4, <2>1, IdleLetsGo
  <2> QED BY <1>2, <1>4, <2>1, <2>2, <2>3, LetsGoDone
<1> QED BY <1>3, <1>4

LEMMA GuardDone ==
    ASSUME Parts, HandoverInv, NEW w \in Senders, Guard(w)
    PROVE  StepDone(w)
<1> DEFINE x == sender[w].key
<1>1. /\ UNCHANGED <<world, request, past>> /\ UNCHANGED paper
      /\ sender[w].pc = "guard" /\ sender[w].pc \in PostSend /\ "wire" \in PostSend
  BY DEF Guard, PostSend
<1>2. \/ Applies(x[1], jobs[x].rev) /\ To(w, "wire") /\ jobs' = jobs
      \/ GivesUp(w, "none")
  BY DEF Guard
<1>3. CASE Applies(x[1], jobs[x].rev) /\ To(w, "wire") /\ jobs' = jobs
  <2>1. Around /\ appt' = appt /\ sends' = sends /\ obsolete' = obsolete /\ PastTyped'
    BY <1>1, QuietAround
  <2>2. PICK new : Rereads(w, new) /\ new.pc = "wire"
    BY <1>1, <1>3, ToRereads
  <2>3. ~Outdated(x)
    BY <1>3 DEF Applies, ReminderApplies, WaiverApplies, ConfirmationApplies, FollowupApplies, Confirmed, Outdated
  <2>4. ~(sends[x] > 0) /\ x \notin obsolete
    BY <1>1, <2>3, HeldRow
  <2> QED BY <1>1, <2>1, <2>2, <2>4, RereadDone
<1>4. CASE GivesUp(w, "none")
  BY <1>1, <1>4, GivesUpDone
<1> QED BY <1>2, <1>3, <1>4

LEMMA WireDone ==
    ASSUME Parts, HandoverInv, NEW w \in Senders, Wire(w)
    PROVE  StepDone(w)
<1> DEFINE x == sender[w].key
           Counted == [sends EXCEPT ![x] = IF @ < 2 THEN @ + 1 ELSE @]
<1>1. /\ UNCHANGED <<world, request, obsolete, missed>> /\ UNCHANGED paper /\ jobs' = jobs
      /\ sender[w].pc = "wire" /\ sender[w] \in SenderStates /\ x \in Keys /\ RowTyped(jobs[x])
      /\ jobs \in [Keys -> JobRows]
  BY HeldRow DEF Wire, Parts, SendersTyped, RowsTyped
<1>2. PICK new \in SenderStates :
        /\ sender' = [sender EXCEPT ![w] = new]
        /\ new.key = x /\ new.token = sender[w].token /\ new.result = sender[w].result
        /\ new.pc \in {"record", "fail"}
        /\ \/ sends' = sends
           \/ sends' = Counted /\ (new.pc = "record" \/ (new.pc = "fail" /\ new.outcome = "DELIVERY_UNKNOWN"))
  <2>1. CASE sends' = Counted /\ To(w, "record")
    <3> DEFINE new == [sender[w] EXCEPT !.pc = "record"]
    <3>1. /\ new \in SenderStates /\ new.key = x /\ new.token = sender[w].token
          /\ new.result = sender[w].result /\ new.pc = "record"
      BY <1>1 DEF SenderStates
    <3>2. sender' = [sender EXCEPT ![w] = new]
      BY <2>1 DEF To
    <3> HIDE DEF new, Counted
    <3> QED BY <2>1, <3>1, <3>2
  <2>2. ASSUME NEW o \in {"RETRY", "FAILED", "DELIVERY_UNKNOWN"},
               sender' = [sender EXCEPT ![w].pc = "fail", ![w].outcome = o],
               sends' = sends \/ (sends' = Counted /\ o = "DELIVERY_UNKNOWN")
        PROVE  \E new \in SenderStates :
                 /\ sender' = [sender EXCEPT ![w] = new]
                 /\ new.key = x /\ new.token = sender[w].token /\ new.result = sender[w].result
                 /\ new.pc \in {"record", "fail"}
                 /\ \/ sends' = sends
                    \/ sends' = Counted /\ (new.pc = "record" \/ (new.pc = "fail" /\ new.outcome = "DELIVERY_UNKNOWN"))
    <3> DEFINE new == [sender[w] EXCEPT !.pc = "fail", !.outcome = o]
    <3>1. /\ new \in SenderStates /\ new.key = x /\ new.token = sender[w].token
          /\ new.result = sender[w].result /\ new.pc = "fail" /\ new.outcome = o
      BY <1>1 DEF SenderStates
    <3>2. sender' = [sender EXCEPT ![w] = new]
      BY <1>1, <2>2 DEF Parts, SendersTyped
    <3> HIDE DEF new, Counted
    <3> QED BY <2>2, <3>1, <3>2
  <2>3. \/ sends' = Counted /\ To(w, "record")
        \/ /\ sends' \in {sends, Counted}
           /\ sender' = [sender EXCEPT ![w].pc = "fail", ![w].outcome = "DELIVERY_UNKNOWN"]
        \/ /\ sends' = sends
           /\ \E o \in {"FAILED", "RETRY"} :
                sender' = [sender EXCEPT ![w].pc = "fail", ![w].outcome = o]
    <3>1. \A o \in {"FAILED", "RETRY"} :
            (IF o = "RETRY" /\ jobs[x].attempts >= SendAttempts THEN "FAILED" ELSE o) \in {"FAILED", "RETRY"}
      OBVIOUS
    <3> HIDE DEF Counted
    <3> QED BY <3>1 DEF Wire, Counted
  <2> HIDE DEF Counted
  <2> QED BY <2>1, <2>2, <2>3
<1>3. Rereads(w, new)
  <2>1. jobs' = [jobs EXCEPT ![x] = jobs[x]]
    BY <1>1
  <2> QED BY <1>1, <1>2, <2>1 DEF Rereads, Acts, PostSend
<1>4. Around /\ appt' = appt
  <2>1. PaperTyped' /\ links' = links
    BY <1>1, PaperStays
  <2>2. Issued => Issued'
    BY <2>1 DEF Issued
  <2> QED BY <1>1, <2>1, <2>2 DEF Around, world
<1>5. Leases' /\ \A v \in Senders : Handover(v)'
  BY <1>3, RereadsKeepLeases
<1>6. \A k \in Keys : SentRow(k)' /\ ObsoleteRow(k)' /\ sends' \in [Keys -> 0..2]
  BY <1>1, <1>2, <1>3, <1>4, WireKeepsRows
<1>7. OneOwner'
  <2>1. \A k \in Keys : Owner(k)' => Owner(k)
    BY <1>1, <1>3, RereadsKeepOwners DEF PostSend
  <2> QED BY <1>4, <2>1, OwnersStay
<1>8. PastTyped'
  BY <1>1, <1>6 DEF Parts, PastTyped
<1>9. \E n, y, row : Acts(w, n, y, row)
  BY <1>3 DEF Rereads
<1> QED BY <1>4, <1>5, <1>6, <1>7, <1>8, <1>9 DEF StepDone, HandoverInv

LEMMA RecordDone ==
    ASSUME Parts, HandoverInv, NEW w \in Senders, Record(w)
    PROVE  StepDone(w)
<1>1. /\ UNCHANGED <<world, request, past>> /\ signed' = signed /\ jobs' = jobs /\ To(w, "finish")
      /\ sender[w].pc = "record" /\ sender[w].pc \in PostSend /\ "finish" \in PostSend
      /\ links' = links \/ links' = [links EXCEPT !["maia"] = "SENT"]
  BY DEF Record, PostSend
<1>2. Around /\ appt' = appt /\ sends' = sends /\ obsolete' = obsolete /\ PastTyped'
  <2>1. CASE links' = links
    BY <1>1, <2>1, QuietAround DEF paper
  <2>2. CASE links' = [links EXCEPT !["maia"] = "SENT"]
    <3>1. "SENT" \in WaiverStates \ {"NONE"}
      BY DEF WaiverStates
    <3> QED BY <1>1, <2>2, <3>1, LinkedAround
  <2> QED BY <1>1, <2>1, <2>2
<1>3. PICK new : Rereads(w, new) /\ new.pc = "finish"
  BY <1>1, ToRereads
<1>4. sender[w].key \notin obsolete
  BY <1>1, HeldRow
<1> QED BY <1>1, <1>2, <1>3, <1>4, RereadDone

LEMMA FinishDone ==
    ASSUME Parts, HandoverInv, NEW w \in Senders, FinishJob(w)
    PROVE  StepDone(w)
<1> DEFINE x == sender[w].key
           row == Released(jobs[x], "COMPLETED")
<1>1. /\ UNCHANGED <<world, request, past>> /\ UNCHANGED paper /\ jobs' = Fenced(w, row) /\ Rest(w)
      /\ sender[w].pc = "finish" /\ sender[w].pc \in PostSend
  BY DEF FinishJob, PostSend
<1>2. jobs[x] \in JobRows /\ x \notin obsolete /\ (sends[x] > 0 => jobs[x].result = TRUE)
  BY <1>1, HeldRow
<1>3. /\ RowTyped(row) /\ row.status = "COMPLETED" /\ row.token = 0 /\ row.rev = jobs[x].rev
      /\ row.result = jobs[x].result
  BY <1>2, ReleasedTyped DEF JobStates, Undelivered, Due
<1> HIDE DEF row
<1> QED BY <1>1, <1>2, <1>3, ReleaseDone

LEMMA FailDone ==
    ASSUME Parts, HandoverInv, NEW w \in Senders, FailJob(w)
    PROVE  StepDone(w)
<1> DEFINE x == sender[w].key
           o == sender[w].outcome
           row == Released(jobs[x], o)
<1>1. /\ UNCHANGED <<world, request, past>> /\ UNCHANGED paper /\ jobs' = Fenced(w, row)
      /\ To(w, "blame") \/ Rest(w)
      /\ sender[w].pc = "fail" /\ sender[w].pc \in PostSend
  BY DEF FailJob, PostSend
<1>2. /\ jobs[x] \in JobRows /\ x \notin obsolete /\ (sends[x] > 0 => jobs[x].result = TRUE)
      /\ sends[x] > 0 => o = "DELIVERY_UNKNOWN"
  BY <1>1, HeldRow
<1>3. o \in {"RETRY", "FAILED", "DELIVERY_UNKNOWN"} /\ sender[w].token # 0
  BY <1>1 DEF Parts, SendersTyped, SenderStates, HandoverInv, Leases
<1>4. /\ RowTyped(row) /\ row.status = o /\ row.token = 0 /\ row.rev = jobs[x].rev
      /\ row.result = jobs[x].result
  BY <1>2, <1>3, ReleasedTyped DEF JobStates, Undelivered, Due
<1> HIDE DEF row, o
<1> QED BY <1>1, <1>2, <1>3, <1>4, ReleaseDone

\* The link's state is written after the job has been let go.
LEMMA BlameDone ==
    ASSUME Parts, HandoverInv, NEW w \in Senders, BlameLink(w)
    PROVE  StepDone(w)
<1>1. /\ UNCHANGED <<world, request, past>> /\ signed' = signed /\ jobs' = jobs /\ Rest(w)
      /\ sender[w].pc = "blame" /\ sender[w].pc \notin PreSend \cup PostSend
  BY DEF BlameLink, PreSend, PostSend
<1>2. PICK s \in WaiverStates \ {"NONE"} : links' = [links EXCEPT !["maia"] = s]
  <2> DEFINE s == CASE sender[w].outcome = "RETRY" -> "PENDING"
                    [] sender[w].outcome = "FAILED" -> "DELIVERY_FAILED"
                    [] sender[w].outcome = "DELIVERY_UNKNOWN" -> "DELIVERY_UNKNOWN"
  <2>1. sender[w].outcome \in {"RETRY", "FAILED", "DELIVERY_UNKNOWN"}
    BY DEF Parts, SendersTyped, SenderStates
  <2>2. s \in WaiverStates \ {"NONE"}
    BY <2>1 DEF WaiverStates
  <2>3. links' = [links EXCEPT !["maia"] = s]
    BY DEF BlameLink
  <2> HIDE DEF s
  <2> QED BY <2>2, <2>3
<1>3. Around /\ appt' = appt /\ sends' = sends /\ obsolete' = obsolete /\ PastTyped'
  BY <1>1, <1>2, LinkedAround
<1>4. ~HoldsJob(w)
  BY <1>1, HolderAlone
<1>5. PICK new : LetsGo(w, new, jobs[sender[w].key])
  BY <1>1, <1>4, IdleLetsGo
<1> QED BY <1>3, <1>4, <1>5, LetsGoDone

-----------------------------------------------------------------------------
(* The invariant holds.                                                     *)

LEMMA SenderStepDone ==
    ASSUME Parts, HandoverInv, NEW w \in Senders, SenderStep(w)
    PROVE  StepDone(w)
<1> QED BY ClaimDone, CheckDone, IssueDone, RetimeDone, AttachDone, GuardDone, WireDone,
           RecordDone, FinishDone, FailDone, BlameDone DEF SenderStep

\* The types of the rows, spelled out at the next state.
LEMMA TypesNext ==
    ASSUME WorldTyped', PaperTyped', RowsTyped', SendersTyped', RequestsTyped', PastTyped'
    PROVE  LifecycleTypeOK'
<1>1. jobs' \in [Keys -> JobRows]
      /\ \A k \in Keys : jobs'[k].token # 0 <=> jobs'[k].status \in {"PROCESSING", "SENDING"}
  BY DEF RowsTyped, RowTyped
<1> QED BY <1>1 DEF LifecycleTypeOK, WorldTyped, PaperTyped, SendersTyped, RequestsTyped, PastTyped

LEMMA LifecycleStarts == LifecycleInit => LifecycleInv
<1> SUFFICES ASSUME LifecycleInit PROVE LifecycleInv
  OBVIOUS
<1>1. PICK s \in Studios : \E first \in s.calls :
         /\ uses = s.uses /\ upsets = s.upsets
         /\ sender = [w \in Senders |-> IF w \in s.crew THEN Resting ELSE Off]
         /\ request = [r \in Requests |-> [Ready EXCEPT !.pc =
              IF r = first THEN "plan" ELSE IF r \in s.calls THEN "ready" ELSE "done"]]
  BY DEF LifecycleInit
<1>2. PICK first \in s.calls :
         /\ uses = s.uses /\ upsets = s.upsets
         /\ sender = [w \in Senders |-> IF w \in s.crew THEN Resting ELSE Off]
         /\ request = [r \in Requests |-> [Ready EXCEPT !.pc =
              IF r = first THEN "plan" ELSE IF r \in s.calls THEN "ready" ELSE "done"]]
  BY <1>1
<1>3. /\ s.uses \subseteq Automations /\ s.upsets \in 0..2 /\ s.calls \subseteq Requests
      /\ s \in [uses : SUBSET Automations, crew : SUBSET Senders, calls : SUBSET Requests, upsets : 0..2]
  BY StudiosTyped
<1>4. WorldTyped
  <2>1. appt.status = "CONFIRMED" /\ appt.rev = 1
        /\ appt \in [status : {"CONFIRMED", "COMPLETED", "CANCELLED"}, rev : 1..LastRevision]
    BY LifecycleBounds DEF LifecycleInit
  <2> QED BY <1>2, <1>3, <2>1 DEF WorldTyped, LifecycleInit
<1>5. PaperTyped
  BY DEF PaperTyped, LifecycleInit, WaiverStates
<1>6. /\ \A k \in Keys : jobs[k] = NoJob
      /\ NoJob.status = "NONE" /\ NoJob.token = 0 /\ NoJob.result = FALSE
      /\ NoJob \in JobRows
  BY LifecycleBounds DEF LifecycleInit, NoJob, JobRows
<1>7. RowsTyped
  BY <1>6 DEF RowsTyped, RowTyped, LifecycleInit
<1>8. /\ \A w \in Senders : sender[w] \in {Resting, Off}
      /\ sender \in [Senders -> {Resting, Off}]
  BY <1>2
<1>9. /\ Resting \in SenderStates /\ Resting.token = 0 /\ Resting.pc = "rest" /\ Resting.result = FALSE
      /\ Off \in SenderStates /\ Off.token = 0 /\ Off.pc = "off" /\ Off.result = FALSE
  BY KeysInclude DEF Resting, Off, SenderStates
<1>10. SendersTyped
  BY <1>8, <1>9 DEF SendersTyped
<1>11. /\ \A r \in Requests : request[r] = [Ready EXCEPT !.pc =
              IF r = first THEN "plan" ELSE IF r \in s.calls THEN "ready" ELSE "done"]
       /\ \A p \in {"plan", "ready", "done"} :
            [Ready EXCEPT !.pc = p] \in RequestStates /\ [Ready EXCEPT !.pc = p].pc = p
  BY <1>2, LifecycleBounds DEF Ready, RequestStates
<1>12. RequestsTyped
  <2>1. \A r \in Requests : request[r] \in RequestStates
    BY <1>11
  <2> QED BY <1>2, <2>1 DEF RequestsTyped
<1>13. PastTyped
  <2>1. sends = [k \in Keys |-> 0] /\ obsolete = {} /\ missed = FALSE /\ 0 \in 0..2
    BY DEF LifecycleInit
  <2>2. [k \in Keys |-> 0] \in [Keys -> 0..2]
    BY <2>1
  <2> QED BY <2>1, <2>2 DEF PastTyped
<1>14. \A w \in Senders : sender[w].token = 0 /\ sender[w].pc \in {"off", "rest"} /\ sender[w].result = FALSE
  BY <1>8, <1>9
<1>15. Leases /\ OneOwner
  <2>1. Leases
    BY <1>6, <1>14 DEF Leases
  <2>2. \A k \in Keys : ~Owner(k)
    BY <1>6, <1>14 DEF Owner, Carries, PostSend
  <2> QED BY <2>1, <2>2 DEF OneOwner
<1>16. \A w \in Senders : Handover(w)
  BY <1>14 DEF Handover, PostSend
<1>17. \A k \in Keys : SentRow(k) /\ ObsoleteRow(k)
  BY DEF LifecycleInit, SentRow, ObsoleteRow
<1>18. PlanInv
  <2>1. \A k \in Keys : RowFits(k)
    BY <1>6 DEF RowFits
  <2>2. request[first].pc = "plan" /\ first \in Requests
    BY <1>3, <1>11
  <2>3. \A r \in Requests : request[r].pc \in {"plan", "ready", "done"}
    BY <1>11
  <2> QED BY <2>1, <2>2, <2>3 DEF PlanInv, PlansFit, Covered, WillPlan
<1> QED BY <1>4, <1>5, <1>7, <1>10, <1>12, <1>13, <1>15, <1>16, <1>17, <1>18, TypesByPart
        DEF LifecycleInv, HandoverInv

LEMMA LifecycleKept ==
    ASSUME LifecycleInv, [LifecycleNext]_lifecycleVars PROVE LifecycleInv'
<1>1. Parts /\ HandoverInv
  BY PartsHold DEF LifecycleInv
<1>2. CASE \E w \in Senders : SenderStep(w)
  <2>1. PICK w \in Senders : SenderStep(w)
    BY <1>2
  <2>2. StepDone(w)
    BY <1>1, <2>1, SenderStepDone
  <2>3. PICK new, x, row : Acts(w, new, x, row)
    BY <2>2 DEF StepDone
  <2>4. Around /\ HandoverInv' /\ PastTyped' /\ PaperTyped'
    BY <2>2 DEF StepDone, Around
  <2>5. PlanInv' /\ RowsTyped' /\ SendersTyped' /\ WorldTyped' /\ RequestsTyped'
    BY <1>1, <2>3, <2>4, ActsKeepPlans
  <2>6. LifecycleTypeOK'
    BY <2>4, <2>5, TypesNext
  <2> QED BY <2>4, <2>5, <2>6 DEF LifecycleInv
<1>3. CASE \A w \in Senders : ~SenderStep(w)
  <2>1. OthersStep
    BY <1>3, OthersMove
  <2>2. HandoverInv' /\ \A k \in Keys : RowFits(k)'
    BY <2>1, OthersKeepHandover, OthersKeepRows
  <2>3. RowsTyped'
    BY <2>1 DEF OthersStep, RowsMove, RowMoves, RowsTyped
  <2>4. SendersTyped' /\ PastTyped'
    BY <1>1, <2>1 DEF OthersStep, Parts, SendersTyped, PastTyped
  <2>5. LifecycleTypeOK'
    BY <2>1, <2>3, <2>4, TypesNext DEF OthersStep
  <2> QED BY <2>1, <2>2, <2>5 DEF LifecycleInv, PlanInv, OthersStep
<1> QED BY <1>2, <1>3

\* The inductive invariant: leases belong to one worker each, what was handed over is
\* never retried, obsolete jobs stop at the last check, only one waiver job owns an
\* assigned link, and what the settings ask for is planned.
THEOREM LifecycleInvariant == LifecycleSpec => []LifecycleInv
<1>1. LifecycleInit => LifecycleInv
  BY LifecycleStarts
<1>2. LifecycleInv /\ [LifecycleNext]_lifecycleVars => LifecycleInv'
  BY LifecycleKept
<1> QED BY <1>1, <1>2, PTL DEF LifecycleSpec

-----------------------------------------------------------------------------
(* What the runs check, for every number of workers and revisions.          *)

LEMMA InvariantSendsOnce == LifecycleInv => JobsSafe
<1> SUFFICES ASSUME LifecycleInv PROVE JobsSafe
  OBVIOUS
<1>1. \A k \in Keys : SentRow(k) /\ sends[k] \in 0..2
  BY DEF LifecycleInv, HandoverInv, LifecycleTypeOK
<1>2. \A k \in Keys : sends[k] <= 1
  BY <1>1 DEF SentRow
<1>3. ASSUME form = "assigned", NEW i \in 1..LastRevision, NEW j \in 1..LastRevision,
             sends[<<"waiver", i>>] > 0, sends[<<"waiver", j>>] > 0
      PROVE  i = j
  <2>1. ASSUME NEW n \in 1..LastRevision, sends[<<"waiver", n>>] > 0
        PROVE  <<"waiver", n>> \in Keys /\ Owner(<<"waiver", n>>)
    <3>1. <<"waiver", n>> \in Keys
      BY KeysInclude DEF KeyOf, PerRevision, Automations
    <3> QED BY <1>1, <2>1, <3>1 DEF SentRow, Owner
  <2>2. <<"waiver", i>> = <<"waiver", j>>
    BY <1>3, <2>1 DEF LifecycleInv, HandoverInv, OneOwner
  <2> QED BY <2>2
<1> QED BY <1>2, <1>3 DEF JobsSafe, SentOnce, LifecycleInv

LEMMA InvariantStopsObsolete == LifecycleInv => ObsoleteNotSent
<1>1. LifecycleInv => obsolete \subseteq Keys
  BY DEF LifecycleInv, LifecycleTypeOK
<1> QED BY <1>1 DEF LifecycleInv, HandoverInv, ObsoleteRow, ObsoleteNotSent

LEMMA InvariantCovers == LifecycleInv => RevisionCovered
<1> SUFFICES ASSUME LifecycleInv,
                    ~missed /\ \A r \in Requests : request[r].pc \in {"ready", "done"},
                    appt.status = "CONFIRMED" /\ "waiver" \in settings
             PROVE  jobs[KeyOf("waiver", appt.rev)].status # "NONE"
                    /\ jobs[KeyOf("waiver", appt.rev)].rev = appt.rev
  BY DEF RevisionCovered
<1> DEFINE k == KeyOf("waiver", appt.rev)
<1>1. /\ appt.rev \in 1..LastRevision /\ k \in Keys /\ k[1] = "waiver" /\ k[2] = appt.rev
      /\ k[1] \in PerRevision
  BY KeysInclude DEF LifecycleInv, LifecycleTypeOK, KeyOf, PerRevision, Automations
<1>2. \A r \in Requests : ~WillPlan(r)
  BY DEF WillPlan
<1>3. jobs[k].status # "NONE"
  BY <1>2 DEF LifecycleInv, PlanInv, Covered
<1>4. RowFits(k)
  BY <1>1 DEF LifecycleInv, PlanInv
<1> HIDE DEF k
<1>5. jobs[k].rev = appt.rev
  BY <1>1, <1>3, <1>4 DEF RowFits, Fits
<1> QED BY <1>3, <1>5 DEF k

\* No job's message is accepted by the provider twice, whatever workers stop, leases
\* expire, jobs are retried, or settings are saved, and of the waiver jobs of all
\* revisions only one ever texts an assigned link.
THEOREM TextsAreSentOnce == LifecycleSpec => []JobsSafe
BY LifecycleInvariant, InvariantSendsOnce, PTL

\* A text whose appointment was already over or moved when its job became SENDING is
\* never sent.
THEOREM ObsoleteTextsStop == LifecycleSpec => []ObsoleteNotSent
BY LifecycleInvariant, InvariantStopsObsolete, PTL

\* However moves, settings and scheduling overlap, the waiver job of a confirmed
\* appointment's current revision is there once every request has ended as it should.
THEOREM RevisionsAreCovered == LifecycleSpec => []RevisionCovered
BY LifecycleInvariant, InvariantCovers, PTL
=============================================================================
