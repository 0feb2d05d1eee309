---------------------------- MODULE DeliveryProofs ----------------------------
(***************************************************************************)
(* Proofs about ResourceDelivery, for any items, budgets and numbers of     *)
(* senders that overlap or die: what the run of MCResourceDelivery checks    *)
(* for one item.                                                           *)
(***************************************************************************)
EXTENDS ResourceDelivery, OutboxProofs

-----------------------------------------------------------------------------
(* The outbox under the senders.  A step of the delivery is a step of the      *)
(* outbox, or writes a content state and nothing else of it.                  *)

AnswersInv == \A a \in answers : a.item \in Items /\ a.verdict \in Verdicts

ReleasesInv ==
  \A i \in releases : i \in Items /\ task[i] \in {"completed", "failed", "quarantine"}

(* What is true of a sender at any time: it was given its item by the outbox,   *)
(* opened the row it waits for, and an acceptance it reports was one.          *)
Right(s) ==
  /\ s \in Sender
  /\ status[s.item] # "absent"
  /\ s.phase \in {"posted", "answered"} => s.reply # "none"
  /\ s.phase = "posting" => ledger[s.item][s.try] # "none"
  /\ s.reply \in Replies => s.item \in applied

SenderInv == \A s \in senders : Right(s)

Aside ==
  /\ UNCHANGED <<status, attempt, lease, dispatched, task, quotaVars, bucketVars, clockVars>>
  /\ content' \in [Revisions -> ContentState]

LEMMA VerifyAside ==
  ASSUME OutboxTypeOK, NEW i \in Items, NEW found, Verify(i, found)
  PROVE  Aside
  <1>1. content' \in [Revisions -> ContentState]
    BY DEF Verify, OutboxTypeOK, ContentState
  <1> QED BY <1>1 DEF Verify, Aside

LEMMA ReportIsStep ==
  ASSUME SenderInv, NEW s \in senders, Report(s)
  PROVE  [OutboxNext]_outboxVars
  <1>1. s.item \in Items /\ s.verified \in BOOLEAN
    BY DEF SenderInv, Right, Sender
  <1>2. CASE lease[s.item] # s.token
    BY <1>2 DEF Report
  <1>3. CASE lease[s.item] = s.token /\ s.reply \in Replies
    <2>1. Semantic(s.reply) \in {"accepted", "processing", "completed"}
      BY DEF Semantic
    <2> QED BY <1>1, <1>3, <2>1 DEF Report, OutboxNext
  <1>4. CASE lease[s.item] = s.token /\ s.reply \notin Replies
    <2>1. FailRateLimited(s.item) \/ FailTransient(s.item) \/ FailPermanent(s.item)
      <3>1. s.reply \in {"none", "unresolved"} \union Replies \union Faults
        BY DEF SenderInv, Right, Sender
      <3>2. s.reply # "none"
        BY DEF Report, SenderInv, Right
      <3>3. s.reply \in {"429", "transient", "unresolved", "permanent"}
        BY <1>4, <3>1, <3>2 DEF Faults
      <3> QED BY <1>4, <3>3 DEF Report
    <2> QED BY <1>1, <2>1 DEF OutboxNext
  <1> QED BY <1>2, <1>3, <1>4

LEMMA RecordIsStep ==
  ASSUME ItemInv, AnswersInv, NEW a \in answers, RecordPoll(a)
  PROVE  [OutboxNext]_outboxVars \/ Aside
  <1>1. a.item \in Items /\ a.verdict \in Verdicts /\ ObserveTask(a.item, a.verdict)
    BY DEF AnswersInv, RecordPoll
  <1>2. CASE task[a.item] \in {"accepted", "processing"}
    BY <1>1, <1>2 DEF OutboxNext, Verdicts
  <1>3. CASE task[a.item] \notin {"accepted", "processing"}
    <2>1. task' = task
      BY <1>1, <1>3 DEF ObserveTask, TaskAfter, ItemInv, OutboxTypeOK
    <2>2. content' \in [Revisions -> ContentState]
      BY <1>1 DEF ObserveTask, ItemInv, OutboxTypeOK, ContentState
    <2> QED BY <1>1, <2>1, <2>2 DEF ObserveTask, Aside
  <1> QED BY <1>2, <1>3

LEMMA DeliveryIsOutbox ==
  ASSUME ItemInv, SenderInv, AnswersInv, ReleasesInv, [DeliveryNext]_deliveryVars
  PROVE  [OutboxNext]_outboxVars \/ Aside
  <1> DEFINE Goal == [OutboxNext]_outboxVars \/ Aside
  <1>a. ASSUME NEW i \in Items, NEW found, Verify(i, found) PROVE Goal
    BY <1>a, VerifyAside DEF ItemInv
  <1>1. ASSUME NEW i \in Items, NEW open \in BOOLEAN, Submit(i, open) \/ Claim(i, open)
        PROVE  Goal
    BY <1>1 DEF Submit, Claim, OutboxNext
  <1>2. CASE ClaimNothing
    BY <1>2 DEF ClaimNothing, OutboxNext
  <1>3. ASSUME NEW s \in senders, SenderStep(s) PROVE Goal
    <2>1. CASE Report(s)
      BY <2>1, ReportIsStep
    <2>2. ASSUME NEW found \in BOOLEAN, ReadBack(s, found) PROVE Goal
      <3>1. s.item \in Items
        BY DEF SenderInv, Right, Sender
      <3> QED BY <1>a, <2>2, <3>1 DEF ReadBack
    <2>3. ASSUME \/ BeginUpload(s) \/ UploadAnswered(s) \/ RefuseAdd(s) \/ BeginAdd(s)
                 \/ ReuseAdd(s)
                 \/ \E fault \in Faults : UploadFails(s, fault) \/ AddFails(s, fault)
                 \/ \E reply \in Replies : AddAnswered(s, reply)
          PROVE  Goal
      <3>1. UNCHANGED outboxVars
        BY <2>3 DEF BeginUpload, UploadAnswered, RefuseAdd, BeginAdd, ReuseAdd, UploadFails,
           AddFails, AddAnswered
      <3> QED BY <3>1
    <2> QED BY <1>3, <2>1, <2>2, <2>3 DEF SenderStep
  <1>4. ASSUME NEW i \in Items, ReconcileContent(i) PROVE Goal
    BY <1>4, <1>a DEF ReconcileContent
  <1>5. CASE RecordPolls
    BY <1>5, RecordIsStep DEF RecordPolls
  <1>6. ASSUME NEW i \in Items, FinishRelease(i) PROVE Goal
    BY <1>6 DEF FinishRelease, ReleasesInv, OutboxNext
  <1>7. CASE DeliveryTime
    BY <1>7 DEF DeliveryTime, OutboxNext
  <1>8. ASSUME \/ \E s \in senders : SenderDies(s)
               \/ Polls \/ ObserverDies
               \/ \E i \in Items, result \in {"done", "failed"} : RemoteEnds(i, result)
               \/ UNCHANGED deliveryVars
        PROVE  Goal
    <2>1. UNCHANGED outboxVars
      BY <1>8 DEF SenderDies, Polls, Poll, ObserverDies, RemoteEnds, deliveryVars
    <2> QED BY <2>1
  <1> QED
    BY <1>1, <1>2, <1>3, <1>4, <1>5, <1>6, <1>7, <1>8 DEF DeliveryNext, FinishReleases

LEMMA ItemStays ==
  ASSUME ItemInv, [OutboxNext]_outboxVars \/ Aside
  PROVE  ItemInv'
  <1>1. CASE [OutboxNext]_outboxVars
    BY <1>1, ItemStep
  <1>2. CASE Aside
    BY <1>2 DEF Aside, ItemInv, OutboxTypeOK, LeaseAgreement, AttemptBudget, TaskAgreement,
       quotaVars, bucketVars, clockVars
  <1> QED BY <1>1, <1>2

(* A task that ended stays ended, and an item that was accepted is not forgotten. *)
LEMMA TaskStays ==
  ASSUME ItemInv, [OutboxNext]_outboxVars \/ Aside, NEW i \in Items
  PROVE  /\ task[i] \in {"completed", "failed", "quarantine", "dead_letter"} => task'[i] = task[i]
         /\ status[i] # "absent" => status'[i] # "absent"
  <1> USE DEF ItemInv
  <1> DEFINE Ended == {"completed", "failed", "quarantine", "dead_letter"}
             Goal == /\ task[i] \in Ended => task'[i] = task[i]
                     /\ status[i] # "absent" => status'[i] # "absent"
  <1>a. task[i] \in Ended => SweptTask[i] = task[i]
    BY DEF SweptTask
  <1>b. status[i] # "absent" => SweptStatus[i] # "absent"
    BY DEF SweptStatus
  <1>c. status[i] = "in_flight" => task[i] \notin Ended
    BY DEF TaskAgreement, TaskOf
  <1>1. ASSUME NEW k \in Items, NEW open \in BOOLEAN, Enqueue(k, open) PROVE Goal
    BY <1>1 DEF Enqueue, OutboxTypeOK
  <1>2. ASSUME NEW k \in Items, NEW open \in BOOLEAN, Dispatch(k, open) PROVE Goal
    <2>1. /\ status' = [SweptStatus EXCEPT ![k] = "in_flight"]
          /\ task' = [SweptTask EXCEPT ![k] = IF @ = "absent" THEN "queued" ELSE @]
      BY <1>2 DEF Dispatch
    <2> QED BY <1>a, <1>b, <2>1, SweepTypes
  <1>3. ASSUME DispatchNothing PROVE Goal
    BY <1>3, <1>a, <1>b DEF DispatchNothing
  <1>4. ASSUME NEW k \in Items, NEW verdict, NEW ending, status[k] = "in_flight", verdict # "absent",
               status' = [status EXCEPT ![k] = verdict], task' = [task EXCEPT ![k] = ending]
        PROVE  Goal
    BY <1>4, <1>c DEF OutboxTypeOK
  <1>5. ASSUME NEW k \in Items, NEW semantic \in {"accepted", "processing", "completed"},
               NEW verified \in BOOLEAN, Ack(k, semantic, verified)
        PROVE Goal
    BY <1>5, <1>4 DEF Ack
  <1>6. ASSUME NEW k \in Items, FailRateLimited(k) \/ FailTransient(k) \/ FailPermanent(k)
        PROVE Goal
    <2>1. PICK verdict \in {"retry_wait", "failed", "dead_letter"} : Failed(k, verdict)
      BY <1>6 DEF FailRateLimited, FailTransient, FailPermanent, Charged
    <2> QED BY <1>4, <2>1 DEF Failed
  <1>7. ASSUME NEW k \in Items, Settles(k) PROVE Goal
    BY <1>7 DEF Settles, ReleaseReservation, itemVars
  <1>8. ASSUME NEW k \in Items, NEW verdict \in Verdicts, Observed(k, verdict) PROVE Goal
    BY <1>8 DEF Observed, ObserveTask, TaskAfter, OutboxTypeOK
  <1>9. ASSUME OutboxTime PROVE Goal
    BY <1>9 DEF OutboxTime, LeaseLapses, DeadlinePasses, BackoffEnds, ProbeLapses,
       ThrottleEnds, itemVars
  <1>10. CASE UNCHANGED outboxVars \/ Aside
    BY <1>10 DEF outboxVars, Aside
  <1>11. CASE OutboxNext
    BY <1>11, <1>1, <1>2, <1>3, <1>5, <1>6, <1>7, <1>8, <1>9, Zenon
       DEF OutboxNext, Settles, Observed, Verdicts
  <1> QED BY <1>10, <1>11

-----------------------------------------------------------------------------
(* The observer.  A verdict waits in answers and is written only on a task that *)
(* is still alive; the reservation is released after the task has ended.        *)

LEMMA ObserverStep ==
  ASSUME ItemInv, SenderInv, AnswersInv, ReleasesInv, [DeliveryNext]_deliveryVars
  PROVE  AnswersInv' /\ ReleasesInv'
  <1> DEFINE Goal == AnswersInv' /\ ReleasesInv'
  <1>t. \A i \in Items : task[i] \in {"completed", "failed", "quarantine"} => task'[i] = task[i]
    BY DeliveryIsOutbox, TaskStays
  <1>r. ASSUME answers' \subseteq answers, releases' \subseteq releases PROVE Goal
    BY <1>t, <1>r DEF AnswersInv, ReleasesInv
  <1>1. ASSUME NEW i \in Items, NEW result \in {"active", "done", "failed", "error", "gone"},
               NEW spent \in BOOLEAN, Poll(i, result, spent)
        PROVE  Goal
    <2> DEFINE count == Counted(i, result)
               verdict == CASE result = "active" -> "processing"
                            [] result = "done" -> "completed"
                            [] result = "failed" -> "failed"
                            [] result = "gone" -> "quarantine"
                            [] OTHER -> IF Exhausted(count) \/ spent THEN "quarantine" ELSE task[i]
               a == [item |-> i, count |-> count, verdict |-> verdict]
    <2>1. task[i] \in {"accepted", "processing"} /\ answers' = answers \union {a}
      BY <1>1 DEF Poll
    <2>2. verdict \in Verdicts
      <3>1. (IF Exhausted(count) \/ spent THEN "quarantine" ELSE task[i]) \in Verdicts
        BY <2>1 DEF Verdicts
      <3>2. CASE result = "active" BY <3>2 DEF Verdicts
      <3>3. CASE result = "done" BY <3>3 DEF Verdicts
      <3>4. CASE result = "failed" BY <3>4 DEF Verdicts
      <3>5. CASE result = "gone" BY <3>5 DEF Verdicts
      <3>6. CASE result = "error" BY <3>1, <3>6
      <3> QED BY <1>1, <3>2, <3>3, <3>4, <3>5, <3>6
    <2>3. releases' = releases /\ task' = task
      BY <1>1 DEF Poll, outboxVars
    <2> HIDE DEF verdict, count
    <2>4. a.item = i /\ a.verdict = verdict
      OBVIOUS
    <2> HIDE DEF a
    <2> QED BY <2>1, <2>2, <2>3, <2>4 DEF AnswersInv, ReleasesInv
  <1>2. ASSUME NEW a \in answers, RecordPoll(a) PROVE Goal
    <2>1. /\ a.item \in Items /\ status[a.item] = "completed"
          /\ task' = [task EXCEPT ![a.item] = TaskAfter(a.item, a.verdict)]
          /\ answers' \subseteq answers
          /\ releases' \subseteq releases \union {a.item}
      BY <1>2 DEF RecordPoll, ObserveTask, AnswersInv
    <2>2. CASE a.verdict \in {"completed", "failed", "quarantine"}
      <3>1. task[a.item] \in {"accepted", "processing", "completed", "failed", "quarantine"}
        BY <2>1 DEF ItemInv, TaskAgreement, TaskOf
      <3>2. task'[a.item] \in {"completed", "failed", "quarantine"}
        BY <2>1, <2>2, <3>1 DEF TaskAfter, ItemInv, OutboxTypeOK
      <3> QED BY <1>t, <2>1, <3>2 DEF AnswersInv, ReleasesInv
    <2>3. CASE a.verdict \notin {"completed", "failed", "quarantine"}
      BY <1>2, <1>r, <2>1, <2>3 DEF RecordPoll
    <2> QED BY <2>2, <2>3
  <1>3. ASSUME NEW s \in senders, SenderStep(s) PROVE Goal
    BY <1>3, <1>r DEF SenderStep, observerVars, BeginUpload, UploadAnswered, UploadFails,
       AddFails, RefuseAdd, BeginAdd, ReuseAdd, AddAnswered, ReadBack, Report
  <1>4. ASSUME NEW i \in Items, FinishRelease(i) PROVE Goal
    BY <1>4, <1>r DEF FinishRelease
  <1>5. CASE ObserverDies
    BY <1>5, <1>r DEF ObserverDies
  <1>6. ASSUME \/ \E i \in Items, open \in BOOLEAN : Submit(i, open) \/ Claim(i, open)
               \/ ClaimNothing \/ DeliveryTime
               \/ \E s \in senders : SenderDies(s)
               \/ \E i \in Items : ReconcileContent(i)
               \/ \E i \in Items, result \in {"done", "failed"} : RemoteEnds(i, result)
               \/ UNCHANGED deliveryVars
        PROVE  Goal
    BY <1>6, <1>r DEF observerVars, deliveryVars, Submit, Claim, ClaimNothing, DeliveryTime,
       SenderDies, ReconcileContent, RemoteEnds
  <1> QED
    BY <1>1, <1>2, <1>3, <1>4, <1>5, <1>6
       DEF DeliveryNext, Polls, RecordPolls, FinishReleases

-----------------------------------------------------------------------------
(* The journal.  The only step that adds a row also makes the request; a row is  *)
(* overwritten by the answer to it, and an answer that accepts says the item is   *)
(* stored.                                                                      *)

RowState == {"none", "pending", "unknown", "limited"} \union Replies

JournalTyped ==
  /\ ledger \in [Items -> [Tries -> RowState]]
  /\ posts \in [Items -> Nat]
  /\ file \in [Items -> Nat]
  /\ applied \subseteq Items

AcceptedIsApplied ==
  \A i \in Items, n \in Tries :
    ledger[i][n] \in {"stored", "processing", "created"} => i \in applied

JournalInv == JournalTyped /\ OnePostPerTry /\ AcceptedIsApplied

Opened(i) == {n \in Tries : ledger[i][n] # "none"}

LEMMA RowsCount ==
  ASSUME NEW S \in SUBSET Tries
  PROVE  IsFiniteSet(S) /\ Cardinality(S) \in Nat /\ Cardinality(S) <= MaxAttempts + 1
  <1>1. MaxAttempts + 1 \in Nat
    BY OutboxAssumption
  <1>2. IsFiniteSet(1..(MaxAttempts + 1)) /\ Cardinality(1..(MaxAttempts + 1)) = MaxAttempts + 1
    BY <1>1, FS_Interval
  <1>3. S \in SUBSET (1..(MaxAttempts + 1))
    BY DEF Tries
  <1> QED BY <1>1, <1>2, <1>3, FS_Subset, FS_CardinalityType

LEMMA RowWritten ==
  ASSUME JournalTyped, OnePostPerTry, NEW i \in Items, NEW n \in Tries,
         NEW v \in RowState \ {"none"}, ledger' = [ledger EXCEPT ![i][n] = v],
         \/ ledger[i][n] = "none" /\ posts' = [posts EXCEPT ![i] = @ + 1]
         \/ ledger[i][n] # "none" /\ posts' = posts
  PROVE  OnePostPerTry'
  <1>1. /\ ledger'[i] = [ledger[i] EXCEPT ![n] = v]
        /\ \A k \in Items : k # i => ledger'[k] = ledger[k]
    BY DEF JournalTyped
  <1>2. \A k \in Items : k # i => Opened(k)' = Opened(k) /\ posts'[k] = posts[k]
    BY <1>1 DEF Opened, JournalTyped
  <1>3. Opened(i)' = Opened(i) \union {n}
    BY <1>1 DEF Opened, JournalTyped
  <1>4. n \in Opened(i) <=> ledger[i][n] # "none"
    BY DEF Opened
  <1>5. Cardinality(Opened(i)') = IF n \in Opened(i) THEN Cardinality(Opened(i))
                                  ELSE Cardinality(Opened(i)) + 1
    <2>1. Opened(i) \in SUBSET Tries
      BY DEF Opened
    <2> QED BY <1>3, <2>1, RowsCount, FS_AddElement
  <1>6. posts'[i] = IF ledger[i][n] = "none" THEN posts[i] + 1 ELSE posts[i]
    BY DEF JournalTyped
  <1>7. \A k \in Items : posts[k] = Cardinality(Opened(k))
    BY DEF OnePostPerTry, Opened
  <1>8. \A k \in Items : posts'[k] = Cardinality(Opened(k)')
    BY <1>2, <1>4, <1>5, <1>6, <1>7
  <1> QED BY <1>8 DEF OnePostPerTry, Opened

LEMMA JournalStep ==
  ASSUME SenderInv, JournalInv, [DeliveryNext]_deliveryVars
  PROVE  JournalInv'
  <1> USE DEF JournalInv
  <1>a. ASSUME UNCHANGED <<ledger, posts, applied>>, file' \in [Items -> Nat] PROVE JournalInv'
    BY <1>a DEF JournalTyped, AcceptedIsApplied, OnePostPerTry
  <1>1. ASSUME NEW s \in senders, BeginAdd(s) PROVE JournalInv'
    <2>1. s.item \in Items /\ s.try \in Tries
      BY DEF SenderInv, Right, Sender
    <2>2. /\ ledger[s.item][s.try] = "none"
          /\ ledger' = [ledger EXCEPT ![s.item][s.try] = "pending"]
          /\ posts' = [posts EXCEPT ![s.item] = @ + 1]
          /\ applied' = applied /\ file' = file
      BY <1>1 DEF BeginAdd, Row, remoteVars
    <2>3. OnePostPerTry'
      <3>1. "pending" \in RowState \ {"none"}
        BY DEF RowState
      <3>2. \/ ledger[s.item][s.try] = "none" /\ posts' = [posts EXCEPT ![s.item] = @ + 1]
            \/ ledger[s.item][s.try] # "none" /\ posts' = posts
        BY <2>2
      <3>3. ledger' = [ledger EXCEPT ![s.item][s.try] = "pending"]
        BY <2>2
      <3> QED BY <2>1, <3>1, <3>2, <3>3, RowWritten
    <2>4. JournalTyped'
      BY <2>1, <2>2 DEF JournalTyped, RowState
    <2>5. AcceptedIsApplied'
      BY <2>1, <2>2 DEF AcceptedIsApplied, JournalTyped
    <2> QED BY <2>3, <2>4, <2>5
  <1>2. ASSUME NEW s \in senders, NEW v \in RowState \ {"none"}, s.phase = "posting",
               ledger' = [ledger EXCEPT ![s.item][s.try] = v], UNCHANGED <<posts, file>>,
               applied \subseteq applied', applied' \subseteq applied \union {s.item},
               v \in {"stored", "processing", "created"} => s.item \in applied'
        PROVE  JournalInv'
    <2>1. s.item \in Items /\ s.try \in Tries /\ ledger[s.item][s.try] # "none"
      BY <1>2 DEF SenderInv, Right, Sender
    <2>2. OnePostPerTry'
      <3>1. PICK i \in Items, n \in Tries :
              /\ ledger[i][n] # "none" /\ posts' = posts
              /\ ledger' = [ledger EXCEPT ![i][n] = v]
        BY <1>2, <2>1
      <3>2. v \in RowState \ {"none"} /\ JournalTyped /\ OnePostPerTry
        OBVIOUS
      <3> QED BY <3>1, <3>2, RowWritten
    <2>3. JournalTyped'
      BY <1>2, <2>1 DEF JournalTyped
    <2>4. AcceptedIsApplied'
      BY <1>2, <2>1 DEF AcceptedIsApplied, JournalTyped
    <2> QED BY <2>2, <2>3, <2>4
  <1>3. ASSUME NEW s \in senders, NEW reply \in Replies, AddAnswered(s, reply) PROVE JournalInv'
    <2>1. reply # "rejected" => s.item \in applied'
      BY <1>3 DEF AddAnswered, Serve
    <2>2. applied \subseteq applied' /\ applied' \subseteq applied \union {s.item}
      BY <1>3 DEF AddAnswered, Serve
    <2> QED BY <1>2, <1>3, <2>1, <2>2 DEF AddAnswered, RowState, Replies
  <1>4. ASSUME NEW s \in senders, NEW fault \in Faults, AddFails(s, fault) PROVE JournalInv'
    <2>1. applied \subseteq applied' /\ applied' \subseteq applied \union {s.item}
      BY <1>4 DEF AddFails, Serve
    <2>2. PICK v \in {"limited", "unknown"} : ledger' = [ledger EXCEPT ![s.item][s.try] = v]
      BY <1>4 DEF AddFails
    <2> QED BY <1>2, <1>4, <2>1, <2>2 DEF AddFails, RowState
  <1>5. ASSUME NEW s \in senders, SenderDies(s) PROVE JournalInv'
    <2>1. s.item \in Items
      BY DEF SenderInv, Right, Sender
    <2>2. UNCHANGED ledgerVars /\ applied \subseteq applied' /\ applied' \subseteq applied \union {s.item}
      BY <1>5 DEF SenderDies, Serve, remoteVars
    <2> QED BY <2>1, <2>2 DEF ledgerVars, JournalTyped, AcceptedIsApplied, OnePostPerTry
  <1>6. ASSUME NEW s \in senders, UploadAnswered(s) PROVE JournalInv'
    <2>1. s.item \in Items
      BY DEF SenderInv, Right, Sender
    <2> QED BY <1>a, <1>6, <2>1 DEF UploadAnswered, JournalTyped, remoteVars
  <1>7. ASSUME NEW s \in senders,
               \/ BeginUpload(s) \/ RefuseAdd(s) \/ ReuseAdd(s) \/ Report(s)
               \/ \E fault \in Faults : UploadFails(s, fault)
               \/ \E found \in BOOLEAN : ReadBack(s, found)
        PROVE  JournalInv'
    BY <1>a, <1>7 DEF BeginUpload, RefuseAdd, ReuseAdd, Report, UploadFails, ReadBack, ledgerVars,
       remoteVars, JournalTyped
  <1>8. ASSUME \/ \E i \in Items, open \in BOOLEAN : Submit(i, open) \/ Claim(i, open)
               \/ ClaimNothing \/ DeliveryTime
               \/ \E i \in Items : ReconcileContent(i)
               \/ Polls \/ RecordPolls \/ FinishReleases \/ ObserverDies
               \/ \E i \in Items, result \in {"done", "failed"} : RemoteEnds(i, result)
               \/ UNCHANGED deliveryVars
        PROVE  JournalInv'
    BY <1>a, <1>8 DEF Submit, Claim, ClaimNothing, DeliveryTime, ReconcileContent, Polls, Poll,
       RecordPolls, RecordPoll, FinishReleases, FinishRelease, ObserverDies, RemoteEnds,
       deliveryVars, ledgerVars, remoteVars, JournalTyped
  <1> QED
    BY <1>1, <1>3, <1>4, <1>5, <1>6, <1>7, <1>8, Zenon DEF DeliveryNext, SenderStep

-----------------------------------------------------------------------------
(* The senders.  What is right of a sender stays right while others work, and    *)
(* each step leaves it right.                                                   *)

Grow ==
  /\ \A i \in Items : status[i] # "absent" => status'[i] # "absent"
  /\ \A i \in Items, n \in Tries : ledger[i][n] # "none" => ledger'[i][n] # "none"
  /\ applied \subseteq applied'

LEMMA SendersKept ==
  ASSUME SenderInv, Grow, \A u \in senders' : u \in senders \/ Right(u)'
  PROVE  SenderInv'
  <1>1. ASSUME NEW u \in senders PROVE Right(u)'
    <2>1. Right(u) /\ u.item \in Items /\ u.try \in Tries
      BY DEF SenderInv, Right, Sender
    <2> QED BY <2>1 DEF Right, Grow
  <1> QED BY <1>1 DEF SenderInv

LEMMA LedgerGrows ==
  ASSUME SenderInv, JournalInv, [DeliveryNext]_deliveryVars
  PROVE  /\ applied \subseteq applied'
         /\ \A i \in Items, n \in Tries : ledger[i][n] # "none" => ledger'[i][n] # "none"
  <1> DEFINE Goal == /\ applied \subseteq applied'
                     /\ \A i \in Items, n \in Tries : ledger[i][n] # "none" => ledger'[i][n] # "none"
  <1>a. ASSUME UNCHANGED ledger, applied \subseteq applied' PROVE Goal
    BY <1>a
  <1>b. ASSUME NEW s \in senders, NEW v \in RowState \ {"none"}, applied \subseteq applied',
               ledger' = [ledger EXCEPT ![s.item][s.try] = v]
        PROVE  Goal
    <2>1. s.item \in Items /\ s.try \in Tries
      BY DEF SenderInv, Right, Sender
    <2> QED BY <1>b, <2>1 DEF JournalInv, JournalTyped
  <1>1. ASSUME NEW s \in senders, BeginAdd(s) PROVE Goal
    <2>1. ledger' = [ledger EXCEPT ![s.item][s.try] = "pending"] /\ applied' = applied
      BY <1>1 DEF BeginAdd, remoteVars
    <2> QED BY <1>b, <2>1 DEF RowState
  <1>2. ASSUME NEW s \in senders, NEW reply \in Replies, AddAnswered(s, reply) PROVE Goal
    <2>1. ledger' = [ledger EXCEPT ![s.item][s.try] = reply] /\ applied \subseteq applied'
      BY <1>2 DEF AddAnswered, Serve
    <2> QED BY <1>b, <2>1 DEF RowState, Replies
  <1>3. ASSUME NEW s \in senders, NEW fault \in Faults, AddFails(s, fault) PROVE Goal
    <2>1. PICK v \in {"limited", "unknown"} : ledger' = [ledger EXCEPT ![s.item][s.try] = v]
      BY <1>3 DEF AddFails
    <2>2. applied \subseteq applied'
      BY <1>3 DEF AddFails, Serve
    <2> QED BY <1>b, <2>1, <2>2 DEF RowState
  <1>4. ASSUME NEW s \in senders, SenderDies(s) PROVE Goal
    BY <1>a, <1>4 DEF SenderDies, Serve, ledgerVars, remoteVars
  <1>5. ASSUME NEW s \in senders,
               \/ BeginUpload(s) \/ UploadAnswered(s) \/ RefuseAdd(s) \/ ReuseAdd(s) \/ Report(s)
               \/ \E fault \in Faults : UploadFails(s, fault)
               \/ \E found \in BOOLEAN : ReadBack(s, found)
        PROVE  Goal
    BY <1>a, <1>5 DEF BeginUpload, UploadAnswered, RefuseAdd, ReuseAdd, Report, UploadFails,
       ReadBack, ledgerVars, remoteVars
  <1>6. ASSUME \/ \E i \in Items, open \in BOOLEAN : Submit(i, open) \/ Claim(i, open)
               \/ ClaimNothing \/ DeliveryTime
               \/ \E i \in Items : ReconcileContent(i)
               \/ Polls \/ RecordPolls \/ FinishReleases \/ ObserverDies
               \/ \E i \in Items, result \in {"done", "failed"} : RemoteEnds(i, result)
               \/ UNCHANGED deliveryVars
        PROVE  Goal
    BY <1>a, <1>6 DEF Submit, Claim, ClaimNothing, DeliveryTime, ReconcileContent, Polls, Poll,
       RecordPolls, RecordPoll, FinishReleases, FinishRelease, ObserverDies, RemoteEnds,
       deliveryVars, ledgerVars, remoteVars
  <1> QED
    BY <1>1, <1>2, <1>3, <1>4, <1>5, <1>6, Zenon DEF DeliveryNext, SenderStep

Outcome == {"none", "unresolved"} \union Replies \union Faults

LEMMA SenderKept ==
  ASSUME SenderInv, Grow, NEW s \in senders, NEW u, Becomes(s, u),
         u \in Sender, u.item = s.item, u.try = s.try,
         u.phase \in {"posted", "answered"} => u.reply # "none",
         u.phase = "posting" => ledger'[s.item][s.try] # "none",
         u.reply \in Replies => s.item \in applied'
  PROVE  SenderInv'
  <1>1. Right(s) /\ s.item \in Items
    BY DEF SenderInv, Right, Sender
  <1>2. Right(u)'
    BY <1>1 DEF Right, Grow
  <1> QED BY <1>2, SendersKept DEF Becomes

LEMMA OneSenderSteps ==
  ASSUME SenderInv, JournalInv, Grow, NEW s \in senders, SenderStep(s)
  PROVE  SenderInv'
  <1>s. s \in Sender /\ Right(s) /\ s.item \in Items /\ s.try \in Tries /\ s.reply \in Outcome
    BY DEF SenderInv, Right, Sender, Outcome
  <1>f. file[s.item] \in Nat /\ file[s.item] + 1 \in Nat
    BY <1>s DEF JournalInv, JournalTyped
  <1>r. s.reply \in Replies => s.item \in applied'
    BY <1>s DEF Right, Grow
  <1>g. ASSUME NEW reply \in Outcome \ ({"none"} \union Replies),
               Becomes(s, [s EXCEPT !.phase = "answered", !.reply = reply])
        PROVE  SenderInv'
    <2> DEFINE u == [s EXCEPT !.phase = "answered", !.reply = reply]
    <2>1. u \in Sender /\ u.item = s.item /\ u.try = s.try /\ u.phase = "answered" /\ u.reply = reply
      BY <1>s DEF Sender, Outcome
    <2>2. Becomes(s, u)
      BY <1>g
    <2> HIDE DEF u
    <2> QED BY <2>1, <2>2, SenderKept
  <1>p. ASSUME NEW u, Becomes(s, u), NEW id \in Nat, NEW phase \in {"uploading", "uploaded"},
               \/ u = [s EXCEPT !.phase = phase] \/ u = [s EXCEPT !.phase = phase, !.file = id]
        PROVE  SenderInv'
    <2>1. u \in Sender /\ u.item = s.item /\ u.try = s.try /\ u.phase = phase /\ u.reply = s.reply
      BY <1>s, <1>p DEF Sender
    <2> QED BY <1>p, <1>r, <2>1, SenderKept
  <1>a. ASSUME NEW reply \in Replies, Becomes(s, Answered(s, reply)),
               reply # "rejected" => s.item \in applied'
        PROVE  SenderInv'
    <2>1. CASE reply = "rejected"
      <3>1. Becomes(s, [s EXCEPT !.phase = "answered", !.reply = "permanent"])
        BY <1>a, <2>1 DEF Answered, Accepting
      <3> QED BY <1>g, <3>1 DEF Outcome, Replies, Faults
    <2>2. CASE reply # "rejected"
      <3> DEFINE u == [s EXCEPT !.phase = "posted", !.reply = reply]
      <3>1. Becomes(s, u)
        BY <1>a, <2>2 DEF Answered, Accepting
      <3>2. u \in Sender /\ u.item = s.item /\ u.try = s.try /\ u.phase = "posted" /\ u.reply = reply
        BY <1>s DEF Sender, Outcome
      <3>3. reply # "none"
        BY DEF Replies
      <3> HIDE DEF u
      <3> QED BY <1>a, <2>2, <3>1, <3>2, <3>3, SenderKept
    <2> QED BY <2>1, <2>2
  <1>1. CASE BeginUpload(s)
    BY <1>1, <1>f, <1>g, <1>p DEF BeginUpload, Outcome, Replies, Faults
  <1>2. CASE UploadAnswered(s)
    BY <1>2, <1>f, <1>p DEF UploadAnswered
  <1>3. ASSUME NEW fault \in Faults, UploadFails(s, fault) \/ AddFails(s, fault) PROVE SenderInv'
    BY <1>3, <1>g DEF UploadFails, AddFails, Outcome, Replies, Faults
  <1>4. CASE RefuseAdd(s)
    BY <1>4, <1>g DEF RefuseAdd, Outcome, Replies, Faults
  <1>5. CASE BeginAdd(s)
    <2> DEFINE u == [s EXCEPT !.phase = "posting"]
    <2>1. u \in Sender /\ u.item = s.item /\ u.try = s.try /\ u.phase = "posting"
          /\ u.reply = s.reply
      BY <1>s DEF Sender
    <2>2. Becomes(s, u) /\ ledger' = [ledger EXCEPT ![s.item][s.try] = "pending"]
      BY <1>5 DEF BeginAdd
    <2>3. ledger'[s.item][s.try] # "none"
      BY <1>s, <2>2 DEF JournalInv, JournalTyped
    <2> HIDE DEF u
    <2> QED BY <1>r, <2>1, <2>2, <2>3, SenderKept
  <1>6. CASE ReuseAdd(s)
    <2>1. CASE Row(s) \in Replies
      <3>1. Row(s) # "rejected" => s.item \in applied'
        BY <1>s, <2>1 DEF Row, Grow, JournalInv, AcceptedIsApplied, Replies
      <3> QED BY <1>6, <1>a, <2>1, <3>1 DEF ReuseAdd
    <2>2. CASE Row(s) \notin Replies
      BY <1>6, <1>g, <2>2 DEF ReuseAdd, Outcome, Replies, Faults
    <2> QED BY <2>1, <2>2
  <1>7. ASSUME NEW reply \in Replies, AddAnswered(s, reply) PROVE SenderInv'
    <2>1. reply # "rejected" => s.item \in applied'
      BY <1>7 DEF AddAnswered, Serve
    <2> QED BY <1>7, <1>a, <2>1 DEF AddAnswered
  <1>8. ASSUME NEW found \in BOOLEAN, ReadBack(s, found) PROVE SenderInv'
    <2> DEFINE u == [s EXCEPT !.phase = "answered", !.verified = found]
    <2>1. u \in Sender /\ u.item = s.item /\ u.try = s.try /\ u.phase = "answered"
          /\ u.reply = s.reply
      BY <1>s DEF Sender
    <2>2. Becomes(s, u) /\ s.reply # "none"
      BY <1>8, <1>s DEF ReadBack, Right
    <2> HIDE DEF u
    <2> QED BY <1>r, <2>1, <2>2, SenderKept
  <1>9. CASE Report(s)
    BY <1>9, SendersKept DEF Report
  <1> QED BY <1>1, <1>2, <1>3, <1>4, <1>5, <1>6, <1>7, <1>8, <1>9, Zenon DEF SenderStep

LEMMA SenderStays ==
  ASSUME ItemInv, SenderInv, JournalInv, Grow, [DeliveryNext]_deliveryVars
  PROVE  SenderInv'
  <1>a. ASSUME senders' \subseteq senders PROVE SenderInv'
    BY <1>a, SendersKept
  <1>1. ASSUME NEW i \in Items, NEW open \in BOOLEAN, Claim(i, open) PROVE SenderInv'
    <2>1. SweptStatus[i] \in Waiting /\ status' = [SweptStatus EXCEPT ![i] = "in_flight"]
      BY <1>1 DEF Claim, Dispatch, Eligible
    <2>2. status[i] # "dead_letter"
      BY <2>1 DEF SweptStatus, Waiting, Overrun
    <2>3. attempt[i] + 1 \in Tries /\ dispatched[i] + 1 \in Nat \ {0}
      BY <2>2, OutboxAssumption DEF ItemInv, AttemptBudget, OutboxTypeOK, Tries
    <2>4. \E u \in Sender : /\ u.item = i /\ u.phase = "claimed" /\ u.reply = "none"
                            /\ senders' = senders \union {u}
      <3> DEFINE u == [item |-> i, token |-> dispatched[i] + 1, try |-> attempt[i] + 1, file |-> 0,
                       phase |-> "claimed", reply |-> "none", verified |-> FALSE]
      <3>1. u \in Sender /\ u.item = i /\ u.phase = "claimed" /\ u.reply = "none"
        BY <2>3 DEF Sender
      <3>2. senders' = senders \union {u}
        BY <1>1 DEF Claim
      <3> HIDE DEF u
      <3> QED BY <3>1, <3>2
    <2>5. PICK u \in Sender : /\ u.item = i /\ u.phase = "claimed" /\ u.reply = "none"
                              /\ senders' = senders \union {u}
      BY <2>4
    <2>6. status'[i] # "absent"
      BY <2>1, SweepTypes DEF ItemInv
    <2>7. Right(u)'
      BY <2>5, <2>6 DEF Right, Replies
    <2> QED BY <2>5, <2>7, SendersKept
  <1>2. ASSUME NEW s \in senders, SenderStep(s) PROVE SenderInv'
    BY <1>2, OneSenderSteps
  <1>3. ASSUME \/ \E i \in Items, open \in BOOLEAN : Submit(i, open)
               \/ ClaimNothing \/ DeliveryTime
               \/ \E s \in senders : SenderDies(s)
               \/ \E i \in Items : ReconcileContent(i)
               \/ Polls \/ RecordPolls \/ FinishReleases \/ ObserverDies
               \/ \E i \in Items, result \in {"done", "failed"} : RemoteEnds(i, result)
               \/ UNCHANGED deliveryVars
        PROVE  SenderInv'
    BY <1>3, <1>a DEF Submit, ClaimNothing, DeliveryTime, SenderDies, ReconcileContent, Polls,
       Poll, RecordPolls, RecordPoll, FinishReleases, FinishRelease, ObserverDies, RemoteEnds,
       deliveryVars
  <1> QED BY <1>1, <1>2, <1>3, Zenon DEF DeliveryNext

-----------------------------------------------------------------------------
(* The invariant of the delivery, and what follows from it.                     *)

DeliveryInv == ItemInv /\ SenderInv /\ AnswersInv /\ ReleasesInv /\ JournalInv

LEMMA DeliveryInvInit == DeliveryInit => DeliveryInv
  <1> SUFFICES ASSUME DeliveryInit PROVE DeliveryInv
    OBVIOUS
  <1>1. ItemInv
    BY ItemInit DEF DeliveryInit
  <1>2. SenderInv /\ AnswersInv /\ ReleasesInv
    BY DEF DeliveryInit, SenderInv, AnswersInv, ReleasesInv
  <1>3. JournalTyped /\ AcceptedIsApplied
    BY DEF DeliveryInit, JournalTyped, AcceptedIsApplied, RowState
  <1>4. OnePostPerTry
    <2>1. \A i \in Items : {n \in Tries : ledger[i][n] # "none"} = {}
      BY DEF DeliveryInit
    <2> QED BY <2>1, FS_EmptySet DEF DeliveryInit, OnePostPerTry
  <1> QED BY <1>1, <1>2, <1>3, <1>4 DEF DeliveryInv, JournalInv

LEMMA DeliveryInvStep == DeliveryInv /\ [DeliveryNext]_deliveryVars => DeliveryInv'
  <1> SUFFICES ASSUME DeliveryInv, [DeliveryNext]_deliveryVars PROVE DeliveryInv'
    OBVIOUS
  <1> USE DEF DeliveryInv
  <1>1. [OutboxNext]_outboxVars \/ Aside
    BY DeliveryIsOutbox
  <1>2. ItemInv'
    BY <1>1, ItemStays
  <1>3. AnswersInv' /\ ReleasesInv'
    BY ObserverStep
  <1>4. JournalInv'
    BY JournalStep
  <1>5. Grow
    <2>1. \A i \in Items : status[i] # "absent" => status'[i] # "absent"
      BY <1>1, TaskStays
    <2> QED BY <2>1, LedgerGrows DEF Grow
  <1>6. SenderInv'
    BY <1>5, SenderStays
  <1> QED BY <1>2, <1>3, <1>4, <1>6

LEMMA DeliveryInvariant == DeliverySpec => []DeliveryInv
  BY DeliveryInvInit, DeliveryInvStep, PTL DEF DeliverySpec

(* No attempt is submitted twice, however many senders overlap on an item after    *)
(* their leases ran out, and wherever they die.                                   *)
THEOREM AttemptsPostedOnce == DeliverySpec => []OnePostPerTry
  <1>1. DeliveryInv => OnePostPerTry
    BY DEF DeliveryInv, JournalInv
  <1> QED BY <1>1, DeliveryInvariant, PTL

(* A verdict on a task is never overwritten by an observer that polled earlier.    *)
THEOREM TaskVerdictsHold == DeliverySpec => TaskVerdictsFinal
  <1> DEFINE Kept ==
        \A i \in Items :
          task[i] \in {"completed", "failed", "quarantine", "dead_letter"} => task'[i] = task[i]
  <1>1. DeliveryInv /\ [DeliveryNext]_deliveryVars => [Kept]_deliveryVars
    BY DeliveryIsOutbox, TaskStays DEF DeliveryInv
  <1> QED BY <1>1, DeliveryInvariant, PTL DEF DeliverySpec, TaskVerdictsFinal

-----------------------------------------------------------------------------
(* The delivery implements RemoteWrite.  The fate of an item is read off its      *)
(* status; a row of the journal is a request, and what the service stored is      *)
(* taken.                                                                       *)

Fates == [i \in Items |-> Fate[status[i]]]

LEMMA FateValues ==
  /\ Fate["absent"] = "none"
  /\ Fate["pending"] = "owed" /\ Fate["retry_wait"] = "owed" /\ Fate["in_flight"] = "owed"
  /\ Fate["completed"] = "delivered"
  /\ Fate["failed"] = "dropped" /\ Fate["dead_letter"] = "dropped"
  BY DEF Fate

LEMMA RowsArePosts ==
  ASSUME JournalInv, NEW i \in Items, NEW n \in Tries
  PROVE  /\ ledger[i][n] # "none" => posts[i] > 0
         /\ ledger[i][n] = "none" => posts[i] < MaxAttempts + 1
  <1>1. Opened(i) \in SUBSET Tries /\ Opened(i) \union {n} \in SUBSET Tries
    BY DEF Opened
  <1>2. posts[i] = Cardinality(Opened(i))
    BY DEF JournalInv, OnePostPerTry, Opened
  <1>3. IsFiniteSet(Opened(i)) /\ Cardinality(Opened(i)) \in Nat
        /\ Cardinality(Opened(i) \union {n}) <= MaxAttempts + 1
    BY <1>1, RowsCount
  <1>4. n \in Opened(i) <=> ledger[i][n] # "none"
    BY DEF Opened
  <1>5. n \in Opened(i) => Cardinality(Opened(i)) # 0
    BY <1>3, FS_EmptySet
  <1>6. n \notin Opened(i) => Cardinality(Opened(i) \union {n}) = Cardinality(Opened(i)) + 1
    BY <1>3, FS_AddElement
  <1>7. MaxAttempts \in Nat
    BY OutboxAssumption
  <1> QED BY <1>2, <1>3, <1>4, <1>5, <1>6, <1>7

LEMMA RemoteStep ==
  ASSUME DeliveryInv, [DeliveryNext]_deliveryVars
  PROVE  Remote!Next \/ UNCHANGED <<Fates, posts, applied>>
  <1> USE DEF DeliveryInv, Fates
  <1> DEFINE Goal == Remote!Next \/ UNCHANGED <<Fates, posts, applied>>
  <1>t. status \in [Items -> Status]
    BY DEF ItemInv, OutboxTypeOK
  <1>a. ASSUME UNCHANGED <<status, posts, applied>> PROVE Goal
    BY <1>a
  <1>b. ASSUME NEW i \in Items, posts[i] > 0, applied \subseteq applied', UNCHANGED <<status, posts>>,
               applied' \subseteq applied \union {i}
        PROVE  Goal
    <2>1. CASE applied' = applied
      BY <1>a, <1>b, <2>1
    <2>2. CASE applied' = applied \union {i}
      <3>1. Remote!Take(i)
        BY <1>b, <2>2 DEF Remote!Take
      <3> QED BY <3>1 DEF Remote!Next
    <2> QED BY <1>b, <2>1, <2>2
  <1>1. ASSUME NEW i \in Items, NEW open \in BOOLEAN, Submit(i, open) PROVE Goal
    <2>1. status[i] = "absent" /\ status' = [status EXCEPT ![i] = "pending"]
          /\ UNCHANGED <<posts, applied>>
      BY <1>1 DEF Submit, Enqueue, ledgerVars, remoteVars
    <2>2. Fates' = [Fates EXCEPT ![i] = "owed"]
      BY <1>t, <2>1, FateValues
    <2>3. Remote!Submit(i)
      BY <1>t, <2>1, <2>2, FateValues DEF Remote!Submit
    <2> QED BY <2>3 DEF Remote!Next
  <1>2. ASSUME NEW i \in Items,
               \/ status' = SweptStatus
               \/ SweptStatus[i] \in Waiting /\ status' = [SweptStatus EXCEPT ![i] = "in_flight"],
               UNCHANGED <<posts, applied>>
        PROVE  Goal
    <2>1. \A k \in Overrun : k \in Items /\ Fate[status[k]] = "owed"
      BY FateValues DEF Overrun, Waiting, ItemInv, OutboxTypeOK
    <2>2. ASSUME NEW k \in Items
          PROVE  Fate[status'[k]] = IF k \in Overrun THEN "dropped" ELSE Fate[status[k]]
      <3>1. Fate[SweptStatus[k]] = IF k \in Overrun THEN "dropped" ELSE Fate[status[k]]
        BY FateValues DEF SweptStatus
      <3>2. SweptStatus[k] \in Waiting => Fate[SweptStatus[k]] = "owed"
        BY FateValues DEF Waiting
      <3> QED BY <1>2, <3>1, <3>2, SweepTypes, FateValues DEF ItemInv
    <2>3. PICK is \in SUBSET Items : is = Overrun
      BY <2>1
    <2>4. Remote!Drop(is)
      BY <1>2, <2>1, <2>2, <2>3 DEF Remote!Drop
    <2> QED BY <2>4 DEF Remote!Next
  <1>3. ASSUME NEW i \in Items, NEW open \in BOOLEAN, Claim(i, open) PROVE Goal
    BY <1>2, <1>3 DEF Claim, Dispatch, Eligible, ledgerVars, remoteVars
  <1>4. CASE ClaimNothing
    <2>1. CASE Items = {}
      <3>1. Fates' = Fates
        BY <2>1
      <3> QED BY <1>4, <3>1 DEF ClaimNothing, ledgerVars, remoteVars
    <2>2. CASE Items # {}
      BY <1>2, <1>4, <2>2 DEF ClaimNothing, DispatchNothing, ledgerVars, remoteVars
    <2> QED BY <2>1, <2>2
  <1>s. \A s \in senders : Right(s) /\ s.item \in Items /\ s.try \in Tries
    BY DEF SenderInv, Right, Sender
  <1>5. ASSUME NEW s \in senders, BeginAdd(s) PROVE Goal
    <2>1. /\ posts' = [posts EXCEPT ![s.item] = @ + 1] /\ ledger[s.item][s.try] = "none"
          /\ UNCHANGED <<status, applied>>
      BY <1>5 DEF BeginAdd, Row, outboxVars, remoteVars
    <2>2. posts[s.item] < MaxAttempts + 1
      BY <1>s, <2>1, RowsArePosts
    <2>3. Fate[status[s.item]] # "none"
      <3>1. status[s.item] \in Status \ {"absent"}
        BY <1>s, <1>t DEF Right
      <3> QED BY <3>1, FateValues DEF Status, Waiting, Terminal
    <2>4. Remote!Send(s.item)
      BY <1>s, <2>1, <2>2, <2>3 DEF Remote!Send
    <2> QED BY <1>s, <2>4 DEF Remote!Next
  <1>6. ASSUME NEW s \in senders, s.phase = "posting",
               \/ \E reply \in Replies : AddAnswered(s, reply)
               \/ \E fault \in Faults : AddFails(s, fault)
               \/ SenderDies(s)
        PROVE  Goal
    <2>1. posts[s.item] > 0
      BY <1>6, <1>s, RowsArePosts DEF Right
    <2>2. /\ UNCHANGED <<status, posts>>
          /\ applied \subseteq applied' /\ applied' \subseteq applied \union {s.item}
      BY <1>6 DEF AddAnswered, AddFails, SenderDies, Serve, outboxVars, ledgerVars
    <2> QED BY <1>b, <1>s, <2>1, <2>2
  <1>7. ASSUME NEW s \in senders, Report(s) PROVE Goal
    <2>1. UNCHANGED <<posts, applied>>
      BY <1>7 DEF Report, ledgerVars, remoteVars
    <2>2. CASE lease[s.item] # s.token
      BY <1>7, <1>a, <2>1, <2>2 DEF Report, outboxVars
    <2>3. CASE lease[s.item] = s.token /\ s.reply \in Replies
      <3>1. status[s.item] = "in_flight" /\ status' = [status EXCEPT ![s.item] = "completed"]
        BY <1>7, <2>3 DEF Report, Ack
      <3>2. s.item \in applied
        BY <1>s, <2>3 DEF Right
      <3>3. Fates' = [Fates EXCEPT ![s.item] = "delivered"]
        BY <1>s, <1>t, <3>1, FateValues
      <3>4. Remote!Deliver(s.item)
        BY <1>s, <1>t, <2>1, <3>1, <3>2, <3>3, FateValues DEF Remote!Deliver
      <3> QED BY <1>s, <3>4 DEF Remote!Next
    <2>4. CASE lease[s.item] = s.token /\ s.reply \notin Replies
      <3>1. FailRateLimited(s.item) \/ FailTransient(s.item) \/ FailPermanent(s.item)
        <4>1. s.reply \in Outcome /\ s.reply # "none"
          BY <1>7, <1>s DEF Report, Right, Sender, Outcome
        <4>2. s.reply \in {"429", "transient", "unresolved", "permanent"}
          BY <2>4, <4>1 DEF Outcome, Faults
        <4> QED BY <1>7, <2>4, <4>2 DEF Report
      <3>2. PICK verdict \in {"retry_wait", "failed", "dead_letter"} : Failed(s.item, verdict)
        BY <3>1 DEF FailRateLimited, FailTransient, FailPermanent, Charged
      <3>3. status[s.item] = "in_flight" /\ status' = [status EXCEPT ![s.item] = verdict]
        BY <3>2 DEF Failed
      <3>4. CASE verdict = "retry_wait"
        <4>1. Fates' = Fates
          BY <1>s, <1>t, <3>3, <3>4, FateValues
        <4> QED BY <2>1, <4>1
      <3>5. CASE verdict # "retry_wait"
        <4>1. Fates' = [k \in Items |-> IF k \in {s.item} THEN "dropped" ELSE Fates[k]]
          BY <1>s, <1>t, <3>3, <3>5, FateValues
        <4>2. Fates[s.item] = "owed"
          BY <1>s, <3>3, FateValues
        <4>3. Remote!Drop({s.item})
          BY <2>1, <4>1, <4>2 DEF Remote!Drop
        <4>4. {s.item} \in SUBSET Items
          BY <1>s
        <4> QED BY <4>3, <4>4 DEF Remote!Next
      <3> QED BY <3>4, <3>5
    <2> QED BY <2>2, <2>3, <2>4
  <1>8. ASSUME NEW s \in senders,
               \/ BeginUpload(s) \/ UploadAnswered(s) \/ RefuseAdd(s) \/ ReuseAdd(s)
               \/ \E fault \in Faults : UploadFails(s, fault)
               \/ \E found \in BOOLEAN : ReadBack(s, found)
               \/ s.phase # "posting" /\ SenderDies(s)
        PROVE  Goal
    BY <1>8, <1>a DEF BeginUpload, UploadAnswered, RefuseAdd, ReuseAdd, UploadFails, ReadBack,
       Verify, SenderDies, outboxVars, ledgerVars, remoteVars
  <1>9. ASSUME \/ DeliveryTime
               \/ \E i \in Items : ReconcileContent(i)
               \/ Polls \/ RecordPolls \/ FinishReleases \/ ObserverDies
               \/ \E i \in Items, result \in {"done", "failed"} : RemoteEnds(i, result)
               \/ UNCHANGED deliveryVars
        PROVE  Goal
    <2>1. DeliveryTime => UNCHANGED status
      BY DEF DeliveryTime, OutboxTime, LeaseLapses, DeadlinePasses, BackoffEnds, ProbeLapses,
         ThrottleEnds, itemVars
    <2> QED
      BY <1>9, <1>a, <2>1 DEF DeliveryTime, ReconcileContent, Verify, Polls, Poll, RecordPolls,
         RecordPoll, ObserveTask, FinishReleases, FinishRelease, ReleaseReservation, ObserverDies,
         RemoteEnds, deliveryVars, outboxVars, itemVars, ledgerVars, remoteVars
  <1>10. \A s \in senders, fault \in Faults : AddFails(s, fault) => s.phase = "posting"
    BY DEF AddFails
  <1>11. \A s \in senders, reply \in Replies : AddAnswered(s, reply) => s.phase = "posting"
    BY DEF AddAnswered
  <1>12. ASSUME NEW s \in senders, SenderStep(s) \/ SenderDies(s) PROVE Goal
    BY <1>12, <1>5, <1>6, <1>7, <1>8, <1>10, <1>11, Zenon DEF SenderStep
  <1> QED BY <1>1, <1>3, <1>4, <1>9, <1>12, Zenon DEF DeliveryNext

(* Leases, breaker, journal, overlapping senders and crashes taken away, what is    *)
(* published is what RemoteWrite promises: an item delivered was taken by the      *)
(* service, its fate is final, and it was sent within its budget.                 *)
THEOREM DeliveryImplementsRemoteWrite == DeliverySpec => ImplementsRemoteWrite
  <1>1. DeliveryInit => Remote!Init
    BY FateValues DEF DeliveryInit, OutboxInit, Remote!Init
  <1>2. DeliveryInv /\ [DeliveryNext]_deliveryVars => [Remote!Next]_(Remote!vars)
    BY RemoteStep DEF Remote!vars, Fates
  <1> QED BY <1>1, <1>2, DeliveryInvariant, PTL DEF DeliverySpec, ImplementsRemoteWrite, Remote!Spec

=============================================================================
