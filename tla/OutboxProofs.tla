---------------------------- MODULE OutboxProofs ----------------------------
(***************************************************************************)
(* Proofs, for any set of items, buckets and limits, of what the run of    *)
(* MCOutbox checks on a small instance.                                    *)
(***************************************************************************)
EXTENDS Outbox, FiniteSetTheorems, TLAPS

Verdicts == {"accepted", "processing", "completed", "failed", "quarantine"}

(* The steps of the observer in OutboxNext by name.                            *)
Observed(i, verdict) == task[i] \in {"accepted", "processing"} /\ ObserveTask(i, verdict)
Settles(i) == task[i] \in {"completed", "failed", "quarantine"} /\ ReleaseReservation(i)

-----------------------------------------------------------------------------
(* Types *)

LEMMA SweepTypes ==
  ASSUME OutboxTypeOK
  PROVE  /\ SweptStatus \in [Items -> Status]
         /\ SweptTask \in [Items -> TaskStatus]
         /\ SweptLease \in [Items -> Nat]
         /\ SweptContent \in [Revisions -> ContentState]
         /\ SweptProbing \subseteq Buckets
  <1>1. SweptStatus \in [Items -> Status]
    BY DEF OutboxTypeOK, SweptStatus, Status, Waiting, Terminal
  <1>2. SweptTask \in [Items -> TaskStatus]
    BY DEF OutboxTypeOK, SweptTask, TaskStatus
  <1>3. SweptLease \in [Items -> Nat]
    BY DEF OutboxTypeOK, SweptLease
  <1>4. SweptContent \in [Revisions -> ContentState]
    BY DEF OutboxTypeOK, SweptContent, Marked, ContentState
  <1>5. SweptProbing \subseteq Buckets
    BY DEF OutboxTypeOK, SweptProbing
  <1> QED BY <1>1, <1>2, <1>3, <1>4, <1>5

LEMMA LessType ==
  ASSUME NEW n \in Nat, NEW k \in Nat
  PROVE  Less(n, k) \in Nat
  BY DEF Less

(* What a release leaves.                                                      *)
LEMMA ReleaseType ==
  ASSUME OutboxTypeOK, NEW is, reserved' = reserved \ is,
         pendingCount' = Less(pendingCount, Cardinality(reserved \intersect is))
  PROVE  reserved' \subseteq Items /\ pendingCount' \in Nat
  <1>1. IsFiniteSet(reserved \intersect is)
    BY OutboxAssumption, FS_Subset DEF OutboxTypeOK, OutboxAssumption
  <1>2. Cardinality(reserved \intersect is) \in Nat
    BY <1>1, FS_CardinalityType
  <1> QED
    BY <1>2, LessType DEF OutboxTypeOK

LEMMA InitType == OutboxInit => OutboxTypeOK
  BY OutboxAssumption DEF OutboxInit, OutboxTypeOK, OutboxAssumption, Status, Waiting,
     Terminal, TaskStatus, ContentState

LEMMA TypeStep ==
  ASSUME OutboxTypeOK, [OutboxNext]_outboxVars
  PROVE  OutboxTypeOK'
  <1> USE OutboxAssumption DEF OutboxAssumption
  <1>1. ASSUME NEW i \in Items, NEW open \in BOOLEAN, Enqueue(i, open) PROVE OutboxTypeOK'
    <2>1. status' \in [Items -> Status]
      BY <1>1 DEF Enqueue, OutboxTypeOK, Status, Waiting
    <2>2. reserved' \subseteq Items /\ pendingCount' \in Nat
      BY <1>1 DEF Enqueue, OutboxTypeOK, quotaVars
    <2> QED
      BY <1>1, <2>1, <2>2 DEF Enqueue, OutboxTypeOK, bucketVars, clockVars
  <1>2. ASSUME NEW i \in Items, NEW open \in BOOLEAN, Dispatch(i, open) PROVE OutboxTypeOK'
    <2>1. /\ status' \in [Items -> Status] /\ lease' \in [Items -> Nat]
          /\ dispatched' \in [Items -> Nat]
      BY <1>2, SweepTypes DEF Dispatch, OutboxTypeOK, Status
    <2>2. task' \in [Items -> TaskStatus]
      BY <1>2, SweepTypes DEF Dispatch, TaskStatus
    <2>3. circuit' \in [Buckets -> {"closed", "open", "half_open"}]
      BY <1>2 DEF Dispatch, OutboxTypeOK
    <2>4. /\ probing' \subseteq Buckets /\ probeLapsed' \subseteq Buckets
          /\ probes' \subseteq Items /\ newer' \subseteq Items
      BY <1>2, SweepTypes DEF Dispatch, OutboxTypeOK, Buckets
    <2>5. reserved' \subseteq Items /\ pendingCount' \in Nat
      BY <1>2, ReleaseType DEF Dispatch, Sweep
    <2>6. /\ content' \in [Revisions -> ContentState]
          /\ lapsed' \subseteq Items /\ backoff' \subseteq Items
          /\ UNCHANGED <<attempt, strikes, throttled, overdue>>
      BY <1>2, SweepTypes DEF Dispatch, Sweep, OutboxTypeOK
    <2> QED
      BY <2>1, <2>2, <2>3, <2>4, <2>5, <2>6 DEF OutboxTypeOK
  <1>3. ASSUME DispatchNothing PROVE OutboxTypeOK'
    <2>1. /\ status' \in [Items -> Status] /\ lease' \in [Items -> Nat]
          /\ task' \in [Items -> TaskStatus]
      BY <1>3, SweepTypes DEF DispatchNothing
    <2>2. /\ probing' \subseteq Buckets /\ probeLapsed' \subseteq Buckets
          /\ probes' \subseteq Items /\ newer' \subseteq Items
          /\ UNCHANGED <<dispatched, circuit>>
      BY <1>3, SweepTypes DEF DispatchNothing, OutboxTypeOK
    <2>3. reserved' \subseteq Items /\ pendingCount' \in Nat
      BY <1>3, ReleaseType DEF DispatchNothing, Sweep
    <2>4. /\ content' \in [Revisions -> ContentState]
          /\ lapsed' \subseteq Items /\ backoff' \subseteq Items
          /\ UNCHANGED <<attempt, strikes, throttled, overdue>>
      BY <1>3, SweepTypes DEF DispatchNothing, Sweep, OutboxTypeOK
    <2> QED
      BY <2>1, <2>2, <2>3, <2>4 DEF OutboxTypeOK
  <1>4. ASSUME NEW i \in Items, NEW semantic \in {"accepted", "processing", "completed"},
               NEW verified \in BOOLEAN, Ack(i, semantic, verified)
        PROVE OutboxTypeOK'
    <2>1. /\ status' \in [Items -> Status] /\ task' \in [Items -> TaskStatus]
          /\ lease' \in [Items -> Nat]
      BY <1>4 DEF Ack, EndLease, OutboxTypeOK, Status, Terminal, TaskStatus
    <2>2. content' \in [Revisions -> ContentState]
      BY <1>4 DEF Ack, OutboxTypeOK, ContentState
    <2>3. reserved' \subseteq Items /\ pendingCount' \in Nat
      BY <1>4, ReleaseType DEF Ack, Release
    <2>4. /\ circuit' \in [Buckets -> {"closed", "open", "half_open"}]
          /\ strikes' \in [Buckets -> 0..CircuitThreshold]
          /\ throttled' \subseteq Buckets /\ newer' \subseteq Items
      BY <1>4 DEF Ack, OutboxTypeOK, Touched
    <2>5. /\ probing' \subseteq Buckets /\ probeLapsed' \subseteq Buckets
          /\ probes' \subseteq Items /\ lapsed' \subseteq Items /\ backoff' \subseteq Items
          /\ UNCHANGED <<attempt, dispatched, overdue>>
      BY <1>4 DEF Ack, EndLease, OutboxTypeOK
    <2> QED
      BY <2>1, <2>2, <2>3, <2>4, <2>5 DEF OutboxTypeOK
  <1>5. ASSUME NEW i \in Items, NEW verdict \in {"retry_wait", "failed", "dead_letter"},
               Failed(i, verdict)
        PROVE /\ status' \in [Items -> Status] /\ task' \in [Items -> TaskStatus]
              /\ lease' \in [Items -> Nat] /\ content' \in [Revisions -> ContentState]
              /\ reserved' \subseteq Items /\ pendingCount' \in Nat
              /\ probing' \subseteq Buckets /\ probeLapsed' \subseteq Buckets
              /\ probes' \subseteq Items /\ lapsed' \subseteq Items /\ backoff' \subseteq Items
              /\ UNCHANGED <<dispatched, overdue>>
    <2>1. /\ status' \in [Items -> Status] /\ task' \in [Items -> TaskStatus]
          /\ lease' \in [Items -> Nat]
      BY <1>5 DEF Failed, EndLease, OutboxTypeOK, Status, Waiting, Terminal, TaskStatus
    <2>2. content' \in [Revisions -> ContentState]
      BY <1>5 DEF Failed, Marked, OutboxTypeOK, ContentState
    <2>3. reserved' \subseteq Items /\ pendingCount' \in Nat
      BY <1>5, ReleaseType DEF Failed, Release
    <2>4. /\ probing' \subseteq Buckets /\ probeLapsed' \subseteq Buckets
          /\ probes' \subseteq Items /\ lapsed' \subseteq Items /\ backoff' \subseteq Items
          /\ UNCHANGED <<dispatched, overdue>>
      BY <1>5 DEF Failed, EndLease, OutboxTypeOK
    <2> QED BY <2>1, <2>2, <2>3, <2>4
  <1>6. ASSUME NEW i \in Items, FailRateLimited(i) PROVE OutboxTypeOK'
    <2>1. circuit' \in [Buckets -> {"closed", "open", "half_open"}]
      BY <1>6 DEF FailRateLimited, CircuitAt, OutboxTypeOK
    <2>4. strikes' \in [Buckets -> 0..CircuitThreshold]
      <3> DEFINE b == Bucket[i]
                 count == IF strikes[b] < CircuitThreshold THEN strikes[b] + 1 ELSE strikes[b]
      <3>1. strikes' = [strikes EXCEPT ![b] = count]
        BY <1>6 DEF FailRateLimited
      <3>2. b \in Buckets /\ strikes \in [Buckets -> 0..CircuitThreshold]
        BY DEF Buckets, OutboxTypeOK
      <3>3. count \in 0..CircuitThreshold
        BY <3>2
      <3> HIDE DEF b, count
      <3> QED BY <3>1, <3>2, <3>3
    <2>2. throttled' \subseteq Buckets /\ newer' \subseteq Items /\ UNCHANGED attempt
      BY <1>6 DEF FailRateLimited, Touched, OutboxTypeOK, Buckets
    <2>3. PICK verdict \in {"retry_wait", "failed", "dead_letter"} : Failed(i, verdict)
      BY <1>6 DEF FailRateLimited
    <2> QED
      BY <1>5, <2>1, <2>2, <2>3, <2>4 DEF OutboxTypeOK
  <1>7. ASSUME NEW i \in Items, FailTransient(i) PROVE OutboxTypeOK'
    <2>1. /\ circuit' \in [Buckets -> {"closed", "open", "half_open"}]
          /\ UNCHANGED strikes /\ attempt' \in [Items -> Nat]
      BY <1>7 DEF FailTransient, OutboxTypeOK
    <2>2. throttled' \subseteq Buckets /\ newer' \subseteq Items
      BY <1>7 DEF FailTransient, Touched, OutboxTypeOK, Buckets
    <2>3. PICK verdict \in {"retry_wait", "failed", "dead_letter"} : Failed(i, verdict)
      BY <1>7 DEF FailTransient, Charged
    <2> QED
      BY <1>5, <2>1, <2>2, <2>3 DEF OutboxTypeOK
  <1>8. ASSUME NEW i \in Items, FailPermanent(i) PROVE OutboxTypeOK'
    <2>1. /\ circuit' \in [Buckets -> {"closed", "open", "half_open"}]
          /\ strikes' \in [Buckets -> 0..CircuitThreshold] /\ UNCHANGED attempt
      BY <1>8 DEF FailPermanent, OutboxTypeOK
    <2>2. throttled' \subseteq Buckets /\ newer' \subseteq Items
      BY <1>8 DEF FailPermanent, Touched, OutboxTypeOK
    <2>3. Failed(i, "failed")
      BY <1>8 DEF FailPermanent
    <2> QED
      BY <1>5, <2>1, <2>2, <2>3 DEF OutboxTypeOK
  <1>9. ASSUME NEW i \in Items, Settles(i) PROVE OutboxTypeOK'
    <2>1. reserved' \subseteq Items /\ pendingCount' \in Nat
      BY <1>9, ReleaseType DEF Settles, ReleaseReservation, Release
    <2> QED
      BY <1>9, <2>1 DEF Settles, ReleaseReservation, OutboxTypeOK, itemVars, bucketVars, clockVars
  <1>10. ASSUME NEW i \in Items, NEW verdict \in Verdicts, Observed(i, verdict)
         PROVE OutboxTypeOK'
    <2>1. task' \in [Items -> TaskStatus] /\ content' \in [Revisions -> ContentState]
      BY <1>10 DEF Observed, ObserveTask, TaskAfter, Verdicts, TaskStatus, ContentState, OutboxTypeOK
    <2> QED
      BY <1>10, <2>1 DEF Observed, ObserveTask, OutboxTypeOK, quotaVars, bucketVars, clockVars
  <1>11. ASSUME OutboxTime PROVE OutboxTypeOK'
    BY <1>11 DEF OutboxTime, LeaseLapses, DeadlinePasses, BackoffEnds, ProbeLapses,
       ThrottleEnds, OutboxTypeOK, itemVars, quotaVars, bucketVars, clockVars
  <1>12. CASE UNCHANGED outboxVars
    BY <1>12 DEF outboxVars, OutboxTypeOK
  <1>13. CASE OutboxNext
    BY <1>13, <1>1, <1>2, <1>3, <1>4, <1>6, <1>7, <1>8, <1>9, <1>10, <1>11, Zenon
       DEF OutboxNext, Settles, Observed, Verdicts
  <1> QED BY <1>12, <1>13

(* Every variable keeps its type.                                              *)
THEOREM OutboxTypeCorrect == OutboxSpec => []OutboxTypeOK
  BY InitType, TypeStep, PTL DEF OutboxSpec

-----------------------------------------------------------------------------
(* Leases, attempts and verdicts *)

(* The item invariant: leases agree with statuses, and the attempts of an item  *)
(* that is still alive are within the budget.                                  *)
ItemInv == OutboxTypeOK /\ LeaseAgreement /\ AttemptBudget /\ TaskAgreement

(* What a sweep does to one item.                                              *)
LEMMA SweepOfItem ==
  ASSUME ItemInv, NEW i \in Items
  PROVE  /\ status[i] \in Terminal \union {"absent"} => SweptStatus[i] = status[i]
         /\ SweptStatus[i] = "in_flight" <=> SweptLease[i] # 0
         /\ SweptLease[i] # 0 => SweptLease[i] = lease[i] /\ i \notin Reclaimed \union Overrun
         /\ SweptTask[i] \in TaskOf[SweptStatus[i]]
  <1> USE DEF ItemInv
  <1>1. status[i] \in Status /\ (status[i] = "in_flight" <=> lease[i] # 0)
    BY DEF OutboxTypeOK, LeaseAgreement
  <1>2. i \in Reclaimed => status[i] = "in_flight"
    BY <1>1 DEF Reclaimed
  <1>3. i \in Overrun => status[i] \in Waiting \union {"in_flight"}
    BY DEF Overrun
  <1>4. SweptStatus[i] = IF i \in Overrun THEN "dead_letter"
                         ELSE IF i \in Reclaimed THEN "retry_wait" ELSE status[i]
    BY <1>2 DEF SweptStatus
  <1>5. SweptLease[i] = IF i \in Reclaimed \union Overrun THEN 0 ELSE lease[i]
    BY DEF SweptLease
  <1>6. status[i] \in Terminal \union {"absent"} => SweptStatus[i] = status[i]
    BY <1>2, <1>3, <1>4 DEF Terminal, Waiting
  <1>7. SweptStatus[i] = "in_flight" <=> SweptLease[i] # 0
    BY <1>1, <1>4, <1>5
  <1>8. task[i] \in TaskOf[status[i]]
    BY DEF TaskAgreement
  <1>9. SweptTask[i] \in TaskOf[SweptStatus[i]]
    BY <1>1, <1>2, <1>3, <1>4, <1>8 DEF TaskOf, SweptTask, Status, Waiting, Terminal
  <1> QED BY <1>5, <1>6, <1>7, <1>9

LEMMA ItemInit == OutboxInit => ItemInv
  BY InitType, OutboxAssumption
     DEF OutboxInit, OutboxAssumption, ItemInv, LeaseAgreement, AttemptBudget, TaskAgreement, TaskOf

(* A step that ends the lease of one item and gives it a verdict keeps the      *)
(* agreement of every item.                                                    *)
LEMMA EndStep ==
  ASSUME ItemInv, NEW i \in Items, NEW verdict \in Status, NEW ending \in TaskStatus,
         ending \in TaskOf[verdict], verdict # "in_flight",
         status' = [status EXCEPT ![i] = verdict],
         task' = [task EXCEPT ![i] = ending],
         lease' = [lease EXCEPT ![i] = 0],
         lapsed' = lapsed \ {i}, probes' = probes \ {i},
         newer' \subseteq {k \in Items : lease[k] # 0} \ {i}
  PROVE  LeaseAgreement' /\ TaskAgreement'
  <1> USE DEF ItemInv
  <1>1. \A k \in Items : status'[k] = "in_flight" <=> lease'[k] # 0
    BY DEF OutboxTypeOK, LeaseAgreement
  <1>2. (probes \union newer \union lapsed \subseteq {k \in Items : lease[k] # 0})'
    BY DEF OutboxTypeOK, LeaseAgreement
  <1>3. TaskAgreement'
    BY DEF OutboxTypeOK, TaskAgreement
  <1> QED BY <1>1, <1>2, <1>3 DEF LeaseAgreement

LEMMA FailedStep ==
  ASSUME ItemInv, NEW i \in Items, NEW verdict \in {"retry_wait", "failed", "dead_letter"},
         Failed(i, verdict), newer' \subseteq {k \in Items : lease[k] # 0} \ {i}
  PROVE  LeaseAgreement' /\ TaskAgreement'
  <1>1. verdict \in Status /\ verdict \in TaskStatus /\ verdict \in TaskOf[verdict]
    BY DEF Status, Waiting, Terminal, TaskStatus, TaskOf
  <1> QED BY <1>1, EndStep DEF Failed, EndLease

LEMMA ItemStep ==
  ASSUME ItemInv, [OutboxNext]_outboxVars
  PROVE  ItemInv'
  <1> USE OutboxAssumption DEF OutboxAssumption
  <1>0. OutboxTypeOK'
    BY TypeStep DEF ItemInv
  <1>1. ASSUME NEW i \in Items, NEW open \in BOOLEAN, Enqueue(i, open)
        PROVE LeaseAgreement' /\ AttemptBudget' /\ TaskAgreement'
    <2>1. LeaseAgreement'
      BY <1>1 DEF Enqueue, ItemInv, LeaseAgreement, OutboxTypeOK, bucketVars, clockVars
    <2>2. AttemptBudget'
      BY <1>1 DEF Enqueue, ItemInv, AttemptBudget, OutboxTypeOK
    <2>3. TaskAgreement'
      BY <1>1 DEF Enqueue, ItemInv, TaskAgreement, TaskOf, OutboxTypeOK
    <2> QED BY <2>1, <2>2, <2>3
  <1>2. ASSUME NEW i \in Items, NEW open \in BOOLEAN, Dispatch(i, open)
        PROVE LeaseAgreement' /\ AttemptBudget' /\ TaskAgreement'
    <2>1. /\ SweptStatus[i] \in Waiting /\ SweptStatus \in [Items -> Status]
          /\ SweptLease \in [Items -> Nat] /\ SweptTask \in [Items -> TaskStatus]
      BY <1>2, SweepTypes DEF Dispatch, Eligible, ItemInv
    <2>2. /\ status' = [SweptStatus EXCEPT ![i] = "in_flight"]
          /\ lease' = [SweptLease EXCEPT ![i] = dispatched[i] + 1]
          /\ task' = [SweptTask EXCEPT ![i] = IF @ = "absent" THEN "queued" ELSE @]
          /\ attempt' = attempt /\ dispatched[i] \in Nat
      BY <1>2 DEF Dispatch, Sweep, ItemInv, OutboxTypeOK
    <2>3. \A k \in Items : status'[k] = "in_flight" <=> lease'[k] # 0
      BY <2>1, <2>2, SweepOfItem
    <2>4. (probes \union newer \union lapsed \subseteq {k \in Items : lease[k] # 0})'
      <3>1. probes' \union newer' \subseteq {k \in Items : SweptLease[k] # 0} \union {i}
        BY <1>2 DEF Dispatch
      <3>2. lapsed' \subseteq {k \in Items : SweptLease[k] # 0}
        BY <1>2 DEF Dispatch, Sweep, SweptLease, ItemInv, LeaseAgreement
      <3> QED BY <2>1, <2>2, <3>1, <3>2
    <2>5. AttemptBudget'
      BY <2>1, <2>2, SweepOfItem DEF ItemInv, AttemptBudget, Terminal, Waiting
    <2>6. TaskAgreement'
      <3>1. \A k \in Items : SweptTask[k] \in TaskOf[SweptStatus[k]]
        BY SweepOfItem
      <3> QED BY <2>1, <2>2, <3>1 DEF TaskAgreement, TaskOf, Waiting
    <2> QED BY <2>3, <2>4, <2>5, <2>6 DEF LeaseAgreement
  <1>3. ASSUME DispatchNothing
        PROVE LeaseAgreement' /\ AttemptBudget' /\ TaskAgreement'
    <2>1. \A k \in Items : status'[k] = "in_flight" <=> lease'[k] # 0
      BY <1>3, SweepOfItem DEF DispatchNothing
    <2>2. (probes \union newer \union lapsed \subseteq {k \in Items : lease[k] # 0})'
      BY <1>3 DEF DispatchNothing, Sweep, SweptLease, ItemInv, LeaseAgreement
    <2>3. AttemptBudget'
      BY <1>3, SweepOfItem DEF DispatchNothing, Sweep, ItemInv, AttemptBudget, Terminal
    <2>4. TaskAgreement'
      BY <1>3, SweepOfItem DEF DispatchNothing, TaskAgreement
    <2> QED BY <2>1, <2>2, <2>3, <2>4 DEF LeaseAgreement
  <1>4. ASSUME NEW i \in Items, NEW semantic \in {"accepted", "processing", "completed"},
               NEW verified \in BOOLEAN, Ack(i, semantic, verified)
        PROVE LeaseAgreement' /\ AttemptBudget' /\ TaskAgreement'
    <2>1. "completed" \in Status /\ semantic \in TaskStatus /\ semantic \in TaskOf["completed"]
      BY DEF Status, Terminal, TaskStatus, TaskOf
    <2>2. newer' \subseteq {k \in Items : lease[k] # 0} \ {i}
      BY <1>4 DEF Ack, Touched, ItemInv, LeaseAgreement
    <2>3. LeaseAgreement' /\ TaskAgreement'
      BY <1>4, <2>1, <2>2, EndStep DEF Ack, EndLease
    <2>4. AttemptBudget'
      BY <1>4 DEF Ack, ItemInv, AttemptBudget, OutboxTypeOK
    <2> QED BY <2>3, <2>4
  <1>5. ASSUME NEW i \in Items, FailRateLimited(i)
        PROVE LeaseAgreement' /\ AttemptBudget' /\ TaskAgreement'
    <2>1. PICK verdict \in {"retry_wait", "failed", "dead_letter"} : Failed(i, verdict)
      BY <1>5 DEF FailRateLimited
    <2>2. newer' \subseteq {k \in Items : lease[k] # 0} \ {i}
      BY <1>5 DEF FailRateLimited, Touched, ItemInv, LeaseAgreement
    <2>3. AttemptBudget'
      BY <1>5, <2>1 DEF FailRateLimited, Failed, ItemInv, AttemptBudget, OutboxTypeOK
    <2> QED BY <2>1, <2>2, <2>3, FailedStep
  <1>6. ASSUME NEW i \in Items, FailTransient(i)
        PROVE LeaseAgreement' /\ AttemptBudget' /\ TaskAgreement'
    <2>1. /\ Charged(attempt[i] + 1) \in {"retry_wait", "failed", "dead_letter"}
          /\ Failed(i, Charged(attempt[i] + 1))
      BY <1>6 DEF FailTransient, Charged
    <2>2. newer' \subseteq {k \in Items : lease[k] # 0} \ {i}
      BY <1>6 DEF FailTransient, Touched, ItemInv, LeaseAgreement
    <2>3. /\ status[i] = "in_flight" /\ attempt' = [attempt EXCEPT ![i] = attempt[i] + 1]
          /\ status' = [status EXCEPT ![i] = Charged(attempt[i] + 1)]
      BY <1>6 DEF FailTransient, Failed
    <2>4. AttemptBudget'
      BY <2>3 DEF ItemInv, AttemptBudget, OutboxTypeOK, Charged
    <2> QED BY <2>1, <2>2, <2>4, FailedStep
  <1>7. ASSUME NEW i \in Items, FailPermanent(i)
        PROVE LeaseAgreement' /\ AttemptBudget' /\ TaskAgreement'
    <2>1. Failed(i, "failed")
      BY <1>7 DEF FailPermanent
    <2>2. newer' \subseteq {k \in Items : lease[k] # 0} \ {i}
      BY <1>7 DEF FailPermanent, Touched, ItemInv, LeaseAgreement
    <2>3. AttemptBudget'
      BY <1>7, <2>1 DEF FailPermanent, Failed, ItemInv, AttemptBudget, OutboxTypeOK
    <2> QED BY <2>1, <2>2, <2>3, FailedStep
  <1>8. ASSUME NEW i \in Items, Settles(i)
        PROVE LeaseAgreement' /\ AttemptBudget' /\ TaskAgreement'
    BY <1>8 DEF Settles, ReleaseReservation, itemVars, bucketVars, clockVars, ItemInv,
       LeaseAgreement, AttemptBudget, TaskAgreement
  <1>9. ASSUME NEW i \in Items, NEW verdict \in Verdicts, Observed(i, verdict)
        PROVE LeaseAgreement' /\ AttemptBudget' /\ TaskAgreement'
    <2>1. LeaseAgreement' /\ AttemptBudget'
      BY <1>9 DEF Observed, ObserveTask, bucketVars, clockVars, ItemInv, LeaseAgreement,
         AttemptBudget
    <2>2. TaskAgreement'
      BY <1>9 DEF Observed, ObserveTask, TaskAfter, Verdicts, ItemInv, TaskAgreement, TaskOf,
         OutboxTypeOK
    <2> QED BY <2>1, <2>2
  <1>10. ASSUME OutboxTime
         PROVE LeaseAgreement' /\ AttemptBudget' /\ TaskAgreement'
    <2>1. UNCHANGED <<status, attempt, lease, task, probes, newer>>
      BY <1>10 DEF OutboxTime, LeaseLapses, DeadlinePasses, BackoffEnds, ProbeLapses,
         ThrottleEnds, itemVars, bucketVars
    <2>2. lapsed' \subseteq {k \in Items : lease[k] # 0}
      BY <1>10 DEF OutboxTime, LeaseLapses, DeadlinePasses, BackoffEnds, ProbeLapses,
         ThrottleEnds, clockVars, ItemInv, LeaseAgreement
    <2> QED
      BY <2>1, <2>2 DEF ItemInv, LeaseAgreement, AttemptBudget, TaskAgreement
  <1>11. CASE UNCHANGED outboxVars
    BY <1>11, <1>0 DEF outboxVars, ItemInv, LeaseAgreement, AttemptBudget, TaskAgreement
  <1>12. CASE OutboxNext
    <2>1. LeaseAgreement' /\ AttemptBudget' /\ TaskAgreement'
      BY <1>12, <1>1, <1>2, <1>3, <1>4, <1>5, <1>6, <1>7, <1>8, <1>9, <1>10, Zenon
         DEF OutboxNext, Settles, Observed, Verdicts
    <2> QED BY <1>0, <2>1 DEF ItemInv
  <1> QED BY <1>11, <1>12

LEMMA ItemInvariant == OutboxSpec => []ItemInv
  BY ItemInit, ItemStep, PTL DEF OutboxSpec

(* An item is in flight exactly while it has a lease, whatever lapses and       *)
(* however late an answer is.                                                  *)
THEOREM LeasesAgree == OutboxSpec => []LeaseAgreement
  <1>1. ItemInv => LeaseAgreement
    BY DEF ItemInv
  <1> QED BY <1>1, ItemInvariant, PTL

(* The semantic task of an item tells the same story as its row.                *)
THEOREM TasksAgree == OutboxSpec => []TaskAgreement
  <1>1. ItemInv => TaskAgreement
    BY DEF ItemInv
  <1> QED BY <1>1, ItemInvariant, PTL

(* No item is charged more than max_attempts + 1 attempts.                      *)
THEOREM BudgetHolds == OutboxSpec => []AttemptBudget
  <1>1. ItemInv => AttemptBudget
    BY DEF ItemInv
  <1> QED BY <1>1, ItemInvariant, PTL

-----------------------------------------------------------------------------
(* The circuit breaker *)

BreakerInv == OutboxTypeOK /\ BreakerAgreement

LEMMA BreakerInit == OutboxInit => BreakerInv
  BY InitType, OutboxAssumption DEF OutboxInit, OutboxAssumption, BreakerInv, BreakerAgreement

(* A step that gives one bucket a count and a circuit that agree, and takes its *)
(* probe lease away, keeps the agreement of every bucket.                      *)
LEMMA BucketStep ==
  ASSUME BreakerInv, NEW b \in Buckets, NEW state \in {"closed", "open"},
         NEW count \in 0..CircuitThreshold, state = "closed" <=> count < CircuitThreshold,
         circuit' = [circuit EXCEPT ![b] = state],
         strikes' = [strikes EXCEPT ![b] = count],
         probing' \subseteq probing \ {b}
  PROVE  BreakerAgreement'
  BY DEF BreakerInv, BreakerAgreement, OutboxTypeOK

(* A closed circuit goes with a count of zero.                                 *)
LEMMA CloseStep ==
  ASSUME BreakerInv, NEW b \in Buckets,
         circuit' = [circuit EXCEPT ![b] = "closed"],
         strikes' = [strikes EXCEPT ![b] = 0],
         probing' = probing \ {b}
  PROVE  BreakerAgreement'
  <1>1. 0 \in 0..CircuitThreshold /\ 0 < CircuitThreshold
    BY OutboxAssumption DEF OutboxAssumption
  <1> QED BY <1>1, BucketStep

(* So does one that moves a circuit between open and half open and gives no     *)
(* probe lease to an open one.                                                 *)
LEMMA ReopenStep ==
  ASSUME BreakerInv, NEW b \in Buckets, NEW state \in {"open", "half_open"},
         circuit[b] # "closed", strikes' = strikes,
         circuit' = [circuit EXCEPT ![b] = state],
         probing' \subseteq IF state = "open" THEN probing \ {b} ELSE probing \union {b}
  PROVE  BreakerAgreement'
  <1>1. ASSUME NEW k \in Buckets PROVE circuit'[k] = "closed" <=> strikes'[k] < CircuitThreshold
    BY <1>1 DEF BreakerInv, BreakerAgreement, OutboxTypeOK
  <1>2. ASSUME NEW k \in Buckets, k \in probing' PROVE circuit'[k] = "half_open"
    BY <1>2 DEF BreakerInv, BreakerAgreement, OutboxTypeOK
  <1> QED BY <1>1, <1>2 DEF BreakerAgreement

(* So does one that leaves counts and circuits alone.                          *)
LEMMA QuietStep ==
  ASSUME BreakerInv, UNCHANGED <<circuit, strikes>>, probing' \subseteq probing
  PROVE  BreakerAgreement'
  BY DEF BreakerInv, BreakerAgreement

LEMMA BreakerStep ==
  ASSUME BreakerInv, [OutboxNext]_outboxVars
  PROVE  BreakerInv'
  <1> USE OutboxAssumption DEF OutboxAssumption
  <1>0. OutboxTypeOK'
    BY TypeStep DEF BreakerInv
  <1>a. OutboxTypeOK /\ \A i \in Items : Bucket[i] \in Buckets
    BY DEF BreakerInv, Buckets
  <1>1. ASSUME NEW i \in Items, NEW open \in BOOLEAN, Enqueue(i, open) PROVE BreakerAgreement'
    BY <1>1, QuietStep DEF Enqueue, bucketVars
  <1>2. ASSUME NEW i \in Items, NEW open \in BOOLEAN, Dispatch(i, open) PROVE BreakerAgreement'
    <2> DEFINE b == Bucket[i]
               probe == Guarded(i) /\ circuit[b] # "closed"
    <2>1. /\ circuit' = [circuit EXCEPT ![b] = IF probe THEN "half_open" ELSE @]
          /\ probing' = SweptProbing \union (IF probe THEN {b} ELSE {})
          /\ strikes' = strikes
      BY <1>2 DEF Dispatch, Sweep
    <2>2. SweptProbing \subseteq probing
      BY DEF SweptProbing
    <2>3. CASE probe
      <3>1. /\ circuit' = [circuit EXCEPT ![b] = "half_open"]
            /\ probing' \subseteq probing \union {b} /\ circuit[b] # "closed"
        BY <2>1, <2>2, <2>3
      <3>2. b \in Buckets
        BY <1>a
      <3> HIDE DEF b
      <3> QED BY <2>1, <3>1, <3>2, ReopenStep
    <2>4. CASE ~probe
      <3>1. circuit' = circuit /\ probing' \subseteq probing
        BY <1>a, <2>1, <2>2, <2>4 DEF OutboxTypeOK
      <3> QED BY <2>1, <3>1, QuietStep
    <2> QED BY <2>3, <2>4
  <1>3. ASSUME DispatchNothing PROVE BreakerAgreement'
    BY <1>3, QuietStep DEF DispatchNothing, Sweep, SweptProbing
  <1>4. ASSUME NEW i \in Items, NEW semantic \in {"accepted", "processing", "completed"},
               NEW verified \in BOOLEAN, Ack(i, semantic, verified)
        PROVE BreakerAgreement'
    <2>1. CASE Heals(i)
      <3>1. Guarded(i)
        BY <2>1 DEF Heals
      <3>2. /\ circuit' = [circuit EXCEPT ![Bucket[i]] = "closed"]
            /\ strikes' = [strikes EXCEPT ![Bucket[i]] = 0]
            /\ probing' = probing \ {Bucket[i]}
        BY <1>4, <2>1, <3>1 DEF Ack
      <3> QED BY <1>a, <3>2, CloseStep
    <2>2. CASE ~Heals(i)
      BY <1>4, <2>2, QuietStep DEF Ack
    <2> QED BY <2>1, <2>2
  <1>5. ASSUME NEW i \in Items, FailRateLimited(i) PROVE BreakerAgreement'
    <2> DEFINE b == Bucket[i]
               count == IF strikes[b] < CircuitThreshold THEN strikes[b] + 1 ELSE strikes[b]
    <2>1. /\ circuit' = [circuit EXCEPT ![b] = CircuitAt(count)]
          /\ strikes' = [strikes EXCEPT ![b] = count]
          /\ probing' \subseteq probing \ {b}
      BY <1>5 DEF FailRateLimited, Failed
    <2>2. b \in Buckets /\ strikes[b] \in 0..CircuitThreshold
      BY <1>a DEF OutboxTypeOK
    <2>3. /\ count \in 0..CircuitThreshold /\ CircuitAt(count) \in {"closed", "open"}
          /\ CircuitAt(count) = "closed" <=> count < CircuitThreshold
      BY <2>2 DEF CircuitAt
    <2> HIDE DEF b, count
    <2> QED BY <2>1, <2>2, <2>3, BucketStep
  <1>6. ASSUME NEW i \in Items, FailTransient(i) PROVE BreakerAgreement'
    <2>1. probing' = probing \ {Bucket[i]} /\ strikes' = strikes
      BY <1>6 DEF FailTransient, Failed
    <2>2. CASE circuit[Bucket[i]] = "half_open"
      <3>1. circuit' = [circuit EXCEPT ![Bucket[i]] = "open"]
        BY <1>6, <2>2 DEF FailTransient
      <3> QED BY <1>a, <2>1, <2>2, <3>1, ReopenStep
    <2>3. CASE circuit[Bucket[i]] # "half_open"
      BY <1>6, <2>1, <2>3, QuietStep DEF FailTransient
    <2> QED BY <2>2, <2>3
  <1>7. ASSUME NEW i \in Items, FailPermanent(i) PROVE BreakerAgreement'
    <2>1. probing' = probing \ {Bucket[i]}
      BY <1>7 DEF FailPermanent, Failed
    <2>2. CASE circuit[Bucket[i]] = "half_open"
      <3>1. /\ circuit' = [circuit EXCEPT ![Bucket[i]] = "closed"]
            /\ strikes' = [strikes EXCEPT ![Bucket[i]] = 0]
        BY <1>7, <2>2 DEF FailPermanent
      <3> QED BY <1>a, <2>1, <3>1, CloseStep
    <2>3. CASE circuit[Bucket[i]] # "half_open"
      BY <1>7, <2>1, <2>3, QuietStep DEF FailPermanent
    <2> QED BY <2>2, <2>3
  <1>8. ASSUME NEW i \in Items, Settles(i) PROVE BreakerAgreement'
    BY <1>8, QuietStep DEF Settles, ReleaseReservation, bucketVars
  <1>9. ASSUME NEW i \in Items, NEW verdict \in Verdicts, Observed(i, verdict)
        PROVE BreakerAgreement'
    BY <1>9, QuietStep DEF Observed, ObserveTask, bucketVars
  <1>10. ASSUME OutboxTime PROVE BreakerAgreement'
    <2>1. UNCHANGED <<circuit, strikes, probing>>
      BY <1>10 DEF OutboxTime, LeaseLapses, DeadlinePasses, BackoffEnds, ProbeLapses,
         ThrottleEnds, bucketVars
    <2> QED BY <2>1, QuietStep
  <1>11. CASE UNCHANGED outboxVars
    BY <1>11, <1>0, QuietStep DEF outboxVars, BreakerInv
  <1>12. CASE OutboxNext
    <2>1. BreakerAgreement'
      BY <1>12, <1>1, <1>2, <1>3, <1>4, <1>5, <1>6, <1>7, <1>8, <1>9, <1>10, Zenon
         DEF OutboxNext, Settles, Observed, Verdicts
    <2> QED BY <1>0, <2>1 DEF BreakerInv
  <1> QED BY <1>11, <1>12

(* The circuit of a bucket agrees with its count of 429 answers, and a probe     *)
(* lease exists only while it is half open.                                     *)
THEOREM BreakersAgree == OutboxSpec => []BreakerAgreement
  <1>1. BreakerInv => BreakerAgreement
    BY DEF BreakerInv
  <1> QED BY <1>1, BreakerInit, BreakerStep, PTL DEF OutboxSpec

-----------------------------------------------------------------------------
(* The reservations of the concept profile *)

QuotaInv == ItemInv /\ ReservationAgreement

(* Where a release may take a reservation from: an item that is not on its way. *)
Settled(i) == ~(Reserving(i) /\ status'[i] \in Waiting \union {"in_flight"})

LEMMA QuotaInit == OutboxInit => QuotaInv
  <1>1. OutboxInit => pendingCount = Cardinality(reserved) /\ pendingCount <= SoftLimit
    BY OutboxAssumption, FS_EmptySet DEF OutboxInit, OutboxAssumption
  <1>2. ASSUME OutboxInit PROVE ReservationAgreement
    BY <1>1, <1>2 DEF OutboxInit, ReservationAgreement, Waiting
  <1> QED BY <1>2, ItemInit DEF QuotaInv

(* The counter after a release is the number of reservations left.             *)
LEMMA ReleaseCounts ==
  ASSUME QuotaInv, NEW is, reserved' = reserved \ is,
         pendingCount' = Less(pendingCount, Cardinality(reserved \intersect is))
  PROVE  pendingCount' = Cardinality(reserved') /\ pendingCount' <= SoftLimit
  <1>1. IsFiniteSet(reserved)
    BY OutboxAssumption, FS_Subset DEF QuotaInv, ItemInv, OutboxTypeOK, OutboxAssumption
  <1>2. /\ IsFiniteSet(reserved \ is) /\ IsFiniteSet(reserved \intersect is)
        /\ Cardinality(reserved \ is) \in Nat /\ Cardinality(reserved \intersect is) \in Nat
    BY <1>1, FS_Subset, FS_CardinalityType
  <1>3. Cardinality(reserved) = Cardinality(reserved \ is) + Cardinality(reserved \intersect is)
    <2>1. Cardinality(reserved \ is) = Cardinality(reserved) - Cardinality(reserved \intersect is)
      BY <1>1, FS_Difference
    <2> QED BY <1>1, <1>2, <2>1, FS_CardinalityType
  <1>4. pendingCount = Cardinality(reserved) /\ pendingCount <= SoftLimit /\ SoftLimit \in Nat
    BY OutboxAssumption DEF QuotaInv, ReservationAgreement, OutboxAssumption
  <1> HIDE DEF QuotaInv
  <1> QED BY <1>2, <1>3, <1>4 DEF Less

(* A release keeps the agreement when it takes the reservations of settled      *)
(* items, and every item that fails with it is among those.                     *)
LEMMA ReleaseStep ==
  ASSUME QuotaInv, NEW is, reserved' = reserved \ is,
         pendingCount' = Less(pendingCount, Cardinality(reserved \intersect is)),
         \A i \in Items : i \in is => Settled(i),
         \A i \in Items :
           \/ status'[i] = status[i]
           \/ status'[i] = "completed"
           \/ status'[i] \in Waiting \union {"in_flight"}
                /\ status[i] \in Waiting \union {"in_flight"}
           \/ i \in is
  PROVE  ReservationAgreement'
  <1>1. pendingCount' = Cardinality(reserved') /\ pendingCount' <= SoftLimit
    BY ReleaseCounts
  <1>2. ASSUME NEW i \in Items
        PROVE /\ Reserving(i) /\ status'[i] \in Waiting \union {"in_flight"} => i \in reserved'
              /\ i \in reserved' => status'[i] \notin {"absent", "failed", "dead_letter"}
    BY <1>2 DEF QuotaInv, ReservationAgreement, Settled, Waiting
  <1> QED BY <1>1, <1>2 DEF ReservationAgreement, Reserving

LEMMA QuotaUnchanged ==
  ASSUME QuotaInv, UNCHANGED <<status, reserved, pendingCount>>
  PROVE  ReservationAgreement'
  BY DEF QuotaInv, ReservationAgreement

LEMMA SweptRelease ==
  ASSUME QuotaInv, Sweep, NEW i \in Items
  PROVE  /\ i \in Overrun <=> SweptStatus[i] # status[i] /\ SweptStatus[i] = "dead_letter"
         /\ \/ SweptStatus[i] = status[i]
            \/ /\ SweptStatus[i] \in Waiting \union {"in_flight"}
               /\ status[i] \in Waiting \union {"in_flight"}
            \/ i \in Overrun
  BY DEF SweptStatus, Overrun, Waiting

LEMMA FailedRelease ==
  ASSUME QuotaInv, NEW i \in Items, NEW verdict \in {"retry_wait", "failed", "dead_letter"},
         Failed(i, verdict)
  PROVE  ReservationAgreement'
  <1> DEFINE is == IF verdict \in Terminal THEN {i} ELSE {}
  <1>1. /\ reserved' = reserved \ is
        /\ pendingCount' = Less(pendingCount, Cardinality(reserved \intersect is))
        /\ status' = [status EXCEPT ![i] = verdict] /\ status[i] = "in_flight"
    BY DEF Failed, Release
  <1>2. \A k \in Items : status'[k] = IF k = i THEN verdict ELSE status[k]
    BY <1>1 DEF QuotaInv, ItemInv, OutboxTypeOK
  <1>3. \A k \in Items : k \in is => Settled(k)
    BY <1>2 DEF Settled, Terminal, Waiting
  <1>4. \A k \in Items :
          \/ status'[k] = status[k]
          \/ status'[k] \in Waiting \union {"in_flight"} /\ status[k] \in Waiting \union {"in_flight"}
          \/ k \in is
    BY <1>1, <1>2 DEF Terminal, Waiting
  <1> HIDE DEF is
  <1> QED BY <1>1, <1>3, <1>4, ReleaseStep

LEMMA QuotaStep ==
  ASSUME QuotaInv, [OutboxNext]_outboxVars
  PROVE  QuotaInv'
  <1> USE OutboxAssumption DEF OutboxAssumption
  <1>0. ItemInv'
    BY ItemStep DEF QuotaInv
  <1>a. OutboxTypeOK
    BY DEF QuotaInv, ItemInv
  <1>1. ASSUME NEW i \in Items, NEW open \in BOOLEAN, Enqueue(i, open)
        PROVE ReservationAgreement'
    <2>1. /\ status[i] = "absent" /\ i \notin reserved
          /\ \A k \in Items : status'[k] = IF k = i THEN "pending" ELSE status[k]
      BY <1>1, <1>a DEF Enqueue, OutboxTypeOK, QuotaInv, ReservationAgreement
    <2>2. CASE Reserving(i)
      <3>1. /\ reserved' = reserved \union {i} /\ pendingCount' = pendingCount + 1
            /\ pendingCount < SoftLimit
        BY <1>1, <2>2 DEF Enqueue
      <3>2. IsFiniteSet(reserved)
        BY <1>a, FS_Subset DEF OutboxTypeOK
      <3>3. Cardinality(reserved') = Cardinality(reserved) + 1
        BY <2>1, <3>1, <3>2, FS_AddElement
      <3>4. pendingCount' = Cardinality(reserved') /\ pendingCount' <= SoftLimit
        BY <1>a, <3>1, <3>3 DEF OutboxTypeOK, QuotaInv, ReservationAgreement
      <3>5. \A k \in Items :
              /\ Reserving(k) /\ status'[k] \in Waiting \union {"in_flight"} => k \in reserved'
              /\ k \in reserved' => status'[k] \notin {"absent", "failed", "dead_letter"}
        BY <2>1, <3>1 DEF QuotaInv, ReservationAgreement
      <3> QED BY <3>4, <3>5 DEF ReservationAgreement, Reserving
    <2>3. CASE ~Reserving(i)
      <3>1. reserved' = reserved /\ pendingCount' = pendingCount
        BY <1>1, <2>3 DEF Enqueue, quotaVars
      <3>2. \A k \in Items :
              /\ Reserving(k) /\ status'[k] \in Waiting \union {"in_flight"} => k \in reserved'
              /\ k \in reserved' => status'[k] \notin {"absent", "failed", "dead_letter"}
        BY <2>1, <2>3, <3>1 DEF QuotaInv, ReservationAgreement
      <3> QED BY <3>1, <3>2 DEF QuotaInv, ReservationAgreement, Reserving
    <2> QED BY <2>2, <2>3
  <1>2. ASSUME NEW i \in Items, NEW open \in BOOLEAN, Dispatch(i, open)
        PROVE ReservationAgreement'
    <2>1. /\ reserved' = reserved \ Overrun
          /\ pendingCount' = Less(pendingCount, Cardinality(reserved \intersect Overrun))
          /\ Sweep /\ SweptStatus[i] \in Waiting
          /\ status' = [SweptStatus EXCEPT ![i] = "in_flight"]
      BY <1>2 DEF Dispatch, Eligible, Sweep
    <2>2. \A k \in Items : status'[k] = IF k = i THEN "in_flight" ELSE SweptStatus[k]
      BY <1>a, <2>1, SweepTypes
    <2>3. \A k \in Items : k \in Overrun => SweptStatus[k] = "dead_letter"
      BY DEF SweptStatus
    <2>4. \A k \in Items : k \in Overrun => Settled(k)
      BY <2>1, <2>2, <2>3 DEF Settled, Waiting
    <2>5. \A k \in Items :
            \/ status'[k] = status[k]
            \/ status'[k] \in Waiting \union {"in_flight"} /\ status[k] \in Waiting \union {"in_flight"}
            \/ k \in Overrun
      BY <2>1, <2>2, <2>3, SweptRelease DEF Waiting
    <2> QED BY <2>1, <2>4, <2>5, ReleaseStep
  <1>3. ASSUME DispatchNothing PROVE ReservationAgreement'
    <2>1. /\ reserved' = reserved \ Overrun
          /\ pendingCount' = Less(pendingCount, Cardinality(reserved \intersect Overrun))
          /\ Sweep /\ status' = SweptStatus
      BY <1>3 DEF DispatchNothing, Sweep
    <2>2. \A k \in Items : k \in Overrun => Settled(k)
      BY <2>1 DEF Settled, SweptStatus, Waiting
    <2>3. \A k \in Items :
            \/ status'[k] = status[k]
            \/ status'[k] \in Waiting \union {"in_flight"} /\ status[k] \in Waiting \union {"in_flight"}
            \/ k \in Overrun
      BY <2>1, SweptRelease
    <2> QED BY <2>1, <2>2, <2>3, ReleaseStep
  <1>4. ASSUME NEW i \in Items, NEW semantic \in {"accepted", "processing", "completed"},
               NEW verified \in BOOLEAN, Ack(i, semantic, verified)
        PROVE ReservationAgreement'
    <2> DEFINE is == IF semantic = "completed" THEN {i} ELSE {}
    <2>1. /\ reserved' = reserved \ is
          /\ pendingCount' = Less(pendingCount, Cardinality(reserved \intersect is))
          /\ status' = [status EXCEPT ![i] = "completed"]
      BY <1>4 DEF Ack, Release
    <2>2. \A k \in Items : status'[k] = IF k = i THEN "completed" ELSE status[k]
      BY <1>a, <2>1 DEF OutboxTypeOK
    <2>3. \A k \in Items : k \in is => Settled(k)
      BY <2>2 DEF Settled, Waiting
    <2>4. \A k \in Items : status'[k] = status[k] \/ status'[k] = "completed"
      BY <2>2
    <2> HIDE DEF is
    <2> QED BY <2>1, <2>3, <2>4, ReleaseStep
  <1>5. ASSUME NEW i \in Items, FailRateLimited(i) PROVE ReservationAgreement'
    BY <1>5, FailedRelease DEF FailRateLimited
  <1>6. ASSUME NEW i \in Items, FailTransient(i) PROVE ReservationAgreement'
    BY <1>6, FailedRelease DEF FailTransient, Charged
  <1>7. ASSUME NEW i \in Items, FailPermanent(i) PROVE ReservationAgreement'
    BY <1>7, FailedRelease DEF FailPermanent
  <1>8. ASSUME NEW i \in Items, Settles(i) PROVE ReservationAgreement'
    <2>1. /\ reserved' = reserved \ {i} /\ status' = status
          /\ pendingCount' = Less(pendingCount, Cardinality(reserved \intersect {i}))
          /\ task[i] \in {"completed", "failed", "quarantine"}
      BY <1>8 DEF Settles, ReleaseReservation, Release, itemVars
    <2>2. status[i] \notin Waiting \union {"in_flight"}
      BY <2>1, <1>a DEF QuotaInv, ItemInv, TaskAgreement, TaskOf, Waiting
    <2> QED BY <2>1, <2>2, ReleaseStep DEF Settled
  <1>9. ASSUME NEW i \in Items, NEW verdict \in Verdicts, Observed(i, verdict)
        PROVE ReservationAgreement'
    BY <1>9, QuotaUnchanged DEF Observed, ObserveTask, quotaVars
  <1>10. ASSUME OutboxTime PROVE ReservationAgreement'
    <2>1. UNCHANGED <<status, reserved, pendingCount>>
      BY <1>10 DEF OutboxTime, LeaseLapses, DeadlinePasses, BackoffEnds, ProbeLapses,
         ThrottleEnds, itemVars, quotaVars
    <2> QED BY <2>1, QuotaUnchanged
  <1>11. CASE UNCHANGED outboxVars
    BY <1>11, <1>0, QuotaUnchanged DEF outboxVars, QuotaInv
  <1>12. CASE OutboxNext
    <2>1. ReservationAgreement'
      BY <1>12, <1>1, <1>2, <1>3, <1>4, <1>5, <1>6, <1>7, <1>8, <1>9, <1>10, Zenon
         DEF OutboxNext, Settles, Observed, Verdicts
    <2> QED BY <1>0, <2>1 DEF QuotaInv
  <1> QED BY <1>11, <1>12

(* The counter of the profile is the number of reservations, never above the    *)
(* soft limit, and reservations and verdicts agree.                             *)
THEOREM ReservationsAgree == OutboxSpec => []ReservationAgreement
  <1>1. QuotaInv => ReservationAgreement
    BY DEF QuotaInv
  <1> QED BY <1>1, QuotaInit, QuotaStep, PTL DEF OutboxSpec

-----------------------------------------------------------------------------
(* What is settled stays settled *)

(* A step that gives a verdict to one leased item leaves settled items alone.   *)
LEMMA SettledStep ==
  ASSUME ItemInv, NEW i \in Items, NEW verdict, status[i] = "in_flight",
         status' = [status EXCEPT ![i] = verdict]
  PROVE  \A k \in Items : status[k] \in Terminal => status'[k] = status[k]
  BY DEF ItemInv, OutboxTypeOK, Terminal

LEMMA VerdictStep ==
  ASSUME ItemInv, [OutboxNext]_outboxVars
  PROVE  \A k \in Items : status[k] \in Terminal => status'[k] = status[k]
  <1> DEFINE Kept == \A k \in Items : status[k] \in Terminal => status'[k] = status[k]
  <1>1. ASSUME NEW i \in Items, NEW open \in BOOLEAN, Enqueue(i, open) PROVE Kept
    BY <1>1 DEF Enqueue, Terminal, ItemInv, OutboxTypeOK
  <1>2. ASSUME NEW i \in Items, NEW open \in BOOLEAN, Dispatch(i, open) PROVE Kept
    <2>1. /\ SweptStatus[i] \in Waiting
          /\ status' = [SweptStatus EXCEPT ![i] = "in_flight"]
      BY <1>2 DEF Dispatch, Eligible
    <2>2. \A k \in Items : status[k] \in Terminal => SweptStatus[k] = status[k]
      BY SweepOfItem
    <2>3. \A k \in Items : status'[k] = IF k = i THEN "in_flight" ELSE SweptStatus[k]
      BY <2>1, SweepTypes DEF ItemInv
    <2> QED BY <2>1, <2>2, <2>3 DEF Waiting, Terminal
  <1>3. ASSUME DispatchNothing PROVE Kept
    BY <1>3, SweepOfItem DEF DispatchNothing
  <1>4. ASSUME NEW i \in Items, NEW semantic \in {"accepted", "processing", "completed"},
               NEW verified \in BOOLEAN, Ack(i, semantic, verified)
        PROVE Kept
    BY <1>4, SettledStep DEF Ack
  <1>5. ASSUME NEW i \in Items, FailRateLimited(i) PROVE Kept
    BY <1>5, SettledStep DEF FailRateLimited, Failed
  <1>6. ASSUME NEW i \in Items, FailTransient(i) PROVE Kept
    BY <1>6, SettledStep DEF FailTransient, Failed
  <1>7. ASSUME NEW i \in Items, FailPermanent(i) PROVE Kept
    BY <1>7, SettledStep DEF FailPermanent, Failed
  <1>8. ASSUME NEW i \in Items, Settles(i) PROVE Kept
    BY <1>8 DEF Settles, ReleaseReservation, itemVars
  <1>9. ASSUME NEW i \in Items, NEW verdict \in Verdicts, Observed(i, verdict) PROVE Kept
    BY <1>9 DEF Observed, ObserveTask
  <1>10. ASSUME OutboxTime PROVE Kept
    BY <1>10 DEF OutboxTime, LeaseLapses, DeadlinePasses, BackoffEnds, ProbeLapses,
       ThrottleEnds, itemVars
  <1>11. CASE UNCHANGED outboxVars
    BY <1>11 DEF outboxVars
  <1>12. CASE OutboxNext
    BY <1>12, <1>1, <1>2, <1>3, <1>4, <1>5, <1>6, <1>7, <1>8, <1>9, <1>10, Zenon
       DEF OutboxNext, Settles, Observed, Verdicts
  <1> QED BY <1>11, <1>12

LEMMA VerifiedStep ==
  ASSUME OutboxTypeOK, [OutboxNext]_outboxVars
  PROVE  \A r \in Revisions : content[r] = "content_verified" => content'[r] = "content_verified"
  <1> DEFINE Kept ==
        \A r \in Revisions : content[r] = "content_verified" => content'[r] = "content_verified"
  <1>1. ASSUME NEW i \in Items, NEW open \in BOOLEAN, Enqueue(i, open) PROVE Kept
    BY <1>1 DEF Enqueue
  <1>2. ASSUME Sweep PROVE Kept
    BY <1>2 DEF Sweep, SweptContent, Marked
  <1>3. ASSUME NEW i \in Items, NEW semantic \in {"accepted", "processing", "completed"},
               NEW verified \in BOOLEAN, Ack(i, semantic, verified)
        PROVE Kept
    BY <1>3 DEF Ack, OutboxTypeOK
  <1>4. ASSUME NEW i \in Items, NEW verdict, Failed(i, verdict) PROVE Kept
    BY <1>4 DEF Failed, Marked, OutboxTypeOK
  <1>5. ASSUME NEW i \in Items, FailRateLimited(i) \/ FailTransient(i) \/ FailPermanent(i)
        PROVE Kept
    <2> HIDE DEF Kept
    <2> QED BY <1>4, <1>5 DEF FailRateLimited, FailTransient, FailPermanent
  <1>6. ASSUME NEW i \in Items, Settles(i) PROVE Kept
    BY <1>6 DEF Settles, ReleaseReservation, itemVars
  <1>7. ASSUME NEW i \in Items, NEW verdict \in Verdicts, Observed(i, verdict) PROVE Kept
    BY <1>7 DEF Observed, ObserveTask, OutboxTypeOK
  <1>8. ASSUME OutboxTime PROVE Kept
    BY <1>8 DEF OutboxTime, LeaseLapses, DeadlinePasses, BackoffEnds, ProbeLapses,
       ThrottleEnds, itemVars
  <1>9. CASE UNCHANGED outboxVars
    BY <1>9 DEF outboxVars
  <1>10. CASE OutboxNext
    <2>1. \A i \in Items, open \in BOOLEAN : Dispatch(i, open) => Sweep
      BY DEF Dispatch
    <2>2. DispatchNothing => Sweep
      BY DEF DispatchNothing
    <2> QED
      BY <1>10, <1>1, <1>2, <1>3, <1>5, <1>6, <1>7, <1>8, <2>1, <2>2, Zenon
         DEF OutboxNext, Settles, Observed, Verdicts
  <1> QED BY <1>9, <1>10

(* No reclaim, deadline or late answer revives a settled item.                  *)
THEOREM VerdictsFinal == OutboxSpec => ItemVerdictsFinal
  <1>1. ItemInv /\ [OutboxNext]_outboxVars =>
          [\A i \in Items : status[i] \in Terminal => status'[i] = status[i]]_outboxVars
    BY VerdictStep
  <1> QED BY <1>1, ItemInvariant, PTL DEF OutboxSpec, ItemVerdictsFinal

(* No failure of an item unverifies the body its revision already has.          *)
THEOREM VerifiedBodies == OutboxSpec => VerifiedStays
  BY OutboxTypeCorrect, VerifiedStep, PTL DEF OutboxSpec, VerifiedStays

=============================================================================
