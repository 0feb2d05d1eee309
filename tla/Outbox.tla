------------------------------- MODULE Outbox -------------------------------
(***************************************************************************)
(* The resource outbox and the provider circuit breaker of                 *)
(* pm_system_gateway.py.  An item is accepted into the outbox, leased to a  *)
(* sender (dispatch_once), and answered by ack or fail; a lease that runs   *)
(* out is reclaimed.  Answers of the provider that it is overloaded (429)   *)
(* throttle its bucket and open the circuit, and an expired throttle lets   *)
(* one probe through.  Items of the concept pipeline reserve capacity of a  *)
(* profile from acceptance to their end.                                    *)
(*                                                                         *)
(* Each operation is one transaction.  Time is abstracted as in             *)
(* Coordination: the environment lets leases lapse, deadlines pass and      *)
(* waits end.  Two updates of a bucket are taken as ordered; the one-second  *)
(* resolution of its updated_at column is ignored.  A migration freeze        *)
(* withholds acceptance and dispatch; it has no state here.  The failure      *)
(* category quarantine and reset_provider have no caller and are left out;   *)
(* record_429 is called for model calls, whose buckets are never an item's.  *)
(***************************************************************************)
EXTENDS Integers, FiniteSets

CONSTANTS
  Items,             \* rows outbox_items may ever hold
  Kind,              \* "resource" or "concept"
  Mode,              \* processing_mode of each item
  Revision,          \* resource and revision an item delivers
  Bucket,            \* provider_key of each item
  MaxAttempts,       \* SemanticGateway.max_attempts
  CircuitThreshold,  \* SemanticGateway.circuit_threshold
  SoftLimit,         \* pending_soft_limit of the concept profile
  MaxDispatches      \* bound: dispatches of one item

ASSUME OutboxAssumption ==
  /\ IsFiniteSet(Items)
  /\ Kind \in [Items -> {"resource", "concept"}]
  /\ Mode \in [Items -> {"vectors_only", "semantic_only", "semantic_and_vectors"}]
  /\ MaxAttempts \in Nat \ {0}
  /\ CircuitThreshold \in Nat \ {0}
  /\ SoftLimit \in Nat
  /\ MaxDispatches \in Nat

VARIABLES
  status,       \* outbox_items.status
  attempt,      \* outbox_items.attempt
  lease,        \* dispatch_token: the number of the dispatch, 0 without a lease
  dispatched,   \* dispatches so far
  task,         \* semantic_tasks.status
  content,      \* resource_projections.content_state, by revision
  reserved,     \* items whose payload says concept_profile_reserved
  pendingCount, \* concept_profile_admissions.pending_count
  circuit,      \* provider_buckets.circuit_state
  strikes,      \* consecutive_429, counted up to the threshold
  throttled,    \* buckets whose throttle_until is ahead
  probing,      \* buckets with a row in provider_probe_leases
  probes,       \* leased items whose dispatch was a probe
  newer,        \* leased items whose bucket was updated after their lease
  lapsed,       \* leased items whose lease has expired
  probeLapsed,  \* buckets whose probe lease has expired
  overdue,      \* items whose retry_deadline_at has passed
  backoff       \* items whose next_attempt_at is ahead

itemVars   == <<status, attempt, lease, dispatched, task, content>>
quotaVars  == <<reserved, pendingCount>>
bucketVars == <<circuit, strikes, throttled, probing, probes, newer>>
clockVars  == <<lapsed, probeLapsed, overdue, backoff>>
outboxVars == <<status, attempt, lease, dispatched, task, content, reserved,
                pendingCount, circuit, strikes, throttled, probing, probes,
                newer, lapsed, probeLapsed, overdue, backoff>>

Buckets   == {Bucket[i] : i \in Items}
Revisions == {Revision[i] : i \in Items}
Waiting   == {"pending", "retry_wait"}
Terminal  == {"completed", "failed", "dead_letter"}
Status    == {"absent", "in_flight"} \union Waiting \union Terminal
TaskStatus == {"absent", "queued", "retry_wait", "accepted", "processing",
               "completed", "failed", "dead_letter", "quarantine"}
ContentState == {"content_pending", "content_verified", "retry_wait", "failed",
                 "dead_letter"}

Reserving(i) == Kind[i] = "concept" /\ Mode[i] # "vectors_only"
Guarded(i)   == Mode[i] = "semantic_and_vectors"

OutboxTypeOK ==
  /\ status \in [Items -> Status]
  /\ attempt \in [Items -> Nat]
  /\ lease \in [Items -> Nat]
  /\ dispatched \in [Items -> Nat]
  /\ task \in [Items -> TaskStatus]
  /\ content \in [Revisions -> ContentState]
  /\ reserved \subseteq Items
  /\ pendingCount \in Nat
  /\ circuit \in [Buckets -> {"closed", "open", "half_open"}]
  /\ strikes \in [Buckets -> 0..CircuitThreshold]
  /\ throttled \subseteq Buckets /\ probing \subseteq Buckets
  /\ probes \subseteq Items /\ newer \subseteq Items
  /\ lapsed \subseteq Items /\ probeLapsed \subseteq Buckets
  /\ overdue \subseteq Items /\ backoff \subseteq Items

OutboxInit ==
  /\ status = [i \in Items |-> "absent"]
  /\ attempt = [i \in Items |-> 0]
  /\ lease = [i \in Items |-> 0]
  /\ dispatched = [i \in Items |-> 0]
  /\ task = [i \in Items |-> "absent"]
  /\ content = [r \in Revisions |-> "content_pending"]
  /\ reserved = {} /\ pendingCount = 0
  /\ circuit = [b \in Buckets |-> "closed"]
  /\ strikes = [b \in Buckets |-> 0]
  /\ throttled = {} /\ probing = {} /\ probes = {} /\ newer = {}
  /\ lapsed = {} /\ probeLapsed = {} /\ overdue = {} /\ backoff = {}

-----------------------------------------------------------------------------
(* Shared pieces *)

(* Mutants: a failure overwrites a verified body; a release is counted for an  *)
(* item without a reservation; the circuit opens one 429 late; the budget ends *)
(* one attempt late.                                                           *)
MarkedAlways(r, state) == state
LessAlways(n, k) == IF n > 0 THEN n - 1 ELSE 0
CircuitAtLate(count) == IF count > CircuitThreshold THEN "open" ELSE "closed"
ChargedLate(n) == IF n > MaxAttempts + 1 THEN "dead_letter" ELSE "retry_wait"

(* _mark_projection_failure: a verified body stays verified.                  *)
Marked(r, state) ==
  IF content[r] = "content_verified" THEN content[r] ELSE state

(* pending_count is decremented with a floor of zero.                         *)
Less(n, k) == IF k <= n THEN n - k ELSE 0

(* What a 429 that makes the count so large does to the circuit.               *)
CircuitAt(count) == IF count >= CircuitThreshold THEN "open" ELSE "closed"

(* The verdict on an item charged with its n-th attempt.                       *)
Charged(n) == IF n > MaxAttempts THEN "dead_letter" ELSE "retry_wait"

(* A new updated_at of the buckets bs: their leased items are now older.      *)
Touched(bs) == {i \in Items : lease[i] # 0 /\ Bucket[i] \in bs}

-----------------------------------------------------------------------------
(* Acceptance *)

(* enqueue: a replay finds the item by its key.  A concept item needs an open  *)
(* admission (open) and, with semantic work, room in its profile.              *)
Enqueue(i, open) ==
  /\ status[i] = "absent"
  /\ Kind[i] = "concept" => open
  /\ Reserving(i) => pendingCount < SoftLimit
  /\ status' = [status EXCEPT ![i] = "pending"]
  /\ IF Reserving(i)
     THEN reserved' = reserved \union {i} /\ pendingCount' = pendingCount + 1
     ELSE UNCHANGED quotaVars
  /\ UNCHANGED <<attempt, lease, dispatched, task, content, bucketVars, clockVars>>

-----------------------------------------------------------------------------
(* dispatch_once: reclaim, expire, then lease one item *)

(* Mutant of Reclaimed: an item whose sender died waits for ever.              *)
ReclaimedNever == {}

Reclaimed ==
  {i \in Items : IF lease[i] # 0 THEN i \in lapsed ELSE status[i] = "in_flight"}

(* Mutant of Overrun: a deadline ends an item whatever its status.              *)
OverrunAny == overdue

Overrun ==
  {i \in overdue :
    status[i] \in Waiting \/ (i \in Reclaimed /\ status[i] = "in_flight")}

SweptStatus ==
  [i \in Items |->
    IF i \in Overrun THEN "dead_letter"
    ELSE IF i \in Reclaimed /\ status[i] = "in_flight" THEN "retry_wait"
    ELSE status[i]]

(* Mutant of SweptTask: an item past its deadline keeps its task.                *)
SweptTaskAlive ==
  [i \in Items |->
    IF i \in Reclaimed /\ task[i] \in {"queued", "retry_wait"} THEN "queued" ELSE task[i]]

SweptTask ==
  [i \in Items |->
    IF task[i] \notin {"queued", "retry_wait"} THEN task[i]
    ELSE IF i \in Overrun THEN "dead_letter"
    ELSE IF i \in Reclaimed THEN "queued"
    ELSE task[i]]

(* Mutant of SweptLease: a reclaimed item keeps its lease.                     *)
SweptLeaseKept == [i \in Items |-> IF i \in Overrun THEN 0 ELSE lease[i]]

SweptLease == [i \in Items |-> IF i \in Reclaimed \union Overrun THEN 0 ELSE lease[i]]

SweptContent ==
  [r \in Revisions |->
    IF \E i \in Overrun : Revision[i] = r THEN Marked(r, "dead_letter") ELSE content[r]]

SweptProbing == (probing \ probeLapsed) \ {Bucket[i] : i \in Overrun}

(* What every dispatch transaction commits, whether or not it leases an item.  *)
Sweep ==
  /\ content' = SweptContent
  /\ reserved' = reserved \ Overrun
  /\ pendingCount' = Less(pendingCount, Cardinality(reserved \intersect Overrun))
  /\ lapsed' = lapsed \ (Reclaimed \union Overrun)
  /\ backoff' = backoff \ Overrun
  /\ UNCHANGED <<attempt, strikes, throttled, overdue>>

DispatchNothing ==
  /\ Sweep
  /\ status' = SweptStatus
  /\ task' = SweptTask
  /\ lease' = SweptLease
  /\ probing' = SweptProbing
  /\ probeLapsed' = probeLapsed \intersect SweptProbing
  /\ probes' = probes \ (Reclaimed \union Overrun)
  /\ newer' = newer \ (Reclaimed \union Overrun)
  /\ UNCHANGED <<dispatched, circuit>>

(* An item subject to the breaker waits for the throttle to end and, while the *)
(* circuit is not closed, for the probe lease of its bucket.                   *)
Eligible(i, open) ==
  /\ SweptStatus[i] \in Waiting
  /\ i \notin backoff
  /\ Kind[i] = "concept" => open
  /\ Guarded(i) =>
       /\ Bucket[i] \notin throttled
       /\ circuit[Bucket[i]] # "closed" => Bucket[i] \notin SweptProbing

Dispatch(i, open) ==
  LET b == Bucket[i]
      probe == Guarded(i) /\ circuit[b] # "closed"
      others == {k \in Items : SweptLease[k] # 0}
  IN /\ dispatched[i] < MaxDispatches
     /\ Eligible(i, open)
     /\ Sweep
     /\ status' = [SweptStatus EXCEPT ![i] = "in_flight"]
     /\ task' = [SweptTask EXCEPT ![i] = IF @ = "absent" THEN "queued" ELSE @]
     /\ lease' = [SweptLease EXCEPT ![i] = dispatched[i] + 1]
     /\ dispatched' = [dispatched EXCEPT ![i] = @ + 1]
     /\ circuit' = [circuit EXCEPT ![b] = IF probe THEN "half_open" ELSE @]
     /\ probing' = SweptProbing \union (IF probe THEN {b} ELSE {})
     /\ probeLapsed' = probeLapsed \intersect SweptProbing
     /\ probes' = (probes \intersect others) \union (IF probe THEN {i} ELSE {})
     /\ newer' = (newer \intersect others) \union
                 {k \in others : probe /\ circuit[b] = "open" /\ Bucket[k] = b}

-----------------------------------------------------------------------------
(* Answers.  A stale token changes nothing, so only the holder of the lease    *)
(* has steps here.                                                             *)

(* The lease ends with the answer, and the probe lease of the bucket with it.  *)
EndLease(i) ==
  /\ lease' = [lease EXCEPT ![i] = 0]
  /\ lapsed' = lapsed \ {i}
  /\ probes' = probes \ {i}

Release(is) ==
  /\ reserved' = reserved \ is
  /\ pendingCount' = Less(pendingCount, Cardinality(reserved \intersect is))

(* A success closes the circuit unless the bucket was updated after the lease. *)
Heals(i) == Guarded(i) /\ (strikes[Bucket[i]] = 0 \/ i \notin newer)

Ack(i, semantic, verified) ==
  LET b == Bucket[i]
  IN /\ lease[i] # 0 /\ status[i] = "in_flight"
     /\ status' = [status EXCEPT ![i] = "completed"]
     /\ task' = [task EXCEPT ![i] = semantic]
     /\ content' = [content EXCEPT ![Revision[i]] = IF verified THEN "content_verified" ELSE @]
     /\ Release(IF semantic = "completed" THEN {i} ELSE {})
     /\ EndLease(i)
     /\ probing' = IF Guarded(i) THEN probing \ {b} ELSE probing
     /\ probeLapsed' = probeLapsed \intersect probing'
     /\ IF Heals(i)
        THEN /\ circuit' = [circuit EXCEPT ![b] = "closed"]
             /\ strikes' = [strikes EXCEPT ![b] = 0]
             /\ throttled' = throttled \ {b}
             /\ newer' = (newer \union Touched({b})) \ {i}
        ELSE newer' = newer \ {i} /\ UNCHANGED <<circuit, strikes, throttled>>
     /\ backoff' = backoff \ {i}
     /\ UNCHANGED <<attempt, dispatched, overdue>>

(* What a failure does to the item, its task and the projection.               *)
Failed(i, verdict) ==
  /\ lease[i] # 0 /\ status[i] = "in_flight"
  /\ status' = [status EXCEPT ![i] = verdict]
  /\ task' = [task EXCEPT ![i] = verdict]
  /\ content' = [content EXCEPT ![Revision[i]] = Marked(Revision[i], verdict)]
  /\ Release(IF verdict \in Terminal THEN {i} ELSE {})
  /\ backoff' = IF verdict = "retry_wait" THEN backoff \union {i} ELSE backoff
  /\ EndLease(i)
  /\ probing' = probing \ {Bucket[i]}
  /\ probeLapsed' = probeLapsed \ {Bucket[i]}
  /\ UNCHANGED <<dispatched, overdue>>

(* 429: the attempt is not charged; the bucket is throttled and, at the        *)
(* threshold, its circuit opens.                                               *)
FailRateLimited(i) ==
  LET b == Bucket[i]
      count == IF strikes[b] < CircuitThreshold THEN strikes[b] + 1 ELSE strikes[b]
  IN /\ Failed(i, IF i \in overdue THEN "dead_letter" ELSE "retry_wait")
     /\ strikes' = [strikes EXCEPT ![b] = count]
     /\ circuit' = [circuit EXCEPT ![b] = CircuitAt(count)]
     /\ throttled' = throttled \union {b}
     /\ newer' = (newer \union Touched({b})) \ {i}
     /\ UNCHANGED attempt

(* A transient failure is charged, retried within the budget, and reopens a    *)
(* half-open circuit.                                                          *)
FailTransient(i) ==
  LET b == Bucket[i]
  IN /\ Failed(i, Charged(attempt[i] + 1))
     /\ attempt' = [attempt EXCEPT ![i] = @ + 1]
     /\ IF circuit[b] = "half_open"
        THEN /\ circuit' = [circuit EXCEPT ![b] = "open"]
             /\ throttled' = throttled \union {b}
             /\ newer' = (newer \union Touched({b})) \ {i}
        ELSE newer' = newer \ {i} /\ UNCHANGED <<circuit, throttled>>
     /\ UNCHANGED strikes

(* A permanent failure proves the provider answers: half-open closes.          *)
FailPermanent(i) ==
  LET b == Bucket[i]
  IN /\ Failed(i, "failed")
     /\ IF circuit[b] = "half_open"
        THEN /\ circuit' = [circuit EXCEPT ![b] = "closed"]
             /\ strikes' = [strikes EXCEPT ![b] = 0]
             /\ throttled' = throttled \ {b}
             /\ newer' = (newer \union Touched({b})) \ {i}
        ELSE newer' = newer \ {i} /\ UNCHANGED <<circuit, strikes, throttled>>
     /\ UNCHANGED attempt

(* release_profile_reservation, called once the task of the item has ended.    *)
ReleaseReservation(i) ==
  /\ Release({i})
  /\ UNCHANGED <<itemVars, bucketVars, clockVars>>

(* Mutant of TaskAfter: the verdict is written whatever the task is by now.    *)
TaskAfterAlways(i, verdict) == verdict

TaskAfter(i, verdict) ==
  IF task[i] \in {"accepted", "processing"} THEN verdict ELSE task[i]

(* The observer's verdict on the task of a delivered item; its projection is    *)
(* written even if another observer has ended the task, and only a resource    *)
(* becomes verified by it.                                                      *)
ObserveTask(i, verdict) ==
  /\ status[i] = "completed"
  /\ task' = [task EXCEPT ![i] = TaskAfter(i, verdict)]
  /\ content' =
       [content EXCEPT ![Revision[i]] =
         IF verdict = "completed" /\ Kind[i] = "resource" THEN "content_verified" ELSE @]
  /\ UNCHANGED <<status, attempt, lease, dispatched, quotaVars, bucketVars, clockVars>>

-----------------------------------------------------------------------------
(* The clock *)

LeaseLapses(i) ==
  /\ lease[i] # 0
  /\ lapsed' = lapsed \union {i}
  /\ UNCHANGED <<itemVars, quotaVars, bucketVars, probeLapsed, overdue, backoff>>

ProbeLapses(b) ==
  /\ b \in probing
  /\ probeLapsed' = probeLapsed \union {b}
  /\ UNCHANGED <<itemVars, quotaVars, bucketVars, lapsed, overdue, backoff>>

(* Nothing reads the deadline of a settled item.                               *)
DeadlinePasses(i) ==
  /\ status[i] \in Waiting \union {"in_flight"}
  /\ overdue' = overdue \union {i}
  /\ UNCHANGED <<itemVars, quotaVars, bucketVars, lapsed, probeLapsed, backoff>>

BackoffEnds(i) ==
  /\ i \in backoff
  /\ backoff' = backoff \ {i}
  /\ UNCHANGED <<itemVars, quotaVars, bucketVars, lapsed, probeLapsed, overdue>>

ThrottleEnds(b) ==
  /\ b \in throttled
  /\ throttled' = throttled \ {b}
  /\ UNCHANGED <<itemVars, quotaVars, circuit, strikes, probing, probes, newer, clockVars>>

OutboxTime ==
  \/ \E i \in Items : LeaseLapses(i) \/ DeadlinePasses(i) \/ BackoffEnds(i)
  \/ \E b \in Buckets : ProbeLapses(b) \/ ThrottleEnds(b)

OutboxNext ==
  \/ \E i \in Items, open \in BOOLEAN : Enqueue(i, open)
  \/ \E i \in Items, open \in BOOLEAN : Dispatch(i, open)
  \/ DispatchNothing
  \/ \E i \in Items, semantic \in {"accepted", "processing", "completed"},
        verified \in BOOLEAN : Ack(i, semantic, verified)
  \/ \E i \in Items : FailRateLimited(i) \/ FailTransient(i) \/ FailPermanent(i)
  \/ \E i \in Items : task[i] \in {"completed", "failed", "quarantine"} /\ ReleaseReservation(i)
  \/ \E i \in Items, verdict \in {"accepted", "processing", "completed", "failed", "quarantine"} :
       task[i] \in {"accepted", "processing"} /\ ObserveTask(i, verdict)
  \/ OutboxTime

OutboxSpec == OutboxInit /\ [][OutboxNext]_outboxVars

-----------------------------------------------------------------------------
(* Properties *)

(* An item is in flight exactly while it has a dispatch lease, so a claim is    *)
(* never invisible to dispatch_once and never held for an item that is not      *)
(* being sent.                                                                  *)
LeaseAgreement ==
  /\ \A i \in Items : status[i] = "in_flight" <=> lease[i] # 0
  /\ probes \union newer \union lapsed \subseteq {i \in Items : lease[i] # 0}

TaskOf ==
  [absent |-> {"absent"}, pending |-> {"absent"},
   in_flight |-> {"queued", "retry_wait"}, retry_wait |-> {"queued", "retry_wait"},
   failed |-> {"failed"}, dead_letter |-> {"absent", "dead_letter"},
   completed |-> {"accepted", "processing", "completed", "failed", "quarantine"}]

(* The semantic task, updated by statements with filters of their own, tells    *)
(* the same story as its outbox row: no task stays alive under a dead item.     *)
TaskAgreement == \A i \in Items : task[i] \in TaskOf[status[i]]

(* The counter of the profile is the number of reservations in the payloads,    *)
(* within the soft limit; an item on its way has its reservation and one that   *)
(* failed has none: nothing is released twice or forgotten.                     *)
ReservationAgreement ==
  /\ pendingCount = Cardinality(reserved) /\ pendingCount <= SoftLimit
  /\ \A i \in Items :
       /\ Reserving(i) /\ status[i] \in Waiting \union {"in_flight"} => i \in reserved
       /\ i \in reserved => status[i] \notin {"absent", "failed", "dead_letter"}

(* The circuit is closed exactly while the 429 count is below the threshold,    *)
(* and a probe lease exists only while it is half open.                         *)
BreakerAgreement ==
  \A b \in Buckets :
    /\ circuit[b] = "closed" <=> strikes[b] < CircuitThreshold
    /\ b \in probing => circuit[b] = "half_open"

(* max_attempts bounds the charged attempts; the one that exceeds it ends the   *)
(* item.                                                                        *)
AttemptBudget ==
  \A i \in Items :
    /\ attempt[i] <= MaxAttempts + 1
    /\ attempt[i] > MaxAttempts => status[i] = "dead_letter"

(* A late answer, a reclaim or a deadline never revives a settled item.         *)
ItemVerdictsFinal ==
  [][\A i \in Items : status[i] \in Terminal => status'[i] = status[i]]_outboxVars

(* A body verified by read-back stays verified whatever becomes of the items    *)
(* that deliver its revision.                                                   *)
VerifiedStays ==
  [][\A r \in Revisions :
       content[r] = "content_verified" => content'[r] = "content_verified"]_outboxVars

(* "Another task already owns the single recovery probe" (dispatch_once).       *)
SingleProbe ==
  \A i, k \in probes :
    i # k /\ Bucket[i] = Bucket[k] => circuit[Bucket[i]] # "half_open"
=============================================================================
