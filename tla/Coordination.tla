---------------------------- MODULE Coordination ----------------------------
(***************************************************************************)
(* The coordination database as the scheduler, the dispatcher and the      *)
(* control plane see it: jobs with their runs, execution slots with their  *)
(* leases, schedule occurrences and the evidence recovery reads.           *)
(*                                                                         *)
(* Every public operation of pm_system_scheduler.py and of                 *)
(* pm_system_store.py runs in one BEGIN IMMEDIATE transaction, so each is   *)
(* one atomic action here, with everything it writes.  A job and its run    *)
(* are inserted together and share an identity (the run_id), so both are    *)
(* indexed by Jobs; their status columns are kept apart because the code    *)
(* updates them with separate statements.                                  *)
(*                                                                         *)
(* Time is abstracted: late[j] says the deadline of j has passed, backoff[j]*)
(* that next_attempt_at is still ahead, lapsed holds the slots whose        *)
(* expires_at has passed.  The environment moves these flags.               *)
(***************************************************************************)
EXTENDS Integers, FiniteSets

CONSTANTS
  Jobs,           \* jobs (equivalently runs) the database may ever hold
  ScheduledJobs,  \* jobs with an occurrence; the rest are accepted by hand
  Slots,          \* rows of execution_slots
  Key,            \* concurrency_key of each scheduled job
  NoKey,          \* stands for a missing concurrency_key
  Rank,           \* priority and profile weight of each job, as one number
  MaxAttempts,    \* retry.max_attempts of each scheduled job
  MaxClaims,      \* bound: claims of a job accepted by hand
  NoLease         \* the lease_id of a free slot

ASSUME CoordinationAssumption ==
  /\ ScheduledJobs \subseteq Jobs
  /\ Rank \in [Jobs -> Nat]
  /\ MaxAttempts \in [ScheduledJobs -> Nat]
  /\ MaxClaims \in Nat
  /\ IsFiniteSet(Slots)
  /\ NoLease \notin (Jobs \X Nat)

VARIABLES
  jobStatus,   \* jobs.status; "absent" before the job is accepted
  runStatus,   \* runs.status
  attempt,     \* jobs.attempt
  claims,      \* times the job was claimed; with the job it names a lease
  occ,         \* schedule_occurrences.state of each scheduled job
  lease,       \* execution_slots.lease_id: NoLease or <<job, claim number>>
  lapsed,      \* slots whose expires_at has passed
  late,        \* jobs.deadline_at has passed
  backoff,     \* jobs.next_attempt_at is in the future
  evidence,    \* the latest run event is a successful scheduled/completed
  modelDone,   \* the model checkpoint is completed and has an artifact
  frozen,      \* migration_freeze blocks admission
  admission    \* Scheduler.admission is "on"

rowVars  == <<jobStatus, runStatus, attempt, claims, occ>>
slotVars == <<lease, lapsed>>
timeVars == <<late, backoff>>
logVars  == <<evidence, modelDone>>
gateVars == <<frozen, admission>>
vars == <<jobStatus, runStatus, attempt, claims, occ, lease, lapsed, late,
          backoff, evidence, modelDone, frozen, admission>>

Waiting == {"queued", "retry_wait"}
Settled == {"completed", "failed", "dead_letter", "interrupted", "cancelled"}
Status  == {"absent", "running"} \union Waiting \union Settled
OccState == {"none", "accepted", "running", "completed", "failed",
             "dead_letter", "deferred", "suppressed", "expired"}

ManualJobs == Jobs \ ScheduledJobs

Leased(s) == lease[s] # NoLease
RunOf(s)  == lease[s][1]

(* One occurrence changes; a job accepted by hand has none to change.       *)
WithOcc(f, j, state) == [k \in ScheduledJobs |-> IF k = j THEN state ELSE f[k]]

TypeOK ==
  /\ jobStatus \in [Jobs -> Status]
  /\ runStatus \in [Jobs -> Status]
  /\ attempt \in [Jobs -> Nat]
  /\ claims \in [Jobs -> Nat]
  /\ occ \in [ScheduledJobs -> OccState]
  /\ lease \in [Slots -> (Jobs \X Nat) \union {NoLease}]
  /\ lapsed \subseteq Slots
  /\ late \in [Jobs -> BOOLEAN]
  /\ backoff \in [Jobs -> BOOLEAN]
  /\ evidence \in [Jobs -> BOOLEAN]
  /\ modelDone \in [Jobs -> BOOLEAN]
  /\ frozen \in BOOLEAN
  /\ admission \in BOOLEAN

Init ==
  /\ jobStatus = [j \in Jobs |-> "absent"]
  /\ runStatus = [j \in Jobs |-> "absent"]
  /\ attempt = [j \in Jobs |-> 0]
  /\ claims = [j \in Jobs |-> 0]
  /\ occ = [j \in ScheduledJobs |-> "none"]
  /\ lease = [s \in Slots |-> NoLease]
  /\ lapsed = {}
  /\ late = [j \in Jobs |-> FALSE]
  /\ backoff = [j \in Jobs |-> FALSE]
  /\ evidence = [j \in Jobs |-> FALSE]
  /\ modelDone = [j \in Jobs |-> FALSE]
  /\ frozen = FALSE
  /\ admission = TRUE

-----------------------------------------------------------------------------
(* Accepting work *)

(* accept: a replay finds the job by its idempotency key and changes        *)
(* nothing; a freeze raises MigrationFrozen.                                *)
AcceptManual(j) ==
  /\ j \in ManualJobs
  /\ ~frozen
  /\ jobStatus[j] = "absent"
  /\ jobStatus' = [jobStatus EXCEPT ![j] = "queued"]
  /\ runStatus' = [runStatus EXCEPT ![j] = "queued"]
  /\ UNCHANGED <<attempt, claims, occ, slotVars, timeVars, logVars, gateVars>>

(* The dispatcher's decision on one planned occurrence.  A past deadline    *)
(* expires it, a closed business window defers it, otherwise it is accepted *)
(* with its job and run in one transaction.  The tick compares the deadline *)
(* with the time it started at, so the deadline may have passed by now.  An *)
(* occurrence that already has a job is only deduplicated.                  *)
AcceptScheduled(j) ==
  /\ ~frozen
  /\ jobStatus[j] = "absent"
  /\ occ[j] \in {"none", "deferred"}
  /\ jobStatus' = [jobStatus EXCEPT ![j] = "queued"]
  /\ runStatus' = [runStatus EXCEPT ![j] = "queued"]
  /\ occ' = [occ EXCEPT ![j] = "accepted"]
  /\ UNCHANGED <<attempt, claims, slotVars, timeVars, logVars, gateVars>>

(* record_schedule_occurrence: a decision that creates no job.  "suppressed"*)
(* is for an older window coalesced into a newer one, which the planner     *)
(* never proposes again.                                                    *)
RecordDecision(j, state) ==
  /\ jobStatus[j] = "absent"
  /\ state = "expired" => late[j]
  /\ state = "deferred" => occ[j] \in {"none", "deferred"}
  /\ state = "suppressed" => occ[j] # "expired"
  /\ occ' = [occ EXCEPT ![j] = state]
  /\ UNCHANGED <<jobStatus, runStatus, attempt, claims, slotVars, timeVars,
                 logVars, gateVars>>

-----------------------------------------------------------------------------
(* claim_next: sweep expired leases and overdue jobs, then claim one job *)

Reaped == {s \in Slots : Leased(s) /\ s \in lapsed}
ReapedRuns == {RunOf(s) : s \in Reaped}
(* Mutant of Overdue: the deadline pass forgets the status filter.            *)
OverdueAnyStatus == {j \in Jobs : jobStatus[j] # "absent" /\ late[j]}
Overdue == {j \in Jobs : jobStatus[j] \in Waiting /\ late[j]}

SweptJob ==
  [j \in Jobs |->
    IF j \in Overdue THEN "failed"
    ELSE IF j \in ReapedRuns /\ jobStatus[j] = "running" THEN "interrupted"
    ELSE jobStatus[j]]

(* Mutant of SweptRun: the deadline pass fails the job but not its run.       *)
SweptRunByLease ==
  [j \in Jobs |->
    IF j \in ReapedRuns /\ runStatus[j] = "running" THEN "interrupted" ELSE runStatus[j]]

SweptRun ==
  [j \in Jobs |->
    IF j \in Overdue /\ runStatus[j] \in Waiting THEN "failed"
    ELSE IF j \in ReapedRuns /\ runStatus[j] = "running" THEN "interrupted"
    ELSE runStatus[j]]

(* Mutant of SweptOcc: the deadline pass forgets the occurrence.              *)
SweptOccByLease == [j \in ScheduledJobs |-> IF j \in ReapedRuns THEN "failed" ELSE occ[j]]

SweptOcc ==
  [j \in ScheduledJobs |->
    IF j \in ReapedRuns \/ j \in Overdue THEN "failed" ELSE occ[j]]

SweptLease == [s \in Slots |-> IF s \in Reaped THEN NoLease ELSE lease[s]]

(* Mutant of BusyKeys: a running job past its deadline no longer counts.      *)
BusyKeysInTime ==
  {Key[j] : j \in {i \in ScheduledJobs : SweptJob[i] = "running" /\ ~late[i]}} \ {NoKey}

BusyKeys ==
  {Key[j] : j \in {i \in ScheduledJobs : SweptJob[i] = "running"}} \ {NoKey}

(* Mutant of Eligible: interrupted jobs are picked up again.                  *)
EligibleInterrupted(j, open) ==
  /\ SweptJob[j] \in Waiting \union {"interrupted"}
  /\ ~backoff[j]
  /\ j \in ScheduledJobs => (jobStatus[j] = "retry_wait" => open) /\ Key[j] \notin BusyKeys
  /\ j \in ManualJobs => claims[j] < MaxClaims

(* A queued or due job; a retry of a scheduled job also needs the business   *)
(* window (open), and no running scheduled job may share its key.            *)
Eligible(j, open) ==
  /\ SweptJob[j] \in Waiting
  /\ ~backoff[j]
  /\ j \in ScheduledJobs =>
       /\ jobStatus[j] = "retry_wait" => open
       /\ Key[j] \notin BusyKeys
  /\ j \in ManualJobs => claims[j] < MaxClaims

FreeSlots == {s \in Slots : SweptLease[s] = NoLease}

(* A slot is leased to the best-ranked eligible job.                         *)
ClaimNext(j, s, open) ==
  /\ admission /\ ~frozen
  /\ s \in FreeSlots
  /\ Eligible(j, open)
  /\ \A k \in Jobs : Eligible(k, open) => Rank[k] <= Rank[j]
  /\ jobStatus' = [SweptJob EXCEPT ![j] = "running"]
  /\ runStatus' = [SweptRun EXCEPT ![j] = "running"]
  /\ claims' = [claims EXCEPT ![j] = @ + 1]
  /\ occ' = WithOcc(SweptOcc, j, "running")
  /\ lease' = [SweptLease EXCEPT ![s] = <<j, claims[j] + 1>>]
  /\ lapsed' = lapsed \ Reaped
  /\ evidence' = [k \in Jobs |-> evidence[k] /\ k # j /\ k \notin Overdue]
  /\ UNCHANGED <<attempt, timeVars, modelDone, gateVars>>

(* Without a free slot or an eligible job the transaction still commits the  *)
(* sweep.                                                                    *)
ClaimNothing(open) ==
  /\ admission /\ ~frozen
  /\ FreeSlots = {} \/ \A j \in Jobs : ~Eligible(j, open)
  /\ jobStatus' = SweptJob
  /\ runStatus' = SweptRun
  /\ occ' = SweptOcc
  /\ lease' = SweptLease
  /\ lapsed' = lapsed \ Reaped
  /\ evidence' = [k \in Jobs |-> evidence[k] /\ k \notin Overdue]
  /\ UNCHANGED <<attempt, claims, timeVars, modelDone, gateVars>>

-----------------------------------------------------------------------------
(* The life of a lease *)

Heartbeat(s) ==
  /\ Leased(s)
  /\ lapsed' = lapsed \ {s}
  /\ UNCHANGED <<rowVars, lease, timeVars, logVars, gateVars>>

(* Mutant of FreeSlot: the slot row is left as it was.                        *)
FreeSlotLeaks(ss) == lease

FreeSlot(ss) == [s \in Slots |-> IF s \in ss THEN NoLease ELSE lease[s]]

(* Mutant of EffectiveStatus: one retry too many.                             *)
EffectiveStatusOffByOne(j, status, noRetry, fits) ==
  IF status = "failed" /\ j \in ScheduledJobs /\ ~noRetry
  THEN IF attempt[j] <= MaxAttempts[j] /\ fits THEN "retry_wait" ELSE "dead_letter"
  ELSE status

(* What release makes of the caller's status: a failed scheduled job retries *)
(* while its budget lasts and the backoff still ends before the deadline     *)
(* (fits), and is dead-lettered otherwise; a possible external effect        *)
(* (noRetry) is never retried.                                               *)
EffectiveStatus(j, status, noRetry, fits) ==
  IF status = "failed" /\ j \in ScheduledJobs /\ ~noRetry
  THEN IF attempt[j] < MaxAttempts[j] /\ fits THEN "retry_wait" ELSE "dead_letter"
  ELSE status

(* Mutant of OccAfter: the job's status is written as it is.                  *)
OccAfterUnmapped(status) == status

OccAfter(status) ==
  CASE status = "retry_wait" -> "accepted"
    [] status \in {"completed", "dead_letter"} -> status
    [] OTHER -> "failed"

(* The statuses a worker releases with.  A handler completes or fails; only  *)
(* the analysis path asks for retry_wait, with or without consuming an       *)
(* attempt.  Release with "cancelled" follows a cancellation, which already  *)
(* freed the slot, so it always finds a stale lease; a stale lease changes   *)
(* nothing.                                                                  *)
ReleaseStatus(j) ==
  {"completed", "failed"} \union IF j \in ManualJobs THEN {"retry_wait"} ELSE {}

Release(s, status, noRetry, fits, increment) ==
  LET j == RunOf(s)
      effective == EffectiveStatus(j, status, noRetry, fits)
      consumes == effective = "retry_wait" /\ (j \in ScheduledJobs \/ increment)
  IN /\ Leased(s)
     /\ status \in ReleaseStatus(j)
     /\ late[j] => ~fits
     /\ jobStatus' = [jobStatus EXCEPT ![j] = effective]
     /\ runStatus' = [runStatus EXCEPT ![j] = effective]
     /\ attempt' = [attempt EXCEPT ![j] = IF consumes THEN @ + 1 ELSE @]
     /\ occ' = WithOcc(occ, j, OccAfter(effective))
     /\ lease' = FreeSlot({s})
     /\ lapsed' = lapsed \ {s}
     /\ backoff' = [backoff EXCEPT ![j] = effective = "retry_wait"]
     /\ evidence' = [evidence EXCEPT ![j] = FALSE]
     /\ UNCHANGED <<claims, late, modelDone, gateVars>>

(* cancel: refused for four verdicts; a dead-lettered or interrupted run can *)
(* still be cancelled.                                                       *)
Cancel(j) ==
  LET held == {s \in Slots : Leased(s) /\ RunOf(s) = j}
  IN /\ runStatus[j] \notin {"absent", "completed", "failed", "cancelled"}
     /\ jobStatus' = [jobStatus EXCEPT ![j] = "cancelled"]
     /\ runStatus' = [runStatus EXCEPT ![j] = "cancelled"]
     /\ occ' = WithOcc(occ, j, "failed")
     /\ lease' = FreeSlot(held)
     /\ lapsed' = lapsed \ held
     /\ evidence' = [evidence EXCEPT ![j] = FALSE]
     /\ UNCHANGED <<attempt, claims, timeVars, modelDone, gateVars>>

-----------------------------------------------------------------------------
(* Recovery *)

(* Mutant of HasEvidence: recovery trusts any scheduled run.                  *)
HasEvidenceAny(j) == j \in ScheduledJobs

HasEvidence(j) == j \in ScheduledJobs /\ evidence[j]

(* Mutant of Dropped: a restart keeps the leases that have not expired.       *)
DroppedLapsed == {s \in Slots : Leased(s) /\ s \in lapsed}

(* startup_reconcile as the worker calls it, with no active lease: first     *)
(* every lease is resolved, from evidence if there is any; then interrupted   *)
(* scheduled runs whose evidence is complete are repaired.                    *)
Dropped == {s \in Slots : Leased(s)}
DroppedRuns == {RunOf(s) : s \in Dropped}
Resolved(j) == IF HasEvidence(j) \/ modelDone[j] THEN "completed" ELSE "interrupted"
Repaired(j) == j \in ScheduledJobs /\ runStatus[j] = "interrupted" /\ HasEvidence(j)

StartupReconcile ==
  /\ jobStatus' =
       [j \in Jobs |->
         IF j \in DroppedRuns /\ jobStatus[j] = "running" THEN Resolved(j)
         ELSE IF Repaired(j) /\ jobStatus[j] \in {"interrupted", "failed", "dead_letter"}
              THEN "completed"
         ELSE jobStatus[j]]
  /\ runStatus' =
       [j \in Jobs |->
         IF j \in DroppedRuns /\ runStatus[j] = "running" THEN Resolved(j)
         ELSE IF Repaired(j) THEN "completed"
         ELSE runStatus[j]]
  /\ occ' =
       [j \in ScheduledJobs |->
         IF j \in DroppedRuns
         THEN IF Resolved(j) = "completed" THEN "completed" ELSE "failed"
         ELSE IF Repaired(j) THEN "completed"
         ELSE occ[j]]
  /\ lease' = FreeSlot(Dropped)
  /\ lapsed' = lapsed \ Dropped
  /\ evidence' =
       [j \in Jobs |-> evidence[j] /\ j \notin DroppedRuns /\ ~Repaired(j)]
  /\ UNCHANGED <<attempt, claims, timeVars, modelDone, gateVars>>

(* reconcile_schedule_occurrences: what the linked rows say the occurrence   *)
(* should be, a failure winning over a mismatched success.                    *)
Projected(j) ==
  LET statuses == {jobStatus[j], runStatus[j]}
  IN CASE "dead_letter" \in statuses -> "dead_letter"
       [] statuses \cap {"failed", "cancelled", "interrupted"} # {} -> "failed"
       [] "completed" \in statuses -> "completed"
       [] "running" \in statuses -> "running"
       [] OTHER -> "accepted"

Reconciled(j) ==
  IF \/ jobStatus[j] = "absent"
     \/ /\ occ[j] \in {"completed", "failed", "dead_letter"}
        /\ Projected(j) \in {"accepted", "running"}
  THEN occ[j]
  ELSE Projected(j)

ReconcileOccurrences ==
  /\ occ' = [j \in ScheduledJobs |-> Reconciled(j)]
  /\ UNCHANGED <<jobStatus, runStatus, attempt, claims, slotVars, timeVars,
                 logVars, gateVars>>

-----------------------------------------------------------------------------
(* Workers, operators and the clock *)

(* append_run_event by a worker that was handed the run: its final success    *)
(* event (done) is evidence, any later event hides it.  Recovery reads the    *)
(* evidence of running and interrupted runs only; events of others are left   *)
(* out.                                                                       *)
AppendRunEvent(j, done) ==
  /\ runStatus[j] \in {"running", "interrupted"}
  /\ done => j \in ScheduledJobs
  /\ evidence' = [evidence EXCEPT ![j] = done]
  /\ UNCHANGED <<rowVars, slotVars, timeVars, modelDone, gateVars>>

(* begin_model_call resets the checkpoint and finish_model_call completes it. *)
(* Recovery reads the checkpoint of running runs only, so the calls a thread  *)
(* without a lease makes for a settled run are left out.                      *)
ModelCheckpoint(j, done) ==
  /\ j \in ManualJobs
  /\ runStatus[j] = "running"
  /\ modelDone' = [modelDone EXCEPT ![j] = done]
  /\ UNCHANGED <<rowVars, slotVars, timeVars, evidence, gateVars>>

LeaseLapses(s) ==
  /\ Leased(s)
  /\ lapsed' = lapsed \union {s}
  /\ UNCHANGED <<rowVars, lease, timeVars, logVars, gateVars>>

(* Nothing reads the deadline of a settled job again.                         *)
DeadlinePasses(j) ==
  /\ jobStatus[j] \notin Settled
  /\ late' = [late EXCEPT ![j] = TRUE]
  /\ UNCHANGED <<rowVars, slotVars, backoff, logVars, gateVars>>

BackoffEnds(j) ==
  /\ backoff[j]
  /\ backoff' = [backoff EXCEPT ![j] = FALSE]
  /\ UNCHANGED <<rowVars, slotVars, late, logVars, gateVars>>

SetFreeze(b) ==
  /\ frozen' = b
  /\ UNCHANGED <<rowVars, slotVars, timeVars, logVars, admission>>

SetAdmission(b) ==
  /\ admission' = b
  /\ UNCHANGED <<rowVars, slotVars, timeVars, logVars, frozen>>

Next ==
  \/ \E j \in Jobs : AcceptManual(j)
  \/ \E j \in ScheduledJobs : AcceptScheduled(j)
  \/ \E j \in ScheduledJobs, d \in {"deferred", "suppressed", "expired"} :
       RecordDecision(j, d)
  \/ \E j \in Jobs, s \in Slots, open \in BOOLEAN : ClaimNext(j, s, open)
  \/ \E open \in BOOLEAN : ClaimNothing(open)
  \/ \E s \in Slots : Heartbeat(s)
  \/ \E s \in Slots, status \in {"completed", "failed", "retry_wait"},
        noRetry, fits, increment \in BOOLEAN :
       Release(s, status, noRetry, fits, increment)
  \/ \E j \in Jobs : Cancel(j)
  \/ StartupReconcile
  \/ ReconcileOccurrences
  \/ \E j \in Jobs, done \in BOOLEAN : AppendRunEvent(j, done)
  \/ \E j \in Jobs, done \in BOOLEAN : ModelCheckpoint(j, done)
  \/ \E s \in Slots : LeaseLapses(s)
  \/ \E j \in Jobs : DeadlinePasses(j)
  \/ \E j \in Jobs : BackoffEnds(j)
  \/ \E b \in BOOLEAN : SetFreeze(b)
  \/ \E b \in BOOLEAN : SetAdmission(b)

Spec == Init /\ [][Next]_vars

-----------------------------------------------------------------------------
(* Properties *)

(* A run is running exactly while one slot holds its newest lease, whatever  *)
(* mix of claims, sweeps, releases, cancellations and restarts came before:  *)
(* no slot leaks, no run executes without a slot, no older lease survives.   *)
SlotRunAgreement ==
  /\ \A s \in Slots : Leased(s) =>
       runStatus[RunOf(s)] = "running" /\ lease[s][2] = claims[RunOf(s)]
  /\ \A s, t \in Slots : Leased(s) /\ Leased(t) /\ RunOf(s) = RunOf(t) => s = t
  /\ \A j \in Jobs : runStatus[j] = "running" =>
       \E s \in Slots : Leased(s) /\ RunOf(s) = j

(* The two status columns, written by separate statements with guards of     *)
(* their own, never disagree.                                                *)
JobRunAgreement == \A j \in Jobs : jobStatus[j] = runStatus[j]

(* The occurrence always says what its job says, so the reconciliation pass   *)
(* of a tick has nothing to repair in a database written by this code.        *)
OccurrenceAgreement ==
  \A j \in ScheduledJobs : jobStatus[j] # "absent" => occ[j] = Projected(j)

(* Two running scheduled jobs never share a concurrency key (claim_next).     *)
KeyExclusion ==
  \A i, j \in ScheduledJobs :
    /\ i # j
    /\ jobStatus[i] = "running" /\ jobStatus[j] = "running"
    /\ Key[i] = Key[j]
    => Key[i] = NoKey

(* A scheduled job is claimed at most once per consumed attempt: every path   *)
(* back to the queue costs a retry.                                           *)
RetryBudget ==
  \A j \in ScheduledJobs :
    /\ attempt[j] <= MaxAttempts[j]
    /\ claims[j] <= attempt[j] + 1
    /\ jobStatus[j] \in Waiting \union {"absent"} => claims[j] <= attempt[j]

(* A verdict is final but for two transitions: recovery turns interrupted     *)
(* into completed, and cancel relabels interrupted and dead_letter.           *)
VerdictStep ==
  \A j \in Jobs :
    jobStatus[j] \in Settled /\ jobStatus'[j] # jobStatus[j] =>
      \/ jobStatus[j] = "interrupted" /\ jobStatus'[j] \in {"completed", "cancelled"}
      \/ jobStatus[j] = "dead_letter" /\ jobStatus'[j] = "cancelled"
VerdictsAreFinal == [][VerdictStep]_vars

(* The specification of the whole: see JobLifecycle.                          *)
PublicState ==
  [j \in Jobs |->
    IF jobStatus[j] = "absent" THEN "absent"
    ELSE IF jobStatus[j] \in Waiting THEN "waiting"
    ELSE IF jobStatus[j] = "running" THEN "active"
    ELSE "settled"]

Lifecycle == INSTANCE JobLifecycle WITH
  state <- PublicState, starts <- claims, Capacity <- Cardinality(Slots)

(* Coordination implements the job lifecycle it promises.                     *)
ImplementsLifecycle == Lifecycle!Spec
=============================================================================
