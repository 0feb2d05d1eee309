------------------------- MODULE CoordinationProofs -------------------------
(***************************************************************************)
(* Proofs, for any set of jobs and slots and any keys and budgets, of what *)
(* the runs of MCCoordination check on small instances.                    *)
(***************************************************************************)
EXTENDS Coordination, FiniteSetTheorems, TLAPS

(* The lease of a leased slot names a job and a claim number.              *)
LEMMA LeaseParts ==
  ASSUME TypeOK, NEW s \in Slots, Leased(s)
  PROVE  /\ RunOf(s) \in Jobs
         /\ lease[s][2] \in Nat
         /\ lease[s] = <<RunOf(s), lease[s][2]>>
  BY DEF TypeOK, Leased, RunOf

(* What a sweep leaves is well typed.                                      *)
LEMMA SweepTypes ==
  ASSUME TypeOK
  PROVE  /\ SweptJob \in [Jobs -> Status]
         /\ SweptRun \in [Jobs -> Status]
         /\ SweptOcc \in [ScheduledJobs -> OccState]
         /\ SweptLease \in [Slots -> (Jobs \X Nat) \union {NoLease}]
  <1>1. SweptJob \in [Jobs -> Status] /\ SweptRun \in [Jobs -> Status]
    BY DEF TypeOK, SweptJob, SweptRun, Status, Settled
  <1>2. SweptOcc \in [ScheduledJobs -> OccState]
    BY DEF TypeOK, SweptOcc, OccState
  <1>3. SweptLease \in [Slots -> (Jobs \X Nat) \union {NoLease}]
    BY DEF TypeOK, SweptLease
  <1> QED BY <1>1, <1>2, <1>3

LEMMA FreeSlotType ==
  ASSUME TypeOK, NEW ss
  PROVE  FreeSlot(ss) \in [Slots -> (Jobs \X Nat) \union {NoLease}]
  BY DEF TypeOK, FreeSlot

LEMMA WithOccType ==
  ASSUME NEW f \in [ScheduledJobs -> OccState], NEW j, NEW o \in OccState
  PROVE  WithOcc(f, j, o) \in [ScheduledJobs -> OccState]
  BY DEF WithOcc

LEMMA InitType == Init => TypeOK
  <1> SUFFICES ASSUME Init PROVE TypeOK
    OBVIOUS
  <1>1. jobStatus \in [Jobs -> Status] /\ runStatus \in [Jobs -> Status]
        /\ occ \in [ScheduledJobs -> OccState]
    BY DEF Init, Status, OccState
  <1>2. attempt \in [Jobs -> Nat] /\ claims \in [Jobs -> Nat]
    BY DEF Init
  <1>3. lease \in [Slots -> (Jobs \X Nat) \union {NoLease}] /\ lapsed \subseteq Slots
    BY DEF Init
  <1>4. /\ late \in [Jobs -> BOOLEAN] /\ backoff \in [Jobs -> BOOLEAN]
        /\ evidence \in [Jobs -> BOOLEAN] /\ modelDone \in [Jobs -> BOOLEAN]
    BY Zenon DEF Init
  <1>5. frozen \in BOOLEAN /\ admission \in BOOLEAN
    BY Zenon DEF Init
  <1> QED
    BY <1>1, <1>2, <1>3, <1>4, <1>5 DEF TypeOK

(* Every step keeps every variable in its type.                            *)
LEMMA TypeStep == TypeOK /\ [Next]_vars => TypeOK'
  <1> SUFFICES ASSUME TypeOK, [Next]_vars PROVE TypeOK'
    OBVIOUS
  <1> USE CoordinationAssumption
  <1>1. ASSUME NEW j \in Jobs, AcceptManual(j) PROVE TypeOK'
    BY <1>1 DEF AcceptManual, TypeOK, slotVars, timeVars, logVars, gateVars, Status, Waiting
  <1>2. ASSUME NEW j \in ScheduledJobs, AcceptScheduled(j) PROVE TypeOK'
    BY <1>2 DEF AcceptScheduled, TypeOK, slotVars, timeVars, logVars, gateVars,
                Status, Waiting, OccState
  <1>3. ASSUME NEW j \in ScheduledJobs, NEW d \in {"deferred", "suppressed", "expired"},
               RecordDecision(j, d)
        PROVE TypeOK'
    BY <1>3 DEF RecordDecision, TypeOK, slotVars, timeVars, logVars, gateVars, OccState
  <1>4. ASSUME NEW j \in Jobs, NEW s \in Slots, NEW open \in BOOLEAN, ClaimNext(j, s, open)
        PROVE TypeOK'
    <2>1. jobStatus' \in [Jobs -> Status] /\ runStatus' \in [Jobs -> Status]
      BY <1>4, SweepTypes DEF ClaimNext, Status
    <2>2. occ' \in [ScheduledJobs -> OccState]
      BY <1>4, SweepTypes, WithOccType DEF ClaimNext, OccState
    <2>3. claims' \in [Jobs -> Nat] /\ <<j, claims[j] + 1>> \in Jobs \X Nat
      BY <1>4 DEF ClaimNext, TypeOK
    <2>4. lease' \in [Slots -> (Jobs \X Nat) \union {NoLease}]
      BY <1>4, <2>3, SweepTypes DEF ClaimNext
    <2>5. evidence' \in [Jobs -> BOOLEAN]
      BY <1>4 DEF ClaimNext, TypeOK
    <2> QED
      BY <1>4, <2>1, <2>2, <2>3, <2>4, <2>5 DEF ClaimNext, TypeOK, timeVars, gateVars
  <1>5. ASSUME NEW open \in BOOLEAN, ClaimNothing(open) PROVE TypeOK'
    BY <1>5, SweepTypes DEF ClaimNothing, TypeOK, timeVars, gateVars
  <1>6. ASSUME NEW s \in Slots, Heartbeat(s) PROVE TypeOK'
    BY <1>6 DEF Heartbeat, TypeOK, rowVars, timeVars, logVars, gateVars
  <1>7. ASSUME NEW s \in Slots, NEW status \in {"completed", "failed", "retry_wait"},
               NEW noRetry \in BOOLEAN, NEW fits \in BOOLEAN, NEW increment \in BOOLEAN,
               Release(s, status, noRetry, fits, increment)
        PROVE TypeOK'
    <2> DEFINE j == RunOf(s)
               effective == EffectiveStatus(j, status, noRetry, fits)
    <2>1. j \in Jobs
      BY <1>7, LeaseParts DEF Release
    <2>2. effective \in Status
      BY DEF EffectiveStatus, Status, Waiting, Settled
    <2>3. OccAfter(effective) \in OccState
      BY DEF OccAfter, OccState
    <2>4. occ' \in [ScheduledJobs -> OccState]
      BY <1>7, <2>3, WithOccType DEF Release, TypeOK
    <2>5. jobStatus' \in [Jobs -> Status] /\ runStatus' \in [Jobs -> Status]
      BY <1>7, <2>2 DEF Release, TypeOK
    <2>6. attempt' \in [Jobs -> Nat]
      BY <1>7, <2>1 DEF Release, TypeOK, EffectiveStatus
    <2>9. evidence' \in [Jobs -> BOOLEAN]
      BY <1>7 DEF Release, TypeOK
    <2>8. backoff' \in [Jobs -> BOOLEAN]
      <3>1. backoff' = [backoff EXCEPT ![j] = effective = "retry_wait"]
        BY <1>7 DEF Release
      <3>2. (effective = "retry_wait") \in BOOLEAN
        BY Zenon
      <3> QED
        BY <3>1, <3>2, Zenon DEF TypeOK
    <2>7. lease' \in [Slots -> (Jobs \X Nat) \union {NoLease}] /\ lapsed' \subseteq Slots
      BY <1>7, FreeSlotType DEF Release, TypeOK
    <2> QED
      BY <1>7, <2>4, <2>5, <2>6, <2>7, <2>8, <2>9 DEF Release, TypeOK, gateVars
  <1>8. ASSUME NEW j \in Jobs, Cancel(j) PROVE TypeOK'
    <2>1. lease' \in [Slots -> (Jobs \X Nat) \union {NoLease}] /\ lapsed' \subseteq Slots
      BY <1>8, FreeSlotType DEF Cancel, TypeOK
    <2>2. occ' \in [ScheduledJobs -> OccState]
      BY <1>8, WithOccType DEF Cancel, TypeOK, OccState
    <2> QED
      BY <1>8, <2>1, <2>2 DEF Cancel, TypeOK, timeVars, gateVars, Status, Settled
  <1>9. CASE StartupReconcile
    <2>1. jobStatus' \in [Jobs -> Status] /\ runStatus' \in [Jobs -> Status]
      BY <1>9 DEF StartupReconcile, TypeOK, Status, Settled, Resolved
    <2>2. occ' \in [ScheduledJobs -> OccState]
      BY <1>9 DEF StartupReconcile, TypeOK, OccState
    <2>3. lease' \in [Slots -> (Jobs \X Nat) \union {NoLease}] /\ lapsed' \subseteq Slots
      BY <1>9, FreeSlotType DEF StartupReconcile, TypeOK
    <2>4. evidence' \in [Jobs -> BOOLEAN]
      BY <1>9 DEF StartupReconcile, TypeOK
    <2> QED
      BY <1>9, <2>1, <2>2, <2>3, <2>4 DEF StartupReconcile, TypeOK, timeVars, gateVars
  <1>10. CASE ReconcileOccurrences
    BY <1>10 DEF ReconcileOccurrences, TypeOK, slotVars, timeVars, logVars, gateVars,
                 Reconciled, Projected, OccState
  <1>11. ASSUME NEW j \in Jobs, NEW done \in BOOLEAN, AppendRunEvent(j, done) PROVE TypeOK'
    BY <1>11 DEF AppendRunEvent, TypeOK, rowVars, slotVars, timeVars, gateVars
  <1>12. ASSUME NEW j \in Jobs, NEW done \in BOOLEAN, ModelCheckpoint(j, done) PROVE TypeOK'
    BY <1>12 DEF ModelCheckpoint, TypeOK, rowVars, slotVars, timeVars, gateVars
  <1>13. ASSUME NEW s \in Slots, LeaseLapses(s) PROVE TypeOK'
    BY <1>13 DEF LeaseLapses, TypeOK, rowVars, timeVars, logVars, gateVars
  <1>14. ASSUME NEW j \in Jobs, DeadlinePasses(j) PROVE TypeOK'
    BY <1>14 DEF DeadlinePasses, TypeOK, rowVars, slotVars, logVars, gateVars
  <1>15. ASSUME NEW j \in Jobs, BackoffEnds(j) PROVE TypeOK'
    BY <1>15 DEF BackoffEnds, TypeOK, rowVars, slotVars, logVars, gateVars
  <1>16. ASSUME NEW b \in BOOLEAN, SetFreeze(b) \/ SetAdmission(b) PROVE TypeOK'
    BY <1>16 DEF SetFreeze, SetAdmission, TypeOK, rowVars, slotVars, timeVars, logVars
  <1>17. CASE UNCHANGED vars
    BY <1>17 DEF vars, TypeOK
  <1> QED
    BY <1>1, <1>2, <1>3, <1>4, <1>5, <1>6, <1>7, <1>8, <1>9, <1>10, <1>11, <1>12,
       <1>13, <1>14, <1>15, <1>16, <1>17 DEF Next

(* Type correctness.                                                       *)
THEOREM TypeCorrect == Spec => []TypeOK
  BY InitType, TypeStep, PTL DEF Spec

-----------------------------------------------------------------------------
(* Slots and runs.  SlotRunAgreement is inductive together with             *)
(* JobRunAgreement: a claim picks its job by jobs.status but must not find   *)
(* the run already running.  Agrees states it of any slot table, so that a   *)
(* sweep and the claim after it are two steps of one argument.               *)

Agrees(l, rs, c) ==
  /\ \A s \in Slots : l[s] # NoLease =>
       rs[l[s][1]] = "running" /\ l[s][2] = c[l[s][1]]
  /\ \A s, t \in Slots : l[s] # NoLease /\ l[t] # NoLease /\ l[s][1] = l[t][1] => s = t
  /\ \A j \in Jobs : rs[j] = "running" =>
       \E s \in Slots : l[s] # NoLease /\ l[s][1] = j

Leases == [Slots -> (Jobs \X Nat) \union {NoLease}]

LEMMA AgreesHere == SlotRunAgreement <=> Agrees(lease, runStatus, claims)
  BY DEF SlotRunAgreement, Agrees, Leased, RunOf

(* Freeing slots while their runs, and only those, stop running.            *)
LEMMA Drop ==
  ASSUME NEW l \in Leases, NEW rs, NEW rs2, NEW c, NEW D \in SUBSET Slots,
         Agrees(l, rs, c),
         \A j \in Jobs : rs2[j] = "running" <=>
           rs[j] = "running" /\ ~\E s \in D : l[s] # NoLease /\ l[s][1] = j
  PROVE  Agrees([s \in Slots |-> IF s \in D THEN NoLease ELSE l[s]], rs2, c)
  <1> DEFINE m == [s \in Slots |-> IF s \in D THEN NoLease ELSE l[s]]
  <1>1. ASSUME NEW s \in Slots, m[s] # NoLease
        PROVE  s \notin D /\ m[s] = l[s] /\ l[s] # NoLease /\ l[s][1] \in Jobs
    BY <1>1 DEF Leases
  <1>2. ASSUME NEW s \in Slots, m[s] # NoLease
        PROVE  rs2[m[s][1]] = "running" /\ m[s][2] = c[m[s][1]]
    <2>1. ~\E t \in D : l[t] # NoLease /\ l[t][1] = l[s][1]
      BY <1>1, <1>2 DEF Agrees
    <2> QED BY <1>1, <1>2, <2>1 DEF Agrees
  <1>3. ASSUME NEW s \in Slots, NEW t \in Slots, m[s] # NoLease, m[t] # NoLease,
               m[s][1] = m[t][1]
        PROVE  s = t
    BY <1>1, <1>3 DEF Agrees
  <1>4. ASSUME NEW j \in Jobs, rs2[j] = "running"
        PROVE  \E s \in Slots : m[s] # NoLease /\ m[s][1] = j
    <2>1. PICK s \in Slots : l[s] # NoLease /\ l[s][1] = j
      BY <1>4 DEF Agrees
    <2>2. s \notin D
      BY <1>4, <2>1
    <2> QED BY <2>1, <2>2
  <1> HIDE DEF m
  <1> QED BY <1>2, <1>3, <1>4 DEF Agrees, m

(* Leasing a free slot to a run that was not running.                       *)
LEMMA Take ==
  ASSUME NEW l \in Leases, NEW rs \in [Jobs -> Status], NEW c \in [Jobs -> Nat],
         Agrees(l, rs, c),
         NEW s \in Slots, l[s] = NoLease, NEW j \in Jobs, rs[j] # "running"
  PROVE  Agrees([l EXCEPT ![s] = <<j, c[j] + 1>>], [rs EXCEPT ![j] = "running"],
                [c EXCEPT ![j] = @ + 1])
  <1> DEFINE l2 == [l EXCEPT ![s] = <<j, c[j] + 1>>]
             rs2 == [rs EXCEPT ![j] = "running"]
             c2 == [c EXCEPT ![j] = @ + 1]
  <1>1. l2[s] # NoLease /\ l2[s][1] = j /\ l2[s][2] = c2[j] /\ rs2[j] = "running"
    BY CoordinationAssumption DEF Leases
  <1>2. ASSUME NEW t \in Slots, t # s, l2[t] # NoLease
        PROVE  /\ l2[t] = l[t] /\ l[t] # NoLease /\ l[t][1] \in Jobs /\ l[t][1] # j
               /\ rs2[l[t][1]] = "running" /\ l[t][2] = c2[l[t][1]]
    <2>1. l2[t] = l[t] /\ l[t] # NoLease /\ l[t][1] \in Jobs
      BY <1>2 DEF Leases
    <2>2. rs[l[t][1]] = "running" /\ l[t][2] = c[l[t][1]]
      BY <2>1 DEF Agrees
    <2> QED BY <2>1, <2>2
  <1>3. ASSUME NEW k \in Jobs, rs2[k] = "running"
        PROVE  \E t \in Slots : l2[t] # NoLease /\ l2[t][1] = k
    <2>1. CASE k = j
      BY <1>1, <2>1
    <2>2. CASE k # j
      <3>1. PICK t \in Slots : l[t] # NoLease /\ l[t][1] = k
        BY <1>3, <2>2 DEF Agrees
      <3>2. t # s /\ l2[t] = l[t]
        BY <3>1 DEF Leases
      <3> QED BY <3>1, <3>2
    <2> QED BY <2>1, <2>2
  <1>4. ASSUME NEW t \in Slots, NEW u \in Slots, l2[t] # NoLease, l2[u] # NoLease,
               l2[t][1] = l2[u][1]
        PROVE  t = u
    <2>1. CASE t = s \/ u = s
      BY <1>1, <1>2, <1>4, <2>1
    <2>2. CASE t # s /\ u # s
      BY <1>2, <1>4, <2>2 DEF Agrees
    <2> QED BY <2>1, <2>2
  <1>5. ASSUME NEW t \in Slots, l2[t] # NoLease
        PROVE  rs2[l2[t][1]] = "running" /\ l2[t][2] = c2[l2[t][1]]
    BY <1>1, <1>2, <1>5
  <1> HIDE DEF l2, rs2, c2
  <1> QED BY <1>3, <1>4, <1>5 DEF Agrees, l2, rs2, c2

SlotInv == JobRunAgreement /\ SlotRunAgreement

(* A sweep keeps the agreement of slots and runs, and of jobs and runs.     *)
LEMMA SweepAgrees ==
  ASSUME TypeOK, SlotInv
  PROVE  /\ Agrees(SweptLease, SweptRun, claims)
         /\ \A j \in Jobs : SweptJob[j] = SweptRun[j]
  <1>1. \A j \in Jobs : SweptJob[j] = SweptRun[j]
    BY DEF SlotInv, JobRunAgreement, SweptJob, SweptRun, Overdue
  <1>2. ASSUME NEW j \in Jobs
        PROVE  SweptRun[j] = "running" <=>
                 runStatus[j] = "running"
                 /\ ~\E s \in Reaped : lease[s] # NoLease /\ lease[s][1] = j
    BY DEF SlotInv, JobRunAgreement, SweptRun, Overdue, Waiting, ReapedRuns, Reaped,
           Leased, RunOf
  <1>3. lease \in Leases /\ Reaped \in SUBSET Slots
    BY DEF TypeOK, Leases, Reaped
  <1>4. Agrees(lease, runStatus, claims)
    BY AgreesHere DEF SlotInv
  <1>5. Agrees([s \in Slots |-> IF s \in Reaped THEN NoLease ELSE lease[s]], SweptRun, claims)
    BY <1>2, <1>3, <1>4, Drop
  <1> QED BY <1>1, <1>5 DEF SweptLease

LEMMA SlotStep == TypeOK /\ SlotInv /\ [Next]_vars => SlotInv'
  <1> SUFFICES ASSUME TypeOK, SlotInv, [Next]_vars PROVE SlotInv'
    OBVIOUS
  <1>a. lease \in Leases /\ runStatus \in [Jobs -> Status] /\ claims \in [Jobs -> Nat]
    BY DEF TypeOK, Leases
  <1>b. Agrees(lease, runStatus, claims)
    BY AgreesHere DEF SlotInv
  <1>c. SlotRunAgreement' <=> Agrees(lease', runStatus', claims')
    BY DEF SlotRunAgreement, Agrees, Leased, RunOf
  (* Steps that touch neither status, slots nor claims.                     *)
  <1>d. ASSUME UNCHANGED <<jobStatus, runStatus, lease, claims>> PROVE SlotInv'
    BY <1>b, <1>c, <1>d DEF SlotInv, JobRunAgreement
  (* A job that was absent is queued.                                       *)
  <1>e. ASSUME NEW j \in Jobs, jobStatus[j] = "absent",
               jobStatus' = [jobStatus EXCEPT ![j] = "queued"],
               runStatus' = [runStatus EXCEPT ![j] = "queued"],
               UNCHANGED <<lease, claims>>
        PROVE  SlotInv'
    <2> DEFINE none == {}
    <2>1. JobRunAgreement'
      BY <1>e DEF SlotInv, JobRunAgreement, TypeOK
    <2>2. runStatus[j] = "absent"
      BY <1>e DEF SlotInv, JobRunAgreement
    <2>3. \A k \in Jobs : runStatus'[k] = "running" <=>
            runStatus[k] = "running" /\ ~\E s \in none : lease[s] # NoLease /\ lease[s][1] = k
      BY <1>e, <2>2, <1>a
    <2>5. [s \in Slots |-> IF s \in none THEN NoLease ELSE lease[s]] = lease'
      BY <1>a, <1>e DEF Leases
    <2>6. none \in SUBSET Slots
      OBVIOUS
    <2> HIDE DEF none
    <2>4. Agrees([s \in Slots |-> IF s \in none THEN NoLease ELSE lease[s]], runStatus', claims)
      BY <1>a, <1>b, <2>3, <2>6, Drop
    <2> QED BY <1>c, <1>e, <2>1, <2>4, <2>5 DEF SlotInv
  <1>1. ASSUME NEW j \in Jobs, AcceptManual(j) PROVE SlotInv'
    BY <1>1, <1>e DEF AcceptManual, slotVars
  <1>2. ASSUME NEW j \in ScheduledJobs, AcceptScheduled(j) PROVE SlotInv'
    BY <1>2, <1>e, CoordinationAssumption DEF AcceptScheduled, slotVars
  <1>3. ASSUME NEW j \in Jobs, NEW s \in Slots, NEW open \in BOOLEAN, ClaimNext(j, s, open)
        PROVE  SlotInv'
    <2>1. Agrees(SweptLease, SweptRun, claims) /\ \A k \in Jobs : SweptJob[k] = SweptRun[k]
      BY SweepAgrees
    <2>2. SweptLease \in Leases /\ SweptRun \in [Jobs -> Status] /\ SweptJob \in [Jobs -> Status]
      BY SweepTypes DEF Leases
    <2>3. SweptLease[s] = NoLease /\ SweptRun[j] # "running"
      BY <1>3, <2>1 DEF ClaimNext, FreeSlots, Eligible, Waiting
    <2>4. Agrees(lease', runStatus', claims')
      BY <1>3, <1>a, <2>1, <2>2, <2>3, Take DEF ClaimNext
    <2>5. JobRunAgreement'
      BY <1>3, <2>1, <2>2 DEF ClaimNext, JobRunAgreement
    <2> QED BY <1>c, <2>4, <2>5 DEF SlotInv
  <1>4. ASSUME NEW open \in BOOLEAN, ClaimNothing(open) PROVE SlotInv'
    BY <1>4, <1>c, SweepAgrees DEF ClaimNothing, SlotInv, JobRunAgreement
  <1>5. ASSUME NEW s \in Slots, NEW status \in {"completed", "failed", "retry_wait"},
               NEW noRetry \in BOOLEAN, NEW fits \in BOOLEAN, NEW increment \in BOOLEAN,
               Release(s, status, noRetry, fits, increment)
        PROVE  SlotInv'
    <2> DEFINE j == RunOf(s)
               effective == EffectiveStatus(j, status, noRetry, fits)
               freed == {s}
    <2>1. Leased(s) /\ j \in Jobs
      BY <1>5, LeaseParts DEF Release
    <2>2. effective # "running"
      BY DEF EffectiveStatus
    <2>3. /\ jobStatus' = [jobStatus EXCEPT ![j] = effective]
          /\ runStatus' = [runStatus EXCEPT ![j] = effective]
          /\ lease' = FreeSlot(freed) /\ claims' = claims
      BY <1>5 DEF Release
    <2>4. \A k \in Jobs : runStatus'[k] = "running" <=>
            runStatus[k] = "running"
            /\ ~\E t \in freed : lease[t] # NoLease /\ lease[t][1] = k
      BY <1>a, <2>1, <2>2, <2>3 DEF Leased, RunOf
    <2>6. JobRunAgreement'
      BY <2>1, <2>3 DEF SlotInv, JobRunAgreement, TypeOK
    <2>7. freed \in SUBSET Slots
      OBVIOUS
    <2> HIDE DEF freed
    <2>8. lease' = FreeSlot(freed) /\ claims' = claims
      BY <2>3
    <2>5. Agrees(lease', runStatus', claims')
      BY <1>a, <1>b, <2>4, <2>7, <2>8, Drop DEF FreeSlot
    <2> QED BY <1>c, <2>5, <2>6 DEF SlotInv
  <1>6. ASSUME NEW j \in Jobs, Cancel(j) PROVE SlotInv'
    <2> DEFINE held == {s \in Slots : Leased(s) /\ RunOf(s) = j}
    <2>1. /\ jobStatus' = [jobStatus EXCEPT ![j] = "cancelled"]
          /\ runStatus' = [runStatus EXCEPT ![j] = "cancelled"]
          /\ lease' = FreeSlot(held) /\ claims' = claims
      BY <1>6 DEF Cancel
    <2>2. \A k \in Jobs : runStatus'[k] = "running" <=>
            runStatus[k] = "running"
            /\ ~\E t \in held : lease[t] # NoLease /\ lease[t][1] = k
      BY <1>a, <1>b, <2>1 DEF Leased, RunOf, Agrees
    <2>3. held \in SUBSET Slots
      OBVIOUS
    <2> HIDE DEF held
    <2>6. lease' = FreeSlot(held) /\ claims' = claims
      BY <2>1
    <2>4. Agrees(lease', runStatus', claims')
      BY <1>a, <1>b, <2>2, <2>3, <2>6, Drop DEF FreeSlot
    <2>5. JobRunAgreement'
      BY <2>1 DEF SlotInv, JobRunAgreement, TypeOK
    <2> QED BY <1>c, <2>4, <2>5 DEF SlotInv
  <1>7. CASE StartupReconcile
    <2>1. \A k \in Jobs : runStatus'[k] = "running" <=>
            runStatus[k] = "running"
            /\ ~\E t \in Dropped : lease[t] # NoLease /\ lease[t][1] = k
      BY <1>7 DEF StartupReconcile, DroppedRuns, Dropped, Leased, RunOf, Repaired, Resolved
    <2>2. Dropped \in SUBSET Slots /\ lease' = FreeSlot(Dropped) /\ claims' = claims
      BY <1>7 DEF StartupReconcile, Dropped
    <2>3. Agrees(lease', runStatus', claims')
      BY <1>a, <1>b, <2>1, <2>2, Drop DEF FreeSlot
    <2>4. JobRunAgreement'
      BY <1>7 DEF StartupReconcile, SlotInv, JobRunAgreement, Repaired
    <2> QED BY <1>c, <2>3, <2>4 DEF SlotInv
  <1>8. ASSUME \/ \E j \in ScheduledJobs, d \in {"deferred", "suppressed", "expired"} :
                    RecordDecision(j, d)
               \/ \E s \in Slots : Heartbeat(s)
               \/ ReconcileOccurrences
               \/ \E j \in Jobs, done \in BOOLEAN : AppendRunEvent(j, done)
               \/ \E j \in Jobs, done \in BOOLEAN : ModelCheckpoint(j, done)
               \/ \E s \in Slots : LeaseLapses(s)
               \/ \E j \in Jobs : DeadlinePasses(j)
               \/ \E j \in Jobs : BackoffEnds(j)
               \/ \E b \in BOOLEAN : SetFreeze(b)
               \/ \E b \in BOOLEAN : SetAdmission(b)
               \/ UNCHANGED vars
        PROVE  SlotInv'
    <2>1. UNCHANGED <<jobStatus, runStatus, lease, claims>>
      BY <1>8 DEF RecordDecision, Heartbeat, ReconcileOccurrences, AppendRunEvent,
        ModelCheckpoint, LeaseLapses, DeadlinePasses, BackoffEnds, SetFreeze,
        SetAdmission, vars, rowVars, slotVars
    <2> QED BY <1>d, <2>1
  <1> QED
    BY <1>1, <1>2, <1>3, <1>4, <1>5, <1>6, <1>7, <1>8 DEF Next

LEMMA InitSlots == Init => SlotInv
  BY DEF Init, SlotInv, JobRunAgreement, SlotRunAgreement, Leased, RunOf

(* A running run owns exactly one slot under its newest lease, and the two   *)
(* status columns agree.                                                     *)
THEOREM SlotsAndRunsAgree == Spec => [](SlotRunAgreement /\ JobRunAgreement)
  <1>1. Init => TypeOK /\ SlotInv
    BY InitType, InitSlots
  <1>2. (TypeOK /\ SlotInv) /\ [Next]_vars => (TypeOK /\ SlotInv)'
    BY TypeStep, SlotStep
  <1>3. TypeOK /\ SlotInv => SlotRunAgreement /\ JobRunAgreement
    BY DEF SlotInv
  <1> QED BY <1>1, <1>2, <1>3, PTL DEF Spec

(* A job and its run always carry the same status: the separate updates     *)
(* claim_next, release, cancel and recovery make to the two tables, each    *)
(* with filters of its own, stay in step.                                   *)
THEOREM StatusColumnsAgree == Spec => []JobRunAgreement
  BY SlotsAndRunsAgree, PTL

-----------------------------------------------------------------------------
(* Only a claim makes a job run.                                            *)
LEMMA OnlyClaimsStart ==
  ASSUME TypeOK, [Next]_vars, NEW j \in Jobs,
         jobStatus'[j] = "running", jobStatus[j] # "running"
  PROVE  \E s \in Slots, open \in BOOLEAN : ClaimNext(j, s, open)
  <1>1. ASSUME NEW k \in Jobs, NEW s \in Slots, NEW open \in BOOLEAN, ClaimNext(k, s, open)
        PROVE  k = j
    BY <1>1, SweepTypes DEF ClaimNext, SweptJob, Status
  <1>2. ASSUME NEW open \in BOOLEAN, ClaimNothing(open) PROVE FALSE
    BY <1>2 DEF ClaimNothing, SweptJob
  <1>3. ASSUME NEW s \in Slots, NEW status \in {"completed", "failed", "retry_wait"},
               NEW noRetry \in BOOLEAN, NEW fits \in BOOLEAN, NEW increment \in BOOLEAN,
               Release(s, status, noRetry, fits, increment)
        PROVE  FALSE
    <2>1. /\ jobStatus' = [jobStatus EXCEPT ![RunOf(s)] = EffectiveStatus(RunOf(s), status, noRetry, fits)]
      BY <1>3 DEF Release
    <2>2. EffectiveStatus(RunOf(s), status, noRetry, fits) # "running"
      BY DEF EffectiveStatus
    <2> QED BY <2>1, <2>2 DEF TypeOK
  <1>4. CASE StartupReconcile
    BY <1>4 DEF StartupReconcile, Resolved
  <1>5. ASSUME NEW k \in Jobs, AcceptManual(k) \/ Cancel(k) PROVE FALSE
    BY <1>5 DEF AcceptManual, Cancel, TypeOK
  <1>6. ASSUME NEW k \in ScheduledJobs, AcceptScheduled(k) PROVE FALSE
    BY <1>6 DEF AcceptScheduled, TypeOK
  <1>7. ASSUME jobStatus' = jobStatus PROVE FALSE
    BY <1>7
  <1> QED
    BY <1>1, <1>2, <1>3, <1>4, <1>5, <1>6, <1>7
    DEF Next, RecordDecision, Heartbeat, ReconcileOccurrences, AppendRunEvent,
        ModelCheckpoint, LeaseLapses, DeadlinePasses, BackoffEnds, SetFreeze,
        SetAdmission, vars, rowVars

LEMMA KeyStep == TypeOK /\ KeyExclusion /\ [Next]_vars => KeyExclusion'
  <1> SUFFICES ASSUME TypeOK, KeyExclusion, [Next]_vars,
                      NEW i \in ScheduledJobs, NEW j \in ScheduledJobs, i # j,
                      jobStatus'[i] = "running", jobStatus'[j] = "running",
                      Key[i] = Key[j]
               PROVE  Key[i] = NoKey
    BY DEF KeyExclusion
  <1>1. i \in Jobs /\ j \in Jobs
    BY CoordinationAssumption
  <1>2. ASSUME NEW k \in ScheduledJobs, NEW l \in ScheduledJobs, k # l, Key[k] = Key[l],
               jobStatus'[k] = "running", jobStatus'[l] = "running",
               jobStatus[k] # "running"
        PROVE  Key[k] = NoKey
    <2>1. k \in Jobs /\ l \in Jobs
      BY CoordinationAssumption
    <2>2. PICK s \in Slots, open \in BOOLEAN : ClaimNext(k, s, open)
      BY <1>2, <2>1, OnlyClaimsStart
    <2>3. SweptJob[l] = "running"
      BY <1>2, <2>1, <2>2, SweepTypes DEF ClaimNext
    <2>4. Key[k] \notin BusyKeys
      BY <2>2 DEF ClaimNext, Eligible
    <2> QED BY <1>2, <2>3, <2>4 DEF BusyKeys
  <1> QED BY <1>1, <1>2 DEF KeyExclusion

(* No two running scheduled jobs share a concurrency key.                    *)
THEOREM KeysExclude == Spec => []KeyExclusion
  <1>1. Init => TypeOK /\ KeyExclusion
    BY InitType, CoordinationAssumption DEF Init, KeyExclusion
  <1>2. (TypeOK /\ KeyExclusion) /\ [Next]_vars => (TypeOK /\ KeyExclusion)'
    BY TypeStep, KeyStep
  <1> QED BY <1>1, <1>2, PTL DEF Spec

-----------------------------------------------------------------------------
(* The retry budget.                                                         *)

(* The operations that touch no job row.                                     *)
Frame ==
  \/ \E j \in ScheduledJobs, d \in {"deferred", "suppressed", "expired"} : RecordDecision(j, d)
  \/ \E s \in Slots : Heartbeat(s)
  \/ ReconcileOccurrences
  \/ \E j \in Jobs, done \in BOOLEAN : AppendRunEvent(j, done)
  \/ \E j \in Jobs, done \in BOOLEAN : ModelCheckpoint(j, done)
  \/ \E s \in Slots : LeaseLapses(s)
  \/ \E j \in Jobs : DeadlinePasses(j)
  \/ \E j \in Jobs : BackoffEnds(j)
  \/ \E b \in BOOLEAN : SetFreeze(b)
  \/ \E b \in BOOLEAN : SetAdmission(b)
  \/ UNCHANGED vars

LEMMA FrameKeepsRows == Frame => UNCHANGED <<jobStatus, runStatus, attempt, claims>>
  BY DEF Frame, RecordDecision, Heartbeat, ReconcileOccurrences, AppendRunEvent,
         ModelCheckpoint, LeaseLapses, DeadlinePasses, BackoffEnds, SetFreeze,
         SetAdmission, vars, rowVars

LEMMA BudgetStep == TypeOK /\ RetryBudget /\ [Next]_vars => RetryBudget'
  <1> SUFFICES ASSUME TypeOK, RetryBudget, [Next]_vars, NEW j \in ScheduledJobs
               PROVE  /\ attempt'[j] <= MaxAttempts[j]
                      /\ claims'[j] <= attempt'[j] + 1
                      /\ jobStatus'[j] \in Waiting \union {"absent"} => claims'[j] <= attempt'[j]
    BY DEF RetryBudget
  <1> DEFINE Goal == /\ attempt'[j] <= MaxAttempts[j]
                     /\ claims'[j] <= attempt'[j] + 1
                     /\ jobStatus'[j] \in Waiting \union {"absent"} => claims'[j] <= attempt'[j]
  <1>a. /\ j \in Jobs /\ attempt[j] \in Nat /\ claims[j] \in Nat /\ MaxAttempts[j] \in Nat
        /\ attempt[j] <= MaxAttempts[j] /\ claims[j] <= attempt[j] + 1
        /\ jobStatus[j] \in Waiting \union {"absent"} => claims[j] <= attempt[j]
    BY CoordinationAssumption DEF TypeOK, RetryBudget
  (* A step that leaves the counters alone and sends nobody back to wait.    *)
  <1>b. ASSUME UNCHANGED <<attempt, claims>>,
               jobStatus'[j] \in Waiting \union {"absent"} =>
                 jobStatus[j] \in Waiting \union {"absent"}
        PROVE  Goal
    BY <1>a, <1>b
  <1>1. ASSUME NEW k \in Jobs, AcceptManual(k) PROVE Goal
    BY <1>1, <1>b DEF AcceptManual, TypeOK
  <1>2. ASSUME NEW k \in ScheduledJobs, AcceptScheduled(k) PROVE Goal
    BY <1>2, <1>b, CoordinationAssumption DEF AcceptScheduled, TypeOK
  <1>3. ASSUME NEW k \in Jobs, NEW s \in Slots, NEW open \in BOOLEAN, ClaimNext(k, s, open)
        PROVE  Goal
    <2>1. attempt' = attempt /\ claims' = [claims EXCEPT ![k] = @ + 1]
          /\ jobStatus' = [SweptJob EXCEPT ![k] = "running"]
      BY <1>3 DEF ClaimNext
    <2>2. SweptJob[j] \in Waiting \union {"absent"} => jobStatus[j] \in Waiting \union {"absent"}
      BY <1>a DEF SweptJob, Waiting
    <2>3. SweptJob[k] \in Waiting
      BY <1>3 DEF ClaimNext, Eligible
    <2>4. jobStatus'[k] = "running" /\ \A l \in Jobs : l # k => jobStatus'[l] = SweptJob[l]
      BY <2>1, SweepTypes
    <2>5. CASE k = j
      BY <1>a, <2>1, <2>2, <2>3, <2>4, <2>5 DEF TypeOK, Waiting
    <2>6. CASE k # j
      BY <1>a, <2>1, <2>2, <2>4, <2>6 DEF TypeOK
    <2> QED BY <2>5, <2>6
  <1>4. ASSUME NEW open \in BOOLEAN, ClaimNothing(open) PROVE Goal
    BY <1>4, <1>a, <1>b DEF ClaimNothing, SweptJob, Waiting
  <1>5. ASSUME NEW s \in Slots, NEW status \in {"completed", "failed", "retry_wait"},
               NEW noRetry \in BOOLEAN, NEW fits \in BOOLEAN, NEW increment \in BOOLEAN,
               Release(s, status, noRetry, fits, increment)
        PROVE  Goal
    <2> DEFINE r == RunOf(s)
               effective == EffectiveStatus(r, status, noRetry, fits)
               consumes == effective = "retry_wait" /\ (r \in ScheduledJobs \/ increment)
    <2>1. /\ r \in Jobs /\ claims' = claims
          /\ jobStatus' = [jobStatus EXCEPT ![r] = effective]
          /\ attempt' = [attempt EXCEPT ![r] = IF consumes THEN @ + 1 ELSE @]
          /\ status \in ReleaseStatus(r)
      BY <1>5, LeaseParts DEF Release
    <2>2. CASE r # j
      BY <1>a, <2>1, <2>2 DEF TypeOK
    <2>3. CASE r = j /\ effective = "retry_wait"
      <3>1. status # "retry_wait"
        BY <2>1, <2>3 DEF ReleaseStatus, ManualJobs
      <3>2. attempt[j] < MaxAttempts[j]
        BY <3>1, <2>3 DEF EffectiveStatus
      <3>3. attempt'[j] = attempt[j] + 1
        BY <2>1, <2>3 DEF TypeOK
      <3> QED BY <1>a, <2>1, <3>2, <3>3
    <2>4. CASE r = j /\ effective # "retry_wait"
      <3>1. attempt'[j] = attempt[j]
        BY <2>1, <2>4 DEF TypeOK
      <3>2. jobStatus'[j] \notin Waiting \union {"absent"}
        BY <2>1, <2>4 DEF TypeOK, EffectiveStatus, Waiting
      <3> QED BY <1>a, <2>1, <3>1, <3>2
    <2> QED BY <2>2, <2>3, <2>4
  <1>6. ASSUME NEW k \in Jobs, Cancel(k) PROVE Goal
    BY <1>6, <1>b DEF Cancel, TypeOK, Waiting
  <1>7. CASE StartupReconcile
    BY <1>7, <1>a, <1>b DEF StartupReconcile, Resolved, Waiting
  <1>8. CASE Frame
    BY <1>8, <1>b, FrameKeepsRows
  <1> QED
    BY <1>1, <1>2, <1>3, <1>4, <1>5, <1>6, <1>7, <1>8 DEF Next, Frame

(* A scheduled job is claimed at most once per consumed attempt.             *)
THEOREM BudgetHolds == Spec => []RetryBudget
  <1>1. Init => TypeOK /\ RetryBudget
    BY InitType, CoordinationAssumption DEF Init, RetryBudget
  <1>2. (TypeOK /\ RetryBudget) /\ [Next]_vars => (TypeOK /\ RetryBudget)'
    BY TypeStep, BudgetStep
  <1> QED BY <1>1, <1>2, PTL DEF Spec

-----------------------------------------------------------------------------
(* Verdicts.  A run that holds a slot is running, so neither a release nor a *)
(* sweep can reach a settled job.                                            *)

LEMMA VerdictsKept == TypeOK /\ SlotInv /\ [Next]_vars => VerdictStep \/ UNCHANGED vars
  <1> SUFFICES ASSUME TypeOK, SlotInv, [Next]_vars, NEW j \in Jobs,
                      jobStatus[j] \in Settled, jobStatus'[j] # jobStatus[j]
               PROVE  \/ jobStatus[j] = "interrupted"
                         /\ jobStatus'[j] \in {"completed", "cancelled"}
                      \/ jobStatus[j] = "dead_letter" /\ jobStatus'[j] = "cancelled"
    BY DEF VerdictStep
  <1> DEFINE Goal == \/ jobStatus[j] = "interrupted"
                        /\ jobStatus'[j] \in {"completed", "cancelled"}
                     \/ jobStatus[j] = "dead_letter" /\ jobStatus'[j] = "cancelled"
  <1>a. jobStatus[j] = runStatus[j]
        /\ jobStatus[j] \notin Waiting \union {"absent", "running"}
    BY DEF SlotInv, JobRunAgreement, Settled, Waiting
  <1>b. SweptJob[j] = jobStatus[j]
    BY <1>a DEF SweptJob, Overdue, Waiting
  <1>1. ASSUME NEW k \in Jobs, AcceptManual(k) PROVE Goal
    BY <1>1, <1>a DEF AcceptManual, TypeOK
  <1>2. ASSUME NEW k \in ScheduledJobs, AcceptScheduled(k) PROVE Goal
    BY <1>2, <1>a, CoordinationAssumption DEF AcceptScheduled, TypeOK
  <1>3. ASSUME NEW k \in Jobs, NEW s \in Slots, NEW open \in BOOLEAN, ClaimNext(k, s, open)
        PROVE  Goal
    <2>1. k # j
      BY <1>3, <1>a, <1>b DEF ClaimNext, Eligible
    <2> QED BY <1>3, <1>b, <2>1, SweepTypes DEF ClaimNext
  <1>4. ASSUME NEW open \in BOOLEAN, ClaimNothing(open) PROVE Goal
    BY <1>4, <1>b DEF ClaimNothing
  <1>5. ASSUME NEW s \in Slots, NEW status \in {"completed", "failed", "retry_wait"},
               NEW noRetry \in BOOLEAN, NEW fits \in BOOLEAN, NEW increment \in BOOLEAN,
               Release(s, status, noRetry, fits, increment)
        PROVE  Goal
    <2>1. RunOf(s) \in Jobs /\ runStatus[RunOf(s)] = "running"
      BY <1>5, LeaseParts DEF Release, SlotInv, SlotRunAgreement
    <2>2. RunOf(s) # j
      BY <2>1, <1>a
    <2>3. jobStatus' = [jobStatus EXCEPT ![RunOf(s)] =
                          EffectiveStatus(RunOf(s), status, noRetry, fits)]
      BY <1>5 DEF Release
    <2> QED BY <2>2, <2>3 DEF TypeOK
  <1>6. ASSUME NEW k \in Jobs, Cancel(k) PROVE Goal
    <2>1. k = j /\ jobStatus'[j] = "cancelled"
      BY <1>6 DEF Cancel, TypeOK
    <2>2. jobStatus[j] \in {"interrupted", "dead_letter"}
      BY <1>6, <1>a, <2>1 DEF Cancel, Settled
    <2> QED BY <2>1, <2>2
  <1>7. CASE StartupReconcile
    BY <1>7, <1>a DEF StartupReconcile, Repaired
  <1>8. CASE Frame
    BY <1>8, FrameKeepsRows
  <1> QED
    BY <1>1, <1>2, <1>3, <1>4, <1>5, <1>6, <1>7, <1>8 DEF Next, Frame

(* A verdict changes only from interrupted to completed or cancelled, and     *)
(* from dead_letter to cancelled.                                             *)
THEOREM VerdictsFinal == Spec => VerdictsAreFinal
  <1>1. Init => TypeOK /\ SlotInv
    BY InitType, InitSlots
  <1>2. (TypeOK /\ SlotInv) /\ [Next]_vars => (TypeOK /\ SlotInv)'
    BY TypeStep, SlotStep
  <1>3. (TypeOK /\ SlotInv) /\ [Next]_vars => [VerdictStep]_vars
    BY VerdictsKept
  <1> QED BY <1>1, <1>2, <1>3, PTL DEF Spec, VerdictsAreFinal

-----------------------------------------------------------------------------
(* Occurrences.  While jobs and runs agree, what an occurrence should say is  *)
(* a function of the job status alone.                                        *)

OccOf(status) ==
  IF status = "dead_letter" THEN "dead_letter"
  ELSE IF status \in {"failed", "cancelled", "interrupted"} THEN "failed"
  ELSE IF status = "completed" THEN "completed"
  ELSE IF status = "running" THEN "running"
  ELSE "accepted"

LEMMA ProjectedOf ==
  ASSUME JobRunAgreement, NEW j \in Jobs
  PROVE  Projected(j) = OccOf(jobStatus[j])
  <1>1. {jobStatus[j], runStatus[j]} = {jobStatus[j]}
    BY DEF JobRunAgreement
  <1> QED BY <1>1 DEF Projected, OccOf

OccInv ==
  \A j \in ScheduledJobs : jobStatus[j] # "absent" => occ[j] = OccOf(jobStatus[j])

LEMMA OccStep == TypeOK /\ SlotInv /\ OccInv /\ [Next]_vars => OccInv'
  <1> SUFFICES ASSUME TypeOK, SlotInv, OccInv, [Next]_vars,
                      NEW j \in ScheduledJobs, jobStatus'[j] # "absent"
               PROVE  occ'[j] = OccOf(jobStatus'[j])
    BY DEF OccInv
  <1> DEFINE Goal == occ'[j] = OccOf(jobStatus'[j])
  <1>a. j \in Jobs /\ jobStatus[j] = runStatus[j]
        /\ (jobStatus[j] # "absent" => occ[j] = OccOf(jobStatus[j]))
    BY CoordinationAssumption DEF OccInv, SlotInv, JobRunAgreement
  <1>b. ASSUME NEW k \in Jobs, k \in ReapedRuns \/ k \in DroppedRuns
        PROVE  jobStatus[k] = "running"
    BY <1>b, LeaseParts DEF ReapedRuns, Reaped, DroppedRuns, Dropped, SlotInv,
       SlotRunAgreement, JobRunAgreement
  <1>c. SweptJob[j] # "absent" => SweptOcc[j] = OccOf(SweptJob[j])
    BY <1>a, <1>b DEF SweptJob, SweptOcc, OccOf, Overdue, Waiting
  <1>1. ASSUME NEW k \in Jobs, AcceptManual(k) PROVE Goal
    BY <1>1, <1>a DEF AcceptManual, ManualJobs, TypeOK
  <1>2. ASSUME NEW k \in ScheduledJobs, AcceptScheduled(k) PROVE Goal
    BY <1>2, <1>a, CoordinationAssumption DEF AcceptScheduled, TypeOK, OccOf
  <1>3. ASSUME NEW k \in ScheduledJobs, NEW d \in {"deferred", "suppressed", "expired"},
               RecordDecision(k, d)
        PROVE  Goal
    BY <1>3, <1>a DEF RecordDecision, TypeOK
  <1>4. ASSUME NEW k \in Jobs, NEW s \in Slots, NEW open \in BOOLEAN, ClaimNext(k, s, open)
        PROVE  Goal
    BY <1>4, <1>a, <1>c, SweepTypes DEF ClaimNext, WithOcc, OccOf
  <1>5. ASSUME NEW open \in BOOLEAN, ClaimNothing(open) PROVE Goal
    BY <1>5, <1>c DEF ClaimNothing
  <1>6. ASSUME NEW s \in Slots, NEW status \in {"completed", "failed", "retry_wait"},
               NEW noRetry \in BOOLEAN, NEW fits \in BOOLEAN, NEW increment \in BOOLEAN,
               Release(s, status, noRetry, fits, increment)
        PROVE  Goal
    <2> DEFINE r == RunOf(s)
               effective == EffectiveStatus(r, status, noRetry, fits)
    <2>1. /\ r \in Jobs
          /\ jobStatus' = [jobStatus EXCEPT ![r] = effective]
          /\ occ' = WithOcc(occ, r, OccAfter(effective))
      BY <1>6, LeaseParts DEF Release
    <2>2. OccAfter(effective) = OccOf(effective)
      BY DEF OccAfter, OccOf, EffectiveStatus
    <2> QED BY <1>a, <2>1, <2>2 DEF WithOcc, TypeOK
  <1>7. ASSUME NEW k \in Jobs, Cancel(k) PROVE Goal
    BY <1>7, <1>a DEF Cancel, WithOcc, TypeOK, OccOf
  <1>8. CASE StartupReconcile
    <2>1. j \in DroppedRuns => jobStatus[j] = "running"
      BY <1>a, <1>b
    <2>2. CASE j \in DroppedRuns
      BY <1>8, <1>a, <2>1, <2>2 DEF StartupReconcile, Resolved, OccOf
    <2>3. CASE j \notin DroppedRuns
      BY <1>8, <1>a, <2>3 DEF StartupReconcile, Repaired, OccOf
    <2> QED BY <2>2, <2>3
  <1>9. CASE ReconcileOccurrences
    <2>1. Projected(j) = OccOf(jobStatus[j])
      BY <1>a, ProjectedOf DEF SlotInv
    <2> QED BY <1>9, <1>a, <2>1 DEF ReconcileOccurrences, Reconciled
  <1>10. ASSUME UNCHANGED <<jobStatus, occ>> PROVE Goal
    BY <1>10, <1>a
  <1>11. ASSUME \/ \E s \in Slots : Heartbeat(s)
                \/ \E k \in Jobs, done \in BOOLEAN : AppendRunEvent(k, done)
                \/ \E k \in Jobs, done \in BOOLEAN : ModelCheckpoint(k, done)
                \/ \E s \in Slots : LeaseLapses(s)
                \/ \E k \in Jobs : DeadlinePasses(k)
                \/ \E k \in Jobs : BackoffEnds(k)
                \/ \E b \in BOOLEAN : SetFreeze(b)
                \/ \E b \in BOOLEAN : SetAdmission(b)
                \/ UNCHANGED vars
         PROVE  Goal
    <2>1. UNCHANGED <<jobStatus, occ>>
      BY <1>11 DEF Heartbeat, AppendRunEvent, ModelCheckpoint, LeaseLapses, DeadlinePasses,
        BackoffEnds, SetFreeze, SetAdmission, vars, rowVars
    <2> QED BY <1>10, <2>1
  <1> QED
    BY <1>1, <1>2, <1>3, <1>4, <1>5, <1>6, <1>7, <1>8, <1>9, <1>11 DEF Next

(* An occurrence always says what its job says.                               *)
THEOREM OccurrencesAgree == Spec => []OccurrenceAgreement
  <1> DEFINE Inv == TypeOK /\ SlotInv /\ OccInv
  <1>1. Init => Inv
    BY InitType, InitSlots, CoordinationAssumption DEF Init, OccInv
  <1>2. Inv /\ [Next]_vars => Inv'
    BY TypeStep, SlotStep, OccStep
  <1>3. Inv => OccurrenceAgreement
    BY ProjectedOf, CoordinationAssumption DEF OccInv, SlotInv, OccurrenceAgreement
  <1> QED BY <1>1, <1>2, <1>3, PTL DEF Spec

-----------------------------------------------------------------------------
(* Refinement of JobLifecycle.                                                *)

RefInv == TypeOK /\ SlotInv /\ KeyExclusion /\ RetryBudget

(* Running jobs own distinct slots, so they are at most as many.              *)
LEMMA CapacityBound ==
  ASSUME TypeOK, SlotInv
  PROVE  Cardinality({j \in Jobs : jobStatus[j] = "running"}) <= Cardinality(Slots)
  <1> DEFINE A == {j \in Jobs : jobStatus[j] = "running"}
             f == [j \in A |-> CHOOSE s \in Slots : Leased(s) /\ RunOf(s) = j]
  <1>1. \A j \in A : f[j] \in Slots /\ RunOf(f[j]) = j
    BY DEF SlotInv, SlotRunAgreement, JobRunAgreement
  <1>2. f \in Injection(A, Slots)
    BY <1>1 DEF Injection, IsInjective
  <1> HIDE DEF A, f
  <1>3. Cardinality(A) <= Cardinality(Slots)
    BY <1>2, FS_Injection, CoordinationAssumption
  <1> QED BY <1>3 DEF A

(* The invariants, read through the mapping, are the bounds of the abstract    *)
(* specification.                                                             *)
LEMMA AbstractBounds ==
  ASSUME RefInv
  PROVE  Lifecycle!Exclusive /\ Lifecycle!WithinCapacity /\ Lifecycle!WithinBudget
  <1>1. Lifecycle!Active = {j \in Jobs : jobStatus[j] = "running"}
    BY DEF Lifecycle!Active, PublicState, Waiting
  <1>2. Lifecycle!Exclusive
    BY <1>1 DEF Lifecycle!Exclusive, RefInv, KeyExclusion
  <1>3. Lifecycle!WithinCapacity
    <2>1. Cardinality({j \in Jobs : jobStatus[j] = "running"}) <= Cardinality(Slots)
      BY CapacityBound DEF RefInv
    <2>2. \A S : Lifecycle!Cardinality(S) = Cardinality(S)
      BY Zenon DEF Cardinality, Lifecycle!Cardinality
    <2> QED BY <1>1, <2>1, <2>2 DEF Lifecycle!WithinCapacity
  <1>4. Lifecycle!WithinBudget
    <2> SUFFICES ASSUME NEW j \in ScheduledJobs PROVE claims[j] <= MaxAttempts[j] + 1
      BY DEF Lifecycle!WithinBudget
    <2>1. attempt[j] \in Nat /\ claims[j] \in Nat /\ MaxAttempts[j] \in Nat
      BY CoordinationAssumption DEF RefInv, TypeOK
    <2> QED BY <2>1 DEF RefInv, RetryBudget
  <1> QED BY <1>2, <1>3, <1>4

(* Every job moves along an edge of its life cycle.                           *)
LEMMA EdgeStep ==
  ASSUME TypeOK, SlotInv, [Next]_vars, NEW j \in Jobs
  PROVE  \/ PublicState'[j] = PublicState[j]
         \/ <<PublicState[j], PublicState'[j]>> \in Lifecycle!Edges
  <1> DEFINE Goal == \/ PublicState'[j] = PublicState[j]
                     \/ <<PublicState[j], PublicState'[j]>> \in Lifecycle!Edges
             Fate(st) == IF st = "absent" THEN "absent"
                         ELSE IF st \in Waiting THEN "waiting"
                         ELSE IF st = "running" THEN "active"
                         ELSE "settled"
             Forward(st, st2) ==
               \/ Fate(st) = Fate(st2)
               \/ <<Fate(st), Fate(st2)>> \in Lifecycle!Edges
  <1>a. PublicState[j] = Fate(jobStatus[j]) /\ PublicState'[j] = Fate(jobStatus'[j])
    BY DEF PublicState
  <1>b. Forward(jobStatus[j], jobStatus'[j]) => Goal
    BY <1>a
  <1>c. jobStatus[j] = runStatus[j] /\ jobStatus[j] \in Status
    BY DEF SlotInv, JobRunAgreement, TypeOK
  <1>d. Forward(jobStatus[j], SweptJob[j])
    BY <1>c DEF SweptJob, Overdue, Lifecycle!Edges, Waiting
  <1>1. ASSUME NEW k \in Jobs, AcceptManual(k) PROVE Goal
    BY <1>1, <1>b DEF AcceptManual, TypeOK, Lifecycle!Edges, Waiting
  <1>2. ASSUME NEW k \in ScheduledJobs, AcceptScheduled(k) PROVE Goal
    BY <1>2, <1>b, CoordinationAssumption DEF AcceptScheduled, TypeOK, Lifecycle!Edges, Waiting
  <1>3. ASSUME NEW k \in Jobs, NEW s \in Slots, NEW open \in BOOLEAN, ClaimNext(k, s, open)
        PROVE  Goal
    <2>1. CASE k = j
      <3>1. jobStatus[j] \in Waiting
        BY <1>3, <2>1 DEF ClaimNext, Eligible, SweptJob, Waiting
      <3>2. jobStatus'[j] = "running"
        BY <1>3, <2>1, SweepTypes DEF ClaimNext
      <3> QED BY <3>1, <3>2, <1>b DEF Lifecycle!Edges, Waiting
    <2>2. CASE k # j
      BY <1>3, <1>b, <1>d, <2>2, SweepTypes DEF ClaimNext
    <2> QED BY <2>1, <2>2
  <1>4. ASSUME NEW open \in BOOLEAN, ClaimNothing(open) PROVE Goal
    BY <1>4, <1>b, <1>d DEF ClaimNothing
  <1>5. ASSUME NEW s \in Slots, NEW status \in {"completed", "failed", "retry_wait"},
               NEW noRetry \in BOOLEAN, NEW fits \in BOOLEAN, NEW increment \in BOOLEAN,
               Release(s, status, noRetry, fits, increment)
        PROVE  Goal
    <2> DEFINE r == RunOf(s)
               effective == EffectiveStatus(r, status, noRetry, fits)
    <2>1. /\ r \in Jobs /\ runStatus[r] = "running"
          /\ jobStatus' = [jobStatus EXCEPT ![r] = effective]
      BY <1>5, LeaseParts DEF Release, SlotInv, SlotRunAgreement
    <2>2. effective \in {"completed", "failed", "dead_letter", "retry_wait"}
      BY DEF EffectiveStatus
    <2>3. CASE r = j
      <3>1. jobStatus[j] = "running" /\ jobStatus'[j] = effective
        BY <1>c, <2>1, <2>3 DEF TypeOK
      <3> HIDE DEF effective
      <3> QED BY <1>b, <2>2, <3>1 DEF Lifecycle!Edges, Waiting
    <2>4. CASE r # j
      BY <1>b, <2>1, <2>4 DEF TypeOK
    <2> QED BY <2>3, <2>4
  <1>6. ASSUME NEW k \in Jobs, Cancel(k) PROVE Goal
    <2>1. CASE k = j
      <3>1. jobStatus'[j] = "cancelled" /\ jobStatus[j] # "absent"
        BY <1>6, <1>c, <2>1 DEF Cancel, TypeOK
      <3> QED BY <1>b, <1>c, <3>1 DEF Lifecycle!Edges, Waiting
    <2>2. CASE k # j
      BY <1>6, <1>b, <2>2 DEF Cancel, TypeOK
    <2> QED BY <2>1, <2>2
  <1>7. CASE StartupReconcile
    <2>1. \/ jobStatus'[j] = jobStatus[j]
          \/ /\ jobStatus[j] \in {"running", "interrupted", "failed", "dead_letter"}
             /\ jobStatus'[j] \in {"completed", "interrupted"}
      <3>1. jobStatus'[j] =
              IF j \in DroppedRuns /\ jobStatus[j] = "running" THEN Resolved(j)
              ELSE IF Repaired(j) /\ jobStatus[j] \in {"interrupted", "failed", "dead_letter"}
                   THEN "completed"
              ELSE jobStatus[j]
        BY <1>7 DEF StartupReconcile
      <3>2. Resolved(j) = "completed" \/ Resolved(j) = "interrupted"
        BY DEF Resolved
      <3>3. CASE j \in DroppedRuns /\ jobStatus[j] = "running"
        BY <3>1, <3>2, <3>3
      <3>4. CASE ~(j \in DroppedRuns /\ jobStatus[j] = "running")
        BY <3>1, <3>4
      <3> QED BY <3>3, <3>4
    <2> QED BY <1>b, <2>1 DEF Lifecycle!Edges, Waiting
  <1>8. CASE Frame
    BY <1>8, <1>b, FrameKeepsRows
  <1> QED
    BY <1>1, <1>2, <1>3, <1>4, <1>5, <1>6, <1>7, <1>8 DEF Next, Frame

(* At most one job starts in a step, and only its claim count moves.          *)
LEMMA StartStep ==
  ASSUME TypeOK, [Next]_vars
  PROVE  /\ \A i, j \in Jobs : Lifecycle!Starts(i) /\ Lifecycle!Starts(j) => i = j
         /\ \A j \in Jobs :
              claims'[j] = IF Lifecycle!Starts(j) THEN claims[j] + 1 ELSE claims[j]
  <1>1. ASSUME NEW j \in Jobs, Lifecycle!Starts(j)
        PROVE  \E s \in Slots, open \in BOOLEAN : ClaimNext(j, s, open)
    <2>1. jobStatus'[j] = "running" /\ jobStatus[j] # "running"
      BY <1>1 DEF Lifecycle!Starts, PublicState, Waiting
    <2> QED BY <2>1, OnlyClaimsStart
  <1>2. ASSUME NEW k \in Jobs, NEW s \in Slots, NEW open \in BOOLEAN, ClaimNext(k, s, open)
        PROVE  /\ Lifecycle!Starts(k)
               /\ claims' = [claims EXCEPT ![k] = @ + 1]
               /\ \A j \in Jobs : Lifecycle!Starts(j) => j = k
    <2>1. SweptJob[k] \in Waiting /\ jobStatus' = [SweptJob EXCEPT ![k] = "running"]
          /\ claims' = [claims EXCEPT ![k] = @ + 1]
      BY <1>2 DEF ClaimNext, Eligible
    <2>2. jobStatus[k] \in Waiting /\ jobStatus'[k] = "running"
      BY <2>1, SweepTypes DEF SweptJob, Waiting
    <2>3. \A j \in Jobs : j # k => jobStatus'[j] = SweptJob[j]
      BY <2>1, SweepTypes
    <2>4. ASSUME NEW j \in Jobs, j # k PROVE ~Lifecycle!Starts(j)
      BY <2>3, <2>4 DEF Lifecycle!Starts, PublicState, SweptJob, Waiting
    <2> QED BY <2>1, <2>2, <2>4 DEF Lifecycle!Starts, PublicState, Waiting
  <1>3. ASSUME ~\E k \in Jobs, s \in Slots, open \in BOOLEAN : ClaimNext(k, s, open)
        PROVE  claims' = claims
    <2>1. Frame => claims' = claims
      BY FrameKeepsRows
    <2>2. \A s, status, noRetry, fits, increment :
            Release(s, status, noRetry, fits, increment) => claims' = claims
      BY DEF Release
    <2>3. \A j, open : AcceptManual(j) \/ AcceptScheduled(j) \/ Cancel(j)
                      \/ ClaimNothing(open) \/ StartupReconcile => claims' = claims
      BY DEF AcceptManual, AcceptScheduled, Cancel, ClaimNothing, StartupReconcile
    <2> QED BY <1>3, <2>1, <2>2, <2>3 DEF Next, Frame
  <1>4. CASE \E k \in Jobs, s \in Slots, open \in BOOLEAN : ClaimNext(k, s, open)
    BY <1>2, <1>4 DEF TypeOK
  <1>5. CASE ~\E k \in Jobs, s \in Slots, open \in BOOLEAN : ClaimNext(k, s, open)
    BY <1>1, <1>3, <1>5
  <1> QED BY <1>4, <1>5

(* Coordination implements JobLifecycle.                                      *)
THEOREM Refinement == Spec => ImplementsLifecycle
  <1>1. Init => RefInv
    BY InitType, InitSlots, CoordinationAssumption DEF Init, RefInv, KeyExclusion, RetryBudget
  <1>2. RefInv /\ [Next]_vars => RefInv'
    BY TypeStep, SlotStep, KeyStep, BudgetStep DEF RefInv
  <1>3. Init => Lifecycle!Init
    BY DEF Init, Lifecycle!Init, PublicState
  <1>4. ASSUME RefInv, [Next]_vars, RefInv' PROVE [Lifecycle!Next]_Lifecycle!vars
    <2>1. Lifecycle!Exclusive' /\ Lifecycle!WithinCapacity' /\ Lifecycle!WithinBudget'
      BY <1>4, AbstractBounds, PTL
    <2>2. Lifecycle!Next
      BY <1>4, <2>1, EdgeStep, StartStep DEF RefInv, Lifecycle!Next
    <2> QED BY <2>2
  <1> QED
    BY <1>1, <1>2, <1>3, <1>4, PTL DEF Spec, ImplementsLifecycle, Lifecycle!Spec
=============================================================================
