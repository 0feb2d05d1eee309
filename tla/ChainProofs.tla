----------------------------- MODULE ChainProofs -----------------------------
(***************************************************************************)
(* Proofs about DependencyChain and ModelCalls, for any jobs, planners, slots *)
(* and budgets, any number of crashes and of answers from the model: every    *)
(* step of either is a step of Coordination, so the invariants proved there  *)
(* hold here, and the invariants of the threads, of the dependency events    *)
(* and of the calls follow.                                                  *)
(***************************************************************************)
EXTENDS ModelCalls, CoordinationProofs, SequenceTheorems

-----------------------------------------------------------------------------
(* The chain runs on Coordination.  Only the job of a thread must be known.   *)

LEMMA LogEventIsStep ==
  ASSUME NEW j \in Jobs, NEW done \in BOOLEAN, done => j \in ScheduledJobs, LogEvent(j, done)
  PROVE  [Next]_vars
  <1>1. CASE runStatus[j] \in {"running", "interrupted"}
    <2>1. AppendRunEvent(j, done)
      BY <1>1 DEF LogEvent
    <2> QED BY <2>1 DEF Next
  <1>2. CASE runStatus[j] \notin {"running", "interrupted"}
    BY <1>2 DEF LogEvent, coordinationVars
  <1> QED BY <1>1, <1>2

ThreadJobs == \A t \in threads : t.job \in ScheduledJobs /\ t.ok \in BOOLEAN

LEMMA ThreadStepIsStep ==
  ASSUME ThreadJobs, NEW t \in threads, ThreadStep(t) \/ ThreadBeats(t)
  PROVE  [Next]_vars
  <1>a. t.job \in Jobs /\ t.job \in ScheduledJobs
    BY CoordinationAssumption DEF ThreadJobs
  <1>1. CASE ThreadDeclines(t)
    BY <1>1 DEF ThreadDeclines, coordinationVars
  <1>2. CASE ThreadStarts(t) \/ ThreadFails(t) \/ ReleaseStale(t)
    <2>1. LogEvent(t.job, FALSE)
      BY <1>2 DEF ThreadStarts, ThreadFails, ReleaseStale
    <2> QED BY <1>a, <2>1, LogEventIsStep
  <1>3. ASSUME NEW ok \in BOOLEAN, HandlerEnds(t, ok) PROVE [Next]_vars
    BY <1>3 DEF HandlerEnds, coordinationVars
  <1>4. ASSUME NEW appended \in BOOLEAN, NEW written \in BOOLEAN,
               AppendDependencyEvent(t, appended, written)
        PROVE  [Next]_vars
    <2>1. LogEvent(t.job, FALSE) \/ UNCHANGED vars
      BY <1>4 DEF AppendDependencyEvent, coordinationVars
    <2> QED BY <1>a, <2>1, LogEventIsStep
  <1>8. ASSUME NEW built \in BOOLEAN, BuildManifest(t, built) PROVE [Next]_vars
    BY <1>8 DEF BuildManifest, coordinationVars
  <1>5. ASSUME NEW indexed \in BOOLEAN, RecordOutcome(t, indexed) PROVE [Next]_vars
    <2>1. LogEvent(t.job, t.ok /\ indexed)
      BY <1>5 DEF RecordOutcome
    <2>2. (t.ok /\ indexed) \in BOOLEAN
      OBVIOUS
    <2> QED BY <1>a, <2>1, <2>2, LogEventIsStep
  <1>6. ASSUME NEW noRetry \in BOOLEAN, NEW fits \in BOOLEAN, ReleaseHeld(t, noRetry, fits)
        PROVE  [Next]_vars
    <2>1. PICK s \in Slots :
            Release(s, IF t.ok THEN "completed" ELSE "failed", noRetry, fits, TRUE)
      BY <1>6 DEF ReleaseHeld
    <2>2. (IF t.ok THEN "completed" ELSE "failed") \in {"completed", "failed", "retry_wait"}
      OBVIOUS
    <2> QED BY <2>1, <2>2 DEF Next
  <1>7. CASE ThreadBeats(t)
    BY <1>7 DEF ThreadBeats, Next, coordinationVars
  <1> QED
    BY <1>1, <1>2, <1>3, <1>4, <1>5, <1>6, <1>7, <1>8 DEF ThreadStep

LEMMA ChainIsCoordination ==
  ASSUME ThreadJobs, [ChainNext]_chainVars
  PROVE  [Next]_vars
  <1> USE CoordinationAssumption, ChainAssumption
  <1>1. CASE StartServing
    BY <1>1 DEF StartServing, Next
  <1>2. CASE ServeStep
    BY <1>2 DEF ServeStep, ServeClaim, ServeIdle, Next
  <1>3. CASE WorkerCrash \/ DispatcherCrash
    BY <1>3 DEF WorkerCrash, DispatcherCrash, coordinationVars
  <1>4. ASSUME NEW t \in threads, ThreadStep(t) \/ ThreadBeats(t) PROVE [Next]_vars
    BY <1>4, ThreadStepIsStep
  <1>5. ASSUME NEW j \in Upstream, TickAcceptsCalendar(j) PROVE [Next]_vars
    BY <1>5 DEF TickAcceptsCalendar, Next
  <1>6. ASSUME NEW j \in Upstream, NEW d \in {"deferred", "suppressed", "expired"},
               TickRecordsCalendar(j, d)
        PROVE  [Next]_vars
    BY <1>6 DEF TickRecordsCalendar, Next
  <1>7. CASE TickReconciles
    BY <1>7 DEF TickReconciles, Next
  <1>8. ASSUME NEW p \in Planners,
               TickValidates(p) \/ TickBlocks(p) \/ TickDecides(p) \/ TickConsumes(p)
        PROVE  [Next]_vars
    BY <1>8 DEF TickValidates, TickBlocks, TickDecides, TickConsumes, coordinationVars,
                Planners, Next
  <1>9. ASSUME NEW j \in ScheduledJobs, ApiCancel(j) \/ ChainDeadline(j) PROVE [Next]_vars
    BY <1>9 DEF ApiCancel, ChainDeadline, Next
  <1>10. CASE ChainTime
    BY <1>10 DEF ChainTime, Next
  <1>11. CASE UNCHANGED chainVars
    BY <1>11 DEF chainVars, vars
  <1> QED
    BY <1>1, <1>2, <1>3, <1>4, <1>5, <1>6, <1>7, <1>8, <1>9, <1>10, <1>11
    DEF ChainNext, TickStep

-----------------------------------------------------------------------------
(* Types *)

LEMMA ChainInitType == ChainInit => ChainTypeOK
  <1> SUFFICES ASSUME ChainInit PROVE ChainTypeOK
    OBVIOUS
  <1>1. TypeOK
    BY InitType DEF ChainInit
  <1>2. handler \in [Jobs -> [try : Nat, ok : BOOLEAN]]
    BY DEF ChainInit
  <1>3. manifest \in [Upstream -> Nat]
        /\ event \in [Planners -> {"none", "pending", "consumed", "blocked"}]
    BY DEF ChainInit
  <1>4. threads \subseteq Thread /\ tick \in {Idle} /\ crashes \in 0..MaxCrashes
    BY ChainAssumption DEF ChainInit
  <1>5. serving \in BOOLEAN
    BY DEF ChainInit
  <1> QED BY <1>1, <1>2, <1>3, <1>4, <1>5 DEF ChainTypeOK

(* The thread that steps is replaced by a thread or leaves.                   *)
LEMMA ThreadMoves ==
  ASSUME NEW t \in Thread, NEW phase \in {"claimed", "handler", "evidence", "built", "unbuilt", "event", "recorded"},
         NEW ok \in BOOLEAN
  PROVE  /\ [t EXCEPT !.phase = phase, !.ok = ok] \in Thread
         /\ [t EXCEPT !.phase = phase] \in Thread
         /\ [t EXCEPT !.lost = TRUE] \in Thread
  BY DEF Thread

ThreadsTyped == threads \subseteq Thread
FilesTyped ==
  /\ handler \in [Jobs -> [try : Nat, ok : BOOLEAN]]
  /\ manifest \in [Upstream -> Nat]
EventsTyped ==
  /\ event \in [Planners -> {"none", "pending", "consumed", "blocked"}]
  /\ tick \in {Idle} \union [phase : {"ready", "blocked", "decided"}, planner : Planners]
ProcessesTyped == serving \in BOOLEAN /\ crashes \in 0..MaxCrashes

LEMMA ThreadsStayTyped ==
  ASSUME TypeOK, ThreadsTyped, FilesTyped, [ChainNext]_chainVars
  PROVE  ThreadsTyped' /\ FilesTyped'
  <1> DEFINE Goal == ThreadsTyped' /\ FilesTyped'
  <1> USE CoordinationAssumption, ChainAssumption
  <1>a. ASSUME UNCHANGED <<threads, handler, manifest>> PROVE Goal
    BY <1>a DEF ThreadsTyped, FilesTyped
  <1>1. ASSUME NEW j \in ScheduledJobs, NEW s \in Slots, NEW open \in BOOLEAN,
               ServeClaim(j, s, open)
        PROVE  Goal
    <2>1. [job |-> j, claim |-> claims[j] + 1, lost |-> FALSE, ok |-> FALSE,
           phase |-> "claimed"] \in Thread
      BY DEF Thread, TypeOK
    <2> QED BY <1>1, <2>1 DEF ServeClaim, ThreadsTyped, FilesTyped, fileVars
  <1>2. CASE WorkerCrash
    BY <1>2 DEF WorkerCrash, ThreadsTyped, FilesTyped, fileVars
  <1>3. ASSUME NEW t \in threads, ThreadStep(t) PROVE Goal
    <2>t. t \in Thread /\ t.job \in Jobs /\ t.claim \in Nat /\ t.ok \in BOOLEAN
      BY DEF ThreadsTyped, Thread
    <2>1. CASE ThreadDeclines(t) \/ ReleaseStale(t)
      BY <2>1 DEF ThreadDeclines, ReleaseStale, ThreadsTyped, FilesTyped, fileVars
    <2>2. CASE ThreadStarts(t)
      BY <2>2, <2>t, ThreadMoves DEF ThreadStarts, Becomes, ThreadsTyped, FilesTyped, fileVars
    <2>3. CASE ThreadFails(t)
      <3>1. [t EXCEPT !.phase = "recorded", !.ok = FALSE] \in Thread
        BY <2>t, ThreadMoves
      <3> QED BY <2>3, <3>1 DEF ThreadFails, Becomes, ThreadsTyped, FilesTyped, fileVars
    <2>4. ASSUME NEW ok \in BOOLEAN, HandlerEnds(t, ok) PROVE Goal
      <3>1. [t EXCEPT !.phase = "evidence", !.ok = ok] \in Thread
        BY <2>t, ThreadMoves
      <3>2. [try |-> t.claim, ok |-> ok] \in [try : Nat, ok : BOOLEAN]
        BY <2>t
      <3>3. handler' = [handler EXCEPT ![t.job] = [try |-> t.claim, ok |-> ok]]
        BY <2>4 DEF HandlerEnds
      <3>4. handler' \in [Jobs -> [try : Nat, ok : BOOLEAN]]
        BY <3>2, <3>3 DEF FilesTyped
      <3> QED BY <2>4, <3>1, <3>4 DEF HandlerEnds, Becomes, ThreadsTyped, FilesTyped
    <2>5. ASSUME NEW appended \in BOOLEAN, NEW written \in BOOLEAN,
                 AppendDependencyEvent(t, appended, written)
          PROVE  Goal
      <3>1. [t EXCEPT !.phase = "event", !.ok = t.ok /\ written] \in Thread
        <4>1. (t.ok /\ written) \in BOOLEAN
          OBVIOUS
        <4> QED BY <2>t, <4>1, ThreadMoves
      <3>2. threads' = (threads \ {t}) \union {[t EXCEPT !.phase = "event", !.ok = t.ok /\ written]}
        BY <2>5, <2>t DEF AppendDependencyEvent, Becomes, Thread
      <3>3. [try |-> t.claim, ok |-> FALSE] \in [try : Nat, ok : BOOLEAN]
        BY <2>t
      <3>4. handler' = handler \/ handler' = [handler EXCEPT ![t.job] = [try |-> t.claim, ok |-> FALSE]]
        BY <2>5 DEF AppendDependencyEvent
      <3>5. handler' \in [Jobs -> [try : Nat, ok : BOOLEAN]]
        BY <3>3, <3>4 DEF FilesTyped
      <3>6. manifest' = manifest
        BY <2>5 DEF AppendDependencyEvent
      <3> QED BY <3>1, <3>2, <3>5, <3>6 DEF ThreadsTyped, FilesTyped
    <2>8. ASSUME NEW built \in BOOLEAN, BuildManifest(t, built) PROVE Goal
      <3> DEFINE phase == IF built THEN "built" ELSE "unbuilt"
      <3>1. [t EXCEPT !.phase = phase] \in Thread
        BY <2>t DEF Thread
      <3>2. threads' = (threads \ {t}) \union {[t EXCEPT !.phase = phase]}
        BY <2>8 DEF BuildManifest, Becomes
      <3>3. manifest' \in [Upstream -> Nat] /\ handler' = handler
        BY <2>8, <2>t DEF BuildManifest, FilesTyped
      <3> HIDE DEF phase
      <3> QED BY <3>1, <3>2, <3>3 DEF ThreadsTyped, FilesTyped
    <2>6. ASSUME NEW indexed \in BOOLEAN, RecordOutcome(t, indexed) PROVE Goal
      <3>1. [t EXCEPT !.phase = "recorded", !.ok = t.ok /\ indexed] \in Thread
        <4>1. (t.ok /\ indexed) \in BOOLEAN
          OBVIOUS
        <4> QED BY <2>t, <4>1, ThreadMoves
      <3>2. threads' = (threads \ {t})
                         \union {[t EXCEPT !.phase = "recorded", !.ok = t.ok /\ indexed]}
        BY <2>6, <2>t DEF RecordOutcome, Becomes, Thread
      <3> QED BY <2>6, <3>1, <3>2 DEF RecordOutcome, ThreadsTyped, FilesTyped, fileVars
    <2>7. ASSUME NEW noRetry \in BOOLEAN, NEW fits \in BOOLEAN, ReleaseHeld(t, noRetry, fits)
          PROVE  Goal
      BY <2>7 DEF ReleaseHeld, ThreadsTyped, FilesTyped, fileVars
    <2> QED
      BY <1>3, <2>1, <2>2, <2>3, <2>4, <2>5, <2>6, <2>7, <2>8 DEF ThreadStep
  <1>4. ASSUME NEW t \in threads, ThreadBeats(t) PROVE Goal
    <2>1. t \in Thread
      BY DEF ThreadsTyped
    <2>2. [t EXCEPT !.lost = TRUE] \in Thread
      BY <2>1 DEF Thread
    <2> QED BY <1>4, <2>2 DEF ThreadBeats, Becomes, ThreadsTyped, FilesTyped, fileVars
  <1>5. ASSUME \/ StartServing \/ TickReconciles \/ DispatcherCrash \/ ChainTime
               \/ \E open \in BOOLEAN : ServeIdle(open)
               \/ \E j \in Upstream : TickAcceptsCalendar(j)
               \/ \E j \in Upstream, d \in {"deferred", "suppressed", "expired"} :
                    TickRecordsCalendar(j, d)
               \/ TickStep
               \/ \E j \in ScheduledJobs : ApiCancel(j) \/ ChainDeadline(j)
               \/ UNCHANGED chainVars
        PROVE  Goal
    <2>1. UNCHANGED <<threads, handler, manifest>>
      BY <1>5 DEF StartServing, TickReconciles, DispatcherCrash, ChainTime, ServeIdle,
         TickAcceptsCalendar, TickRecordsCalendar, TickStep, TickValidates, TickBlocks,
         TickDecides, TickConsumes, ApiCancel, ChainDeadline, chainVars, fileVars
    <2> QED BY <1>a, <2>1
  <1> QED
    BY <1>1, <1>2, <1>3, <1>4, <1>5 DEF ChainNext, ServeStep

LEMMA EventsStayTyped ==
  ASSUME EventsTyped, ProcessesTyped, [ChainNext]_chainVars
  PROVE  EventsTyped' /\ ProcessesTyped'
  <1> DEFINE Goal == EventsTyped' /\ ProcessesTyped'
  <1> USE CoordinationAssumption, ChainAssumption
  <1>a. ASSUME UNCHANGED <<event, tick, serving, crashes>> PROVE Goal
    BY <1>a DEF EventsTyped, ProcessesTyped
  <1>1. CASE StartServing
    BY <1>1 DEF StartServing, EventsTyped, ProcessesTyped
  <1>2. CASE WorkerCrash \/ DispatcherCrash
    <2>1. EventsTyped' /\ crashes' \in 0..MaxCrashes
      BY <1>2 DEF WorkerCrash, DispatcherCrash, EventsTyped, ProcessesTyped
    <2>2. serving' = FALSE \/ serving' = serving
      BY <1>2 DEF WorkerCrash, DispatcherCrash
    <2>3. serving' \in BOOLEAN
      BY <2>2, Zenon DEF ProcessesTyped
    <2> QED BY <2>1, <2>3 DEF ProcessesTyped
  <1>3. ASSUME NEW t \in threads, NEW appended \in BOOLEAN, NEW written \in BOOLEAN,
               AppendDependencyEvent(t, appended, written)
        PROVE  Goal
    BY <1>3 DEF AppendDependencyEvent, EventsTyped, ProcessesTyped
  <1>4. ASSUME NEW p \in Planners, TickValidates(p) PROVE Goal
    <2>1. Verdict(p) \in {"ready", "blocked"}
      BY <1>4 DEF TickValidates, Verdict
    <2> QED BY <1>4, <2>1 DEF TickValidates, EventsTyped, ProcessesTyped
  <1>5. ASSUME NEW p \in Planners, TickDecides(p) PROVE Goal
    BY <1>5 DEF TickDecides, EventsTyped, ProcessesTyped
  <1>6. ASSUME NEW p \in Planners, TickBlocks(p) \/ TickConsumes(p) PROVE Goal
    BY <1>6 DEF TickBlocks, TickConsumes, EventsTyped, ProcessesTyped
  <1>7. ASSUME \/ ServeStep \/ TickReconciles \/ ChainTime
               \/ \E t \in threads :
                    \/ ThreadBeats(t) \/ ThreadDeclines(t) \/ ThreadStarts(t)
                    \/ ThreadFails(t) \/ ReleaseStale(t)
                    \/ \E ok \in BOOLEAN : HandlerEnds(t, ok)
                    \/ \E built \in BOOLEAN : BuildManifest(t, built)
                    \/ \E indexed \in BOOLEAN : RecordOutcome(t, indexed)
                    \/ \E noRetry, fits \in BOOLEAN : ReleaseHeld(t, noRetry, fits)
               \/ \E j \in Upstream : TickAcceptsCalendar(j)
               \/ \E j \in Upstream, d \in {"deferred", "suppressed", "expired"} :
                    TickRecordsCalendar(j, d)
               \/ \E j \in ScheduledJobs : ApiCancel(j) \/ ChainDeadline(j)
               \/ UNCHANGED chainVars
        PROVE  Goal
    <2>1. UNCHANGED <<event, tick, serving, crashes>>
      BY <1>7 DEF ServeStep, ServeClaim, ServeIdle, TickReconciles, ChainTime, ThreadBeats,
         ThreadDeclines, ThreadStarts, ThreadFails, ReleaseStale, HandlerEnds, BuildManifest,
         RecordOutcome, ReleaseHeld, TickAcceptsCalendar, TickRecordsCalendar, ApiCancel, ChainDeadline,
         chainVars
    <2> QED BY <1>a, <2>1
  <1> QED
    BY <1>1, <1>2, <1>3, <1>4, <1>5, <1>6, <1>7 DEF ChainNext, ThreadStep, TickStep

-----------------------------------------------------------------------------
(* Threads and runs.  A run has a thread only once it was claimed and until  *)
(* that thread, or the restart that ends it, gives its verdict: a run that    *)
(* waits has none, so a claim starts the only one; and a completed run has    *)
(* none, so nobody writes its directory again.                                *)

Live == {"running", "failed", "dead_letter", "interrupted", "cancelled"}

EarnedBy(j) == handler[j] = [try |-> claims[j], ok |-> TRUE]

ThreadInv ==
  \A t \in threads :
    /\ t.job \in ScheduledJobs
    /\ t.claim = claims[t.job]
    /\ jobStatus[t.job] \in Live
    /\ t.ok => EarnedBy(t.job)

EvidenceInv ==
  \A j \in ScheduledJobs :
    /\ ~modelDone[j]
    /\ evidence[j] => EarnedBy(j) /\ \A t \in threads : t.job = j => t.phase = "recorded"
    /\ jobStatus[j] = "completed" => EarnedBy(j)

RunInv ==
  /\ ~serving => threads = {}
  /\ ThreadInv
  /\ OneThreadPerRun
  /\ EvidenceInv

(* Steps of others than the threads: no verdict turns to completed and nobody  *)
(* goes back to the queue while a thread is alive.                             *)
Calm ==
  /\ UNCHANGED <<threads, serving, handler, claims, modelDone>>
  /\ \A j \in Jobs : jobStatus[j] \in Live => jobStatus'[j] \in Live
  /\ \A j \in Jobs : jobStatus'[j] = "completed" => jobStatus[j] = "completed"
  /\ \A j \in Jobs : evidence'[j] => evidence[j]

LEMMA CalmKeeps ==
  ASSUME RunInv, Calm
  PROVE  RunInv'
  <1> USE CoordinationAssumption
  <1>1. (~serving => threads = {})' /\ OneThreadPerRun'
    BY DEF RunInv, Calm, OneThreadPerRun
  <1>2. ThreadInv'
    BY DEF RunInv, Calm, ThreadInv, EarnedBy
  <1>3. EvidenceInv'
    BY DEF RunInv, Calm, EvidenceInv, EarnedBy
  <1> QED BY <1>1, <1>2, <1>3 DEF RunInv

(* A thread goes on, or leaves: only its own run, handler.json and evidence     *)
(* change.                                                                     *)
LEMMA ThreadKeeps ==
  ASSUME TypeOK, RunInv, NEW t \in threads,
         threads' \subseteq (threads \ {t})
           \union {u \in Thread : u.job = t.job /\ u.claim = t.claim
                                  /\ (u.ok => EarnedBy(t.job)')
                                  /\ (evidence'[t.job] => u.phase = "recorded")},
         \A u, v \in threads' : u \notin threads \ {t} /\ v \notin threads \ {t} => u = v,
         UNCHANGED <<jobStatus, serving, claims, modelDone>>,
         evidence'[t.job] => EarnedBy(t.job)',
         \A j \in Jobs : j # t.job => handler'[j] = handler[j] /\ evidence'[j] = evidence[j],
         serving
  PROVE  RunInv'
  <1> USE CoordinationAssumption
  <1>a. ASSUME NEW u \in threads \ {t} PROVE u.job # t.job
    BY <1>a DEF RunInv, OneThreadPerRun
  <1>b. ASSUME NEW u \in threads', u \notin threads \ {t}
        PROVE  /\ u.job = t.job /\ u.claim = t.claim /\ (u.ok => EarnedBy(t.job)')
               /\ (evidence'[t.job] => u.phase = "recorded")
    BY <1>b
  <1>1. (~serving => threads = {})'
    OBVIOUS
  <1>2. OneThreadPerRun'
    <2> SUFFICES ASSUME NEW u \in threads', NEW v \in threads', u.job = v.job PROVE u = v
      BY DEF OneThreadPerRun
    <2>1. CASE u \in threads \ {t} /\ v \in threads \ {t}
      BY <2>1 DEF RunInv, OneThreadPerRun
    <2>2. CASE u \notin threads \ {t} /\ v \notin threads \ {t}
      BY <2>2
    <2>3. CASE u \in threads \ {t} /\ v \notin threads \ {t}
      BY <1>a, <1>b, <2>3
    <2>4. CASE u \notin threads \ {t} /\ v \in threads \ {t}
      BY <1>a, <1>b, <2>4
    <2> QED BY <2>1, <2>2, <2>3, <2>4
  <1>3. ThreadInv'
    <2> SUFFICES ASSUME NEW u \in threads'
                 PROVE  /\ u.job \in ScheduledJobs
                        /\ u.claim = claims[u.job]
                        /\ jobStatus[u.job] \in Live
                        /\ u.ok => EarnedBy(u.job)'
      BY DEF ThreadInv
    <2>1. CASE u \in threads \ {t}
      <3>1. /\ u.job \in ScheduledJobs /\ u.claim = claims[u.job]
            /\ jobStatus[u.job] \in Live /\ (u.ok => EarnedBy(u.job))
        BY <2>1 DEF RunInv, ThreadInv
      <3>2. handler'[u.job] = handler[u.job]
        BY <1>a, <2>1, <3>1
      <3> QED BY <3>1, <3>2 DEF EarnedBy
    <2>2. CASE u \notin threads \ {t}
      BY <1>b, <2>2 DEF RunInv, ThreadInv
    <2> QED BY <2>1, <2>2
  <1>4. EvidenceInv'
    <2> SUFFICES ASSUME NEW j \in ScheduledJobs
                 PROVE  /\ ~modelDone[j]
                        /\ evidence'[j] => /\ EarnedBy(j)'
                                           /\ \A u \in threads' : u.job = j => u.phase = "recorded"
                        /\ jobStatus[j] = "completed" => EarnedBy(j)'
      BY DEF EvidenceInv
    <2>a. /\ j \in Jobs /\ ~modelDone[j]
          /\ evidence[j] => EarnedBy(j) /\ \A u \in threads : u.job = j => u.phase = "recorded"
          /\ jobStatus[j] = "completed" => EarnedBy(j)
      BY DEF RunInv, EvidenceInv
    <2>1. CASE j = t.job
      <3>1. jobStatus[j] # "completed"
        BY <2>1 DEF RunInv, ThreadInv, Live
      <3>2. \A u \in threads' : u.job = j => u \notin threads \ {t}
        BY <1>a, <2>1
      <3> QED BY <1>b, <2>a, <2>1, <3>1, <3>2
    <2>2. CASE j # t.job
      <3>1. handler'[j] = handler[j] /\ evidence'[j] = evidence[j]
        BY <2>a, <2>2
      <3>2. EarnedBy(j)' <=> EarnedBy(j)
        BY <3>1 DEF EarnedBy
      <3>3. \A u \in threads' : u.job = j => u \in threads
        BY <1>b, <2>2
      <3> QED BY <2>a, <3>1, <3>2, <3>3
    <2> QED BY <2>1, <2>2
  <1> QED BY <1>1, <1>2, <1>3, <1>4 DEF RunInv

(* An event that is no success leaves no evidence, unless there was some and   *)
(* recovery does not read it any more.                                         *)
LEMMA LogEventChanges ==
  ASSUME TypeOK, NEW j \in Jobs, NEW done, LogEvent(j, done)
  PROVE  /\ UNCHANGED <<jobStatus, runStatus, claims, modelDone, lease>>
         /\ \A k \in Jobs : k # j => evidence'[k] = evidence[k]
         /\ evidence'[j] => done \/ evidence[j]
  BY DEF LogEvent, AppendRunEvent, coordinationVars, vars, rowVars, slotVars, TypeOK

(* Every step of a thread keeps what the threads know.                         *)
LEMMA ThreadStepKeeps ==
  ASSUME TypeOK, ThreadsTyped, FilesTyped, SlotInv, RunInv, NEW t \in threads,
         ThreadStep(t) \/ ThreadBeats(t)
  PROVE  RunInv'
  <1> USE CoordinationAssumption
  <1>t. /\ t \in Thread /\ t.job \in Jobs /\ t.job \in ScheduledJobs /\ t.claim = claims[t.job]
        /\ t.ok \in BOOLEAN /\ t.lost \in BOOLEAN
        /\ jobStatus[t.job] \in Live /\ (t.ok => EarnedBy(t.job)) /\ serving
    BY DEF ThreadsTyped, Thread, RunInv, ThreadInv
  <1>e. evidence[t.job] => t.phase = "recorded"
    BY <1>t DEF RunInv, EvidenceInv
  <1>v. evidence[t.job] => EarnedBy(t.job)
    BY <1>t DEF RunInv, EvidenceInv
  (* The thread becomes u and writes no file; u is still right.                *)
  <1>m. ASSUME NEW u \in Thread, u.job = t.job, u.claim = t.claim, u.ok => t.ok,
               Becomes(t, u), UNCHANGED <<handler, serving>>,
               UNCHANGED <<jobStatus, claims, modelDone>>,
               \A j \in Jobs : j # t.job => evidence'[j] = evidence[j],
               evidence'[t.job] => t.ok /\ u.phase = "recorded"
        PROVE  RunInv'
    <2>1. EarnedBy(t.job)' <=> EarnedBy(t.job)
      BY <1>m DEF EarnedBy
    <2>2. evidence'[t.job] => EarnedBy(t.job)'
      BY <1>m, <1>t, <2>1
    <2>3. threads' = (threads \ {t}) \union {u}
      BY <1>m DEF Becomes
    <2> QED BY <1>m, <1>t, <2>1, <2>2, <2>3, ThreadKeeps
  (* The thread leaves.                                                        *)
  <1>l. ASSUME threads' = threads \ {t}, UNCHANGED <<handler, serving>>,
               UNCHANGED <<jobStatus, claims, modelDone>>,
               \A j \in Jobs : j # t.job => evidence'[j] = evidence[j],
               evidence'[t.job] => evidence[t.job]
        PROVE  RunInv'
    <2>1. EarnedBy(t.job)' <=> EarnedBy(t.job)
      BY <1>l DEF EarnedBy
    <2> QED BY <1>l, <1>t, <1>v, <2>1, ThreadKeeps
  <1>1. CASE ThreadDeclines(t)
    BY <1>1, <1>l DEF ThreadDeclines, coordinationVars, vars, fileVars
  <1>2. CASE ReleaseStale(t)
    <2>1. LogEvent(t.job, FALSE) /\ threads' = threads \ {t} /\ UNCHANGED <<handler, serving>>
      BY <1>2 DEF ReleaseStale, fileVars
    <2> QED BY <1>t, <1>l, <2>1, LogEventChanges
  <1>3. CASE ThreadStarts(t)
    <2> DEFINE u == [t EXCEPT !.phase = "handler"]
    <2>1. u \in Thread /\ u.job = t.job /\ u.claim = t.claim /\ u.ok = t.ok
      BY <1>t DEF Thread
    <2>2. LogEvent(t.job, FALSE) /\ Becomes(t, u) /\ UNCHANGED <<handler, serving>>
      BY <1>3 DEF ThreadStarts, fileVars
    <2>3. ~evidence[t.job]
      BY <1>3, <1>e DEF ThreadStarts
    <2> HIDE DEF u
    <2> QED BY <1>t, <1>m, <2>1, <2>2, <2>3, LogEventChanges
  <1>4. CASE ThreadFails(t)
    <2> DEFINE u == [t EXCEPT !.phase = "recorded", !.ok = FALSE]
    <2>1. u \in Thread /\ u.job = t.job /\ u.claim = t.claim /\ ~u.ok
      BY <1>t DEF Thread
    <2>2. LogEvent(t.job, FALSE) /\ Becomes(t, u) /\ UNCHANGED <<handler, serving>>
      BY <1>4 DEF ThreadFails, fileVars
    <2>3. ~evidence[t.job]
      BY <1>4, <1>e DEF ThreadFails
    <2> HIDE DEF u
    <2> QED BY <1>t, <1>m, <2>1, <2>2, <2>3, LogEventChanges
  <1>5. ASSUME NEW ok \in BOOLEAN, HandlerEnds(t, ok) PROVE RunInv'
    <2> DEFINE u == [t EXCEPT !.phase = "evidence", !.ok = ok]
    <2>1. u \in Thread /\ u.job = t.job /\ u.claim = t.claim
      BY <1>t DEF Thread
    <2>2. u.ok = ok
      BY <1>t DEF Thread
    <2>3. /\ handler' = [handler EXCEPT ![t.job] = [try |-> t.claim, ok |-> ok]]
          /\ threads' = (threads \ {t}) \union {u}
          /\ UNCHANGED <<jobStatus, claims, modelDone, evidence, serving>>
      BY <1>5 DEF HandlerEnds, Becomes, coordinationVars, vars
    <2>4. handler'[t.job] = [try |-> t.claim, ok |-> ok]
          /\ \A j \in Jobs : j # t.job => handler'[j] = handler[j]
      BY <1>t, <2>3 DEF FilesTyped
    <2>5. ~evidence[t.job]
      BY <1>5, <1>e DEF HandlerEnds
    <2>6. u.ok => EarnedBy(t.job)'
      <3>1. ok => handler'[t.job] = [try |-> claims[t.job], ok |-> TRUE]
        BY <1>t, <2>4
      <3> QED BY <2>2, <2>3, <3>1 DEF EarnedBy
    <2> HIDE DEF u
    <2> QED BY <1>t, <2>1, <2>3, <2>4, <2>5, <2>6, ThreadKeeps
  <1>6. ASSUME NEW appended \in BOOLEAN, NEW written \in BOOLEAN,
               AppendDependencyEvent(t, appended, written)
        PROVE  RunInv'
    <2> DEFINE u == [t EXCEPT !.phase = "event", !.ok = t.ok /\ written]
    <2>1. (t.ok /\ written) \in BOOLEAN
      OBVIOUS
    <2>2. u \in Thread /\ u.job = t.job /\ u.claim = t.claim
      BY <1>t, <2>1 DEF Thread
    <2>3. u.ok = (t.ok /\ written)
      BY <1>t, <2>1 DEF Thread
    <2>4. Becomes(t, u) /\ serving' = serving
      BY <1>6, <1>t DEF AppendDependencyEvent, Becomes, Thread
    <2>5. ~evidence[t.job]
      BY <1>6, <1>e DEF AppendDependencyEvent
    <2>6. CASE written
      <3>1. LogEvent(t.job, FALSE) /\ UNCHANGED handler
        BY <1>6, <2>6 DEF AppendDependencyEvent
      <3>2. UNCHANGED <<jobStatus, claims, modelDone>>
            /\ (\A j \in Jobs : j # t.job => evidence'[j] = evidence[j])
            /\ (evidence'[t.job] => evidence[t.job])
        BY <1>t, <3>1, LogEventChanges
      <3>3. u.ok => EarnedBy(t.job)'
        <4>1. u.ok => t.ok
          BY <2>3
        <4> QED BY <1>t, <3>1, <3>2, <4>1 DEF EarnedBy
      <3> HIDE DEF u
      <3> QED BY <1>t, <2>2, <2>4, <2>5, <3>1, <3>2, <3>3, ThreadKeeps DEF Becomes
    <2>7. CASE ~written
      <3>1. handler' = [handler EXCEPT ![t.job] = [try |-> t.claim, ok |-> FALSE]]
            /\ UNCHANGED coordinationVars
        BY <1>6, <2>7 DEF AppendDependencyEvent
      <3>2. UNCHANGED <<jobStatus, claims, modelDone, evidence>>
        BY <3>1 DEF coordinationVars, vars
      <3>3. \A j \in Jobs : j # t.job => handler'[j] = handler[j]
        BY <1>t, <3>1 DEF FilesTyped
      <3>4. ~u.ok
        BY <2>3, <2>7
      <3> HIDE DEF u
      <3> QED BY <1>t, <2>2, <2>4, <2>5, <3>2, <3>3, <3>4, ThreadKeeps DEF Becomes
    <2> QED BY <2>6, <2>7
  <1>10. ASSUME NEW built \in BOOLEAN, BuildManifest(t, built) PROVE RunInv'
    <2> DEFINE u == [t EXCEPT !.phase = IF built THEN "built" ELSE "unbuilt"]
    <2>1. u \in Thread /\ u.job = t.job /\ u.claim = t.claim /\ u.ok = t.ok
      BY <1>t DEF Thread
    <2>2. Becomes(t, u) /\ UNCHANGED <<handler, serving>> /\ UNCHANGED coordinationVars
      BY <1>10 DEF BuildManifest
    <2>3. ~evidence[t.job]
      BY <1>10, <1>e DEF BuildManifest
    <2>4. UNCHANGED <<jobStatus, claims, modelDone, evidence>>
      BY <2>2 DEF coordinationVars, vars
    <2> HIDE DEF u
    <2> QED BY <1>m, <2>1, <2>2, <2>3, <2>4
  <1>7. ASSUME NEW indexed \in BOOLEAN, RecordOutcome(t, indexed) PROVE RunInv'
    <2> DEFINE u == [t EXCEPT !.phase = "recorded", !.ok = t.ok /\ indexed]
    <2>1. (t.ok /\ indexed) \in BOOLEAN
      OBVIOUS
    <2>2. u \in Thread /\ u.job = t.job /\ u.claim = t.claim /\ u.phase = "recorded"
      BY <1>t, <2>1 DEF Thread
    <2>3. u.ok => t.ok
      BY <1>t, <2>1 DEF Thread
    <2>4. /\ Becomes(t, u)
          /\ LogEvent(t.job, t.ok /\ indexed)
          /\ UNCHANGED <<handler, serving>>
      BY <1>7, <1>t DEF RecordOutcome, Becomes, Thread, fileVars
    <2>5. ~evidence[t.job]
      BY <1>7, <1>e DEF RecordOutcome
    <2>6. UNCHANGED <<jobStatus, claims, modelDone>>
          /\ (\A j \in Jobs : j # t.job => evidence'[j] = evidence[j])
          /\ (evidence'[t.job] => t.ok)
      BY <1>t, <2>4, <2>5, LogEventChanges
    <2> HIDE DEF u
    <2> QED BY <1>m, <2>2, <2>3, <2>4, <2>6
  <1>8. ASSUME NEW noRetry \in BOOLEAN, NEW fits \in BOOLEAN, ReleaseHeld(t, noRetry, fits)
        PROVE  RunInv'
    <2>s. PICK s \in Slots :
            Holds(t, s)
            /\ Release(s, IF t.ok THEN "completed" ELSE "failed", noRetry, fits, TRUE)
      BY <1>8 DEF ReleaseHeld
    <2> DEFINE status == IF t.ok THEN "completed" ELSE "failed"
               effective == EffectiveStatus(t.job, status, noRetry, fits)
    <2>1. RunOf(s) = t.job
      BY <2>s DEF Holds, RunOf
    <2>2. /\ jobStatus' = [jobStatus EXCEPT ![t.job] = effective]
          /\ evidence' = [evidence EXCEPT ![t.job] = FALSE]
          /\ UNCHANGED <<claims, modelDone>>
      BY <2>s, <2>1 DEF Release
    <2>3. threads' = threads \ {t} /\ UNCHANGED <<handler, serving>>
      BY <1>8 DEF ReleaseHeld, fileVars
    <2>4. effective = "completed" => t.ok
      BY DEF EffectiveStatus
    <2>5. \A u \in threads' : u.job # t.job /\ u \in threads
      BY <2>3 DEF RunInv, OneThreadPerRun
    <2> HIDE DEF effective
    <2>6. /\ jobStatus'[t.job] = effective /\ ~evidence'[t.job]
          /\ \A j \in Jobs : j # t.job =>
               jobStatus'[j] = jobStatus[j] /\ evidence'[j] = evidence[j]
      BY <1>t, <2>2 DEF TypeOK
    <2>7. \A j : EarnedBy(j)' <=> EarnedBy(j)
      BY <2>2, <2>3 DEF EarnedBy
    <2>8. (~serving => threads = {})' /\ OneThreadPerRun'
      BY <1>t, <2>3, <2>5 DEF RunInv, OneThreadPerRun
    <2>9. ThreadInv'
      <3> SUFFICES ASSUME NEW u \in threads'
                   PROVE  /\ u.job \in ScheduledJobs
                          /\ u.claim = claims'[u.job]
                          /\ jobStatus'[u.job] \in Live
                          /\ u.ok => EarnedBy(u.job)'
        BY DEF ThreadInv
      <3>1. /\ u.job \in ScheduledJobs /\ u.claim = claims[u.job]
            /\ jobStatus[u.job] \in Live /\ (u.ok => EarnedBy(u.job)) /\ u.job # t.job
        BY <2>5 DEF RunInv, ThreadInv
      <3> QED BY <2>2, <2>6, <2>7, <3>1
    <2>10. EvidenceInv'
      <3> SUFFICES ASSUME NEW j \in ScheduledJobs
                   PROVE  /\ ~modelDone'[j]
                          /\ evidence'[j] =>
                               /\ EarnedBy(j)'
                               /\ \A u \in threads' : u.job = j => u.phase = "recorded"
                          /\ jobStatus'[j] = "completed" => EarnedBy(j)'
        BY DEF EvidenceInv
      <3>1. /\ j \in Jobs /\ ~modelDone[j]
            /\ evidence[j] => EarnedBy(j) /\ \A u \in threads : u.job = j => u.phase = "recorded"
            /\ jobStatus[j] = "completed" => EarnedBy(j)
        BY DEF RunInv, EvidenceInv
      <3>2. CASE j = t.job
        BY <1>t, <2>2, <2>4, <2>6, <2>7, <3>1, <3>2
      <3>3. CASE j # t.job
        BY <2>2, <2>5, <2>6, <2>7, <3>1, <3>3
      <3> QED BY <3>2, <3>3
    <2> QED BY <2>8, <2>9, <2>10 DEF RunInv
  <1>9. CASE ThreadBeats(t)
    <2>1. CASE UNCHANGED threads
      <3>1. UNCHANGED <<jobStatus, claims, modelDone, evidence, handler, serving, threads>>
        BY <1>9, <2>1 DEF ThreadBeats, Heartbeat, rowVars, logVars, fileVars, coordinationVars, vars
      <3> QED BY <3>1, CalmKeeps DEF Calm
    <2>2. CASE ~UNCHANGED threads
      <3> DEFINE u == [t EXCEPT !.lost = TRUE]
      <3>1. u \in Thread /\ u.job = t.job /\ u.claim = t.claim /\ u.ok = t.ok
        BY <1>t DEF Thread
      <3>2. Becomes(t, u) /\ UNCHANGED <<handler, serving>> /\ UNCHANGED coordinationVars
        BY <1>9, <2>2 DEF ThreadBeats, fileVars
      <3>3. ~evidence[t.job]
        BY <1>9, <1>e DEF ThreadBeats
      <3>4. UNCHANGED <<jobStatus, claims, modelDone, evidence>>
        BY <3>2 DEF coordinationVars, vars
      <3> HIDE DEF u
      <3> QED BY <1>m, <3>1, <3>2, <3>3, <3>4
    <2> QED BY <2>1, <2>2
  <1> QED
    BY <1>1, <1>2, <1>3, <1>4, <1>5, <1>6, <1>7, <1>8, <1>9, <1>10 DEF ThreadStep

(* A claim takes a job from the queue, where it has no thread.                  *)
LEMMA ClaimKeeps ==
  ASSUME TypeOK, SlotInv, RunInv,
         NEW j \in ScheduledJobs, NEW s \in Slots, NEW open \in BOOLEAN, ServeClaim(j, s, open)
  PROVE  RunInv'
  <1> USE CoordinationAssumption
  <1> DEFINE new == [job |-> j, claim |-> claims[j] + 1, lost |-> FALSE, ok |-> FALSE,
                     phase |-> "claimed"]
  <1>1. /\ ClaimNext(j, s, open) /\ serving
        /\ threads' = threads \union {new}
        /\ UNCHANGED <<serving, handler>>
    BY DEF ServeClaim, PoolHasRoom, fileVars
  <1>2. /\ jobStatus' = [SweptJob EXCEPT ![j] = "running"]
        /\ claims' = [claims EXCEPT ![j] = @ + 1]
        /\ evidence' = [k \in Jobs |-> evidence[k] /\ k # j /\ k \notin Overdue]
        /\ modelDone' = modelDone
        /\ SweptJob[j] \in Waiting
    BY <1>1 DEF ClaimNext, Eligible
  <1>3. jobStatus[j] \in Waiting
    BY <1>2 DEF SweptJob, Waiting
  <1>4. \A u \in threads : u.job # j
    BY <1>3 DEF RunInv, ThreadInv, Live, Waiting
  <1>5. new.job = j /\ new.claim = claims'[j] /\ ~new.ok
    BY <1>2 DEF TypeOK
  <1>6. /\ jobStatus'[j] = "running" /\ claims'[j] = claims[j] + 1 /\ ~evidence'[j]
        /\ \A k \in Jobs : k # j =>
             /\ jobStatus'[k] = SweptJob[k] /\ claims'[k] = claims[k]
             /\ evidence'[k] => evidence[k]
    BY <1>2, SweepTypes DEF TypeOK
  <1>7. \A k \in Jobs : jobStatus[k] \in Live => SweptJob[k] \in Live
    BY DEF SweptJob, Live
  <1>8. \A k \in Jobs : SweptJob[k] = "completed" => jobStatus[k] = "completed"
    BY DEF SweptJob
  <1> HIDE DEF new
  <1>9. (~serving => threads = {})'
    BY <1>1
  <1>10. OneThreadPerRun'
    BY <1>1, <1>4, <1>5 DEF RunInv, OneThreadPerRun
  <1>11. \A k \in Jobs : k # j => (EarnedBy(k)' <=> EarnedBy(k))
    BY <1>1, <1>6 DEF EarnedBy
  <1>12. ThreadInv'
    <2> SUFFICES ASSUME NEW u \in threads'
                 PROVE  /\ u.job \in ScheduledJobs
                        /\ u.claim = claims'[u.job]
                        /\ jobStatus'[u.job] \in Live
                        /\ u.ok => EarnedBy(u.job)'
      BY DEF ThreadInv
    <2>1. CASE u = new
      BY <1>5, <1>6, <2>1 DEF Live
    <2>2. CASE u \in threads
      <3>1. /\ u.job \in ScheduledJobs /\ u.claim = claims[u.job] /\ u.job # j
            /\ jobStatus[u.job] \in Live /\ (u.ok => EarnedBy(u.job))
        BY <1>4, <2>2 DEF RunInv, ThreadInv
      <3> QED BY <1>6, <1>7, <1>11, <3>1
    <2> QED BY <1>1, <2>1, <2>2
  <1>13. EvidenceInv'
    <2> SUFFICES ASSUME NEW k \in ScheduledJobs
                 PROVE  /\ ~modelDone'[k]
                        /\ evidence'[k] =>
                             /\ EarnedBy(k)'
                             /\ \A u \in threads' : u.job = k => u.phase = "recorded"
                        /\ jobStatus'[k] = "completed" => EarnedBy(k)'
      BY DEF EvidenceInv
    <2>1. /\ k \in Jobs /\ ~modelDone[k]
          /\ evidence[k] => EarnedBy(k) /\ \A u \in threads : u.job = k => u.phase = "recorded"
          /\ jobStatus[k] = "completed" => EarnedBy(k)
      BY DEF RunInv, EvidenceInv
    <2>2. CASE k = j
      BY <1>2, <1>6, <2>1, <2>2
    <2>3. CASE k # j
      BY <1>1, <1>2, <1>5, <1>6, <1>8, <1>11, <2>1, <2>3
    <2> QED BY <2>2, <2>3
  <1> QED BY <1>9, <1>10, <1>12, <1>13 DEF RunInv

(* The operations that take no verdict back and write no evidence.              *)
LEMMA CalmSteps ==
  ASSUME TypeOK, SlotInv,
         \/ \E open \in BOOLEAN : ClaimNothing(open)
         \/ \E k \in ScheduledJobs : AcceptScheduled(k) \/ Cancel(k)
         \/ \E k \in ScheduledJobs, d \in {"deferred", "suppressed", "expired"} :
              RecordDecision(k, d)
         \/ ReconcileOccurrences
         \/ \E s \in Slots : LeaseLapses(s)
         \/ \E k \in Jobs : DeadlinePasses(k) \/ BackoffEnds(k)
         \/ UNCHANGED vars
  PROVE  /\ UNCHANGED <<claims, modelDone>>
         /\ \A j \in Jobs : jobStatus[j] \in Live => jobStatus'[j] \in Live
         /\ \A j \in Jobs : jobStatus'[j] = "completed" => jobStatus[j] = "completed"
         /\ \A j \in Jobs : evidence'[j] => evidence[j]
  <1> USE CoordinationAssumption
  <1>1. ASSUME NEW open \in BOOLEAN, ClaimNothing(open)
        PROVE  /\ UNCHANGED <<claims, modelDone>>
               /\ jobStatus' = SweptJob
               /\ \A j \in Jobs : evidence'[j] => evidence[j]
    BY <1>1 DEF ClaimNothing
  <1>2. \A j \in Jobs : /\ jobStatus[j] \in Live => SweptJob[j] \in Live
                        /\ SweptJob[j] = "completed" => jobStatus[j] = "completed"
    BY DEF SweptJob, Live
  <1>3. ASSUME NEW k \in ScheduledJobs, AcceptScheduled(k)
        PROVE  /\ UNCHANGED <<claims, modelDone, evidence>>
               /\ jobStatus[k] = "absent" /\ jobStatus' = [jobStatus EXCEPT ![k] = "queued"]
    BY <1>3 DEF AcceptScheduled, logVars
  <1>4. ASSUME NEW k \in ScheduledJobs, Cancel(k)
        PROVE  /\ UNCHANGED <<claims, modelDone>>
               /\ evidence' = [evidence EXCEPT ![k] = FALSE]
               /\ jobStatus' = [jobStatus EXCEPT ![k] = "cancelled"]
    BY <1>4 DEF Cancel
  <1>5. CASE \E open \in BOOLEAN : ClaimNothing(open)
    BY <1>1, <1>2, <1>5
  <1>6. CASE \E k \in ScheduledJobs : AcceptScheduled(k)
    BY <1>3, <1>6 DEF TypeOK, Live
  <1>7. CASE \E k \in ScheduledJobs : Cancel(k)
    BY <1>4, <1>7 DEF TypeOK, Live
  <1>8. ASSUME \/ \E k \in ScheduledJobs, d \in {"deferred", "suppressed", "expired"} :
                    RecordDecision(k, d)
               \/ ReconcileOccurrences
               \/ \E s \in Slots : LeaseLapses(s)
               \/ \E k \in Jobs : DeadlinePasses(k) \/ BackoffEnds(k)
               \/ UNCHANGED vars
        PROVE  UNCHANGED <<jobStatus, claims, modelDone, evidence>>
    BY <1>8 DEF RecordDecision, ReconcileOccurrences, LeaseLapses, DeadlinePasses,
                BackoffEnds, rowVars, logVars, vars
  <1> QED BY <1>5, <1>6, <1>7, <1>8

(* A restart finds no thread alive and completes only on evidence.              *)
LEMMA RestartKeeps ==
  ASSUME TypeOK, SlotInv, RunInv, StartServing
  PROVE  RunInv'
  <1> USE CoordinationAssumption
  <1>1. threads = {} /\ UNCHANGED <<threads, handler>> /\ StartupReconcile
    BY DEF StartServing, RunInv, fileVars
  <1>2. UNCHANGED <<claims, modelDone>> /\ \A j \in Jobs : evidence'[j] => evidence[j]
    BY <1>1 DEF StartupReconcile
  <1>3. \A j \in Jobs : EarnedBy(j)' <=> EarnedBy(j)
    BY <1>1, <1>2 DEF EarnedBy
  <1>4. ASSUME NEW j \in ScheduledJobs, jobStatus'[j] = "completed", jobStatus[j] # "completed"
        PROVE  evidence[j]
    <2>1. j \in Jobs /\ ~modelDone[j]
      BY DEF RunInv, EvidenceInv
    <2>2. Resolved(j) = "completed" => evidence[j]
      BY <2>1 DEF Resolved, HasEvidence
    <2>3. Repaired(j) => evidence[j]
      BY DEF Repaired, HasEvidence
    <2>4. jobStatus'[j] =
            IF j \in DroppedRuns /\ jobStatus[j] = "running" THEN Resolved(j)
            ELSE IF Repaired(j) /\ jobStatus[j] \in {"interrupted", "failed", "dead_letter"}
                 THEN "completed"
            ELSE jobStatus[j]
      BY <1>1, <2>1 DEF StartupReconcile
    <2> QED BY <1>4, <2>2, <2>3, <2>4
  <1>5. EvidenceInv'
    BY <1>1, <1>2, <1>3, <1>4 DEF RunInv, EvidenceInv
  <1>6. ThreadInv' /\ OneThreadPerRun' /\ (~serving => threads = {})'
    BY <1>1 DEF ThreadInv, OneThreadPerRun
  <1> QED BY <1>5, <1>6 DEF RunInv

LEMMA RunStep ==
  ASSUME TypeOK, ThreadsTyped, FilesTyped, SlotInv, RunInv, [ChainNext]_chainVars
  PROVE  RunInv'
  <1> USE CoordinationAssumption, ChainAssumption
  <1>1. CASE StartServing
    BY <1>1, RestartKeeps
  <1>2. ASSUME NEW j \in ScheduledJobs, NEW s \in Slots, NEW open \in BOOLEAN,
               ServeClaim(j, s, open)
        PROVE  RunInv'
    BY <1>2, ClaimKeeps
  <1>3. CASE WorkerCrash
    <2>1. threads' = {} /\ UNCHANGED <<jobStatus, claims, modelDone, evidence, handler>>
      BY <1>3 DEF WorkerCrash, coordinationVars, vars, fileVars
    <2> QED BY <2>1 DEF RunInv, ThreadInv, OneThreadPerRun, EvidenceInv, EarnedBy
  <1>4. ASSUME NEW t \in threads, ThreadStep(t) \/ ThreadBeats(t) PROVE RunInv'
    BY <1>4, ThreadStepKeeps
  <1>5. ASSUME \/ \E open \in BOOLEAN : ServeIdle(open)
               \/ \E j \in Upstream : TickAcceptsCalendar(j)
               \/ \E j \in Upstream, d \in {"deferred", "suppressed", "expired"} :
                    TickRecordsCalendar(j, d)
               \/ TickReconciles \/ TickStep \/ DispatcherCrash \/ ChainTime
               \/ \E j \in ScheduledJobs : ApiCancel(j) \/ ChainDeadline(j)
               \/ UNCHANGED chainVars
        PROVE  RunInv'
    <2>1. UNCHANGED <<threads, serving, handler>>
      BY <1>5 DEF ServeIdle, TickAcceptsCalendar, TickRecordsCalendar, TickReconciles, TickStep,
         TickValidates, TickBlocks, TickDecides, TickConsumes, DispatcherCrash, ApiCancel,
         ChainDeadline, ChainTime, chainVars, fileVars
    <2>2. \/ \E open \in BOOLEAN : ClaimNothing(open)
          \/ \E k \in ScheduledJobs : AcceptScheduled(k) \/ Cancel(k)
          \/ \E k \in ScheduledJobs, d \in {"deferred", "suppressed", "expired"} :
               RecordDecision(k, d)
          \/ ReconcileOccurrences
          \/ \E s \in Slots : LeaseLapses(s)
          \/ \E k \in Jobs : DeadlinePasses(k) \/ BackoffEnds(k)
          \/ UNCHANGED vars
      <3>1. \A p \in Planners : TickDecides(p) =>
              RecordDecision(p, "expired") \/ AcceptScheduled(p) \/ UNCHANGED vars
        BY DEF TickDecides, coordinationVars
      <3>2. TickStep => \/ UNCHANGED vars
                        \/ \E p \in Planners : TickDecides(p)
        BY DEF TickStep, TickValidates, TickBlocks, TickConsumes, coordinationVars
      <3>3. CASE TickStep
        BY <3>1, <3>2, <3>3 DEF Planners
      <3>4. CASE \/ DispatcherCrash \/ UNCHANGED chainVars
        BY <3>4 DEF DispatcherCrash, coordinationVars, chainVars
      <3>5. CASE \/ \E open \in BOOLEAN : ServeIdle(open)
                 \/ \E j \in Upstream : TickAcceptsCalendar(j)
                 \/ \E j \in Upstream, d \in {"deferred", "suppressed", "expired"} :
                      TickRecordsCalendar(j, d)
                 \/ TickReconciles \/ ChainTime
                 \/ \E j \in ScheduledJobs : ApiCancel(j) \/ ChainDeadline(j)
        BY <3>5 DEF ServeIdle, TickAcceptsCalendar, TickRecordsCalendar, TickReconciles,
                    ChainTime, ApiCancel, ChainDeadline
      <3> QED BY <1>5, <3>3, <3>4, <3>5
    <2> QED BY <2>1, <2>2, CalmSteps, CalmKeeps DEF Calm
  <1> QED
    BY <1>1, <1>2, <1>3, <1>4, <1>5 DEF ChainNext, ServeStep

-----------------------------------------------------------------------------
(* Dependency events.  What a tick found out about an event stays true until  *)
(* it acts on it: a completed upstream run stays completed, and without a      *)
(* thread nobody rewrites its files.                                           *)

Fed(p) == runStatus[Feeder[p]] = "completed" /\ Intact(p)

Decided(p) == jobStatus[p] # "absent" \/ occ[p] = "expired"

TickInv ==
  \A p \in Planners :
    /\ jobStatus[p] # "absent" => Fed(p)
    /\ event[p] = "consumed" => Decided(p)
    /\ tick = [phase |-> "ready", planner |-> p] => Fed(p)
    /\ tick = [phase |-> "decided", planner |-> p] => Decided(p)

LEMMA FedLasts ==
  ASSUME TypeOK, ThreadsTyped, FilesTyped, SlotInv, RunInv, [ChainNext]_chainVars,
         NEW p \in Planners, Fed(p), SlotInv'
  PROVE  Fed(p)'
  <1> USE CoordinationAssumption, ChainAssumption
  <1> DEFINE f == Feeder[p]
  <1>1. f \in Upstream /\ f \in ScheduledJobs /\ f \in Jobs
    OBVIOUS
  <1>2. jobStatus[f] = "completed"
    BY <1>1 DEF Fed, SlotInv, JobRunAgreement
  <1>3. [Next]_vars
    BY ChainIsCoordination DEF ThreadJobs, RunInv, ThreadInv, ThreadsTyped, Thread
  <1>4. jobStatus'[f] = "completed"
    BY <1>1, <1>2, <1>3, VerdictsKept DEF VerdictStep, Settled, vars
  <1>5. \A t \in threads : t.job # f
    BY <1>2 DEF RunInv, ThreadInv, Live
  <1>6. handler'[f] = handler[f] /\ manifest'[f] = manifest[f]
    <2>1. ASSUME NEW t \in threads, NEW ok \in BOOLEAN, HandlerEnds(t, ok)
          PROVE  handler'[f] = handler[f] /\ manifest'[f] = manifest[f]
      BY <2>1, <1>1, <1>5 DEF HandlerEnds, FilesTyped
    <2>2. ASSUME NEW t \in threads, NEW appended \in BOOLEAN, NEW written \in BOOLEAN,
                 AppendDependencyEvent(t, appended, written)
          PROVE  handler'[f] = handler[f] /\ manifest'[f] = manifest[f]
      BY <2>2, <1>1, <1>5 DEF AppendDependencyEvent, FilesTyped
    <2>4. ASSUME NEW t \in threads, NEW built \in BOOLEAN, BuildManifest(t, built)
          PROVE  handler'[f] = handler[f] /\ manifest'[f] = manifest[f]
      BY <2>4, <1>1, <1>5 DEF BuildManifest, FilesTyped
    <2>3. ASSUME \/ StartServing \/ ServeStep \/ WorkerCrash \/ TickReconciles \/ TickStep
                 \/ DispatcherCrash \/ ChainTime
                 \/ \E t \in threads :
                      \/ ThreadBeats(t) \/ ThreadDeclines(t) \/ ThreadStarts(t)
                      \/ ThreadFails(t) \/ ReleaseStale(t)
                      \/ \E indexed \in BOOLEAN : RecordOutcome(t, indexed)
                      \/ \E noRetry, fits \in BOOLEAN : ReleaseHeld(t, noRetry, fits)
                 \/ \E j \in Upstream : TickAcceptsCalendar(j)
                 \/ \E j \in Upstream, d \in {"deferred", "suppressed", "expired"} :
                      TickRecordsCalendar(j, d)
                 \/ \E j \in ScheduledJobs : ApiCancel(j) \/ ChainDeadline(j)
                 \/ UNCHANGED chainVars
          PROVE  UNCHANGED <<handler, manifest>>
      BY <2>3 DEF StartServing, ServeStep, ServeClaim, ServeIdle, WorkerCrash, TickReconciles,
         TickStep, TickValidates, TickBlocks, TickDecides, TickConsumes, DispatcherCrash,
         ChainTime, ThreadBeats, ThreadDeclines, ThreadStarts, ThreadFails, ReleaseStale,
         RecordOutcome, ReleaseHeld, TickAcceptsCalendar, TickRecordsCalendar, ApiCancel,
         ChainDeadline, chainVars, fileVars
    <2> QED BY <2>1, <2>2, <2>3, <2>4 DEF ChainNext, ThreadStep
  <1> QED BY <1>1, <1>4, <1>6 DEF Fed, Intact, SlotInv, JobRunAgreement

(* A decision on an occurrence is never taken back.                             *)
LEMMA DecidedLasts ==
  ASSUME TypeOK, SlotInv, [Next]_vars, NEW p \in ScheduledJobs, Decided(p)
  PROVE  Decided(p)'
  <1> USE CoordinationAssumption
  <1>0. p \in Jobs
    OBVIOUS
  <1>1. CASE jobStatus[p] # "absent"
    <2>1. \/ PublicState'[p] = PublicState[p]
          \/ <<PublicState[p], PublicState'[p]>> \in Lifecycle!Edges
      BY <1>0, EdgeStep
    <2>2. PublicState[p] # "absent"
      BY <1>0, <1>1 DEF PublicState, Waiting
    <2>3. PublicState'[p] # "absent"
      BY <2>1, <2>2 DEF Lifecycle!Edges
    <2> QED BY <1>0, <2>3 DEF Decided, PublicState
  <1>2. CASE jobStatus[p] = "absent" /\ occ[p] = "expired" /\ jobStatus'[p] = "absent"
    <2>a. runStatus[p] = "absent"
      BY <1>0, <1>2 DEF SlotInv, JobRunAgreement
    <2>b. p \notin ReapedRuns /\ p \notin DroppedRuns /\ p \notin Overdue
      BY <1>2, <2>a, LeaseParts DEF ReapedRuns, Reaped, DroppedRuns, Dropped, Overdue, Waiting,
         SlotInv, SlotRunAgreement
    <2>c. SweptOcc[p] = "expired"
      BY <1>2, <2>b DEF SweptOcc
    <2>1. ASSUME NEW k \in ScheduledJobs, AcceptScheduled(k) PROVE occ'[p] = "expired"
      BY <1>2, <2>1 DEF AcceptScheduled, TypeOK
    <2>2. ASSUME NEW k \in ScheduledJobs, NEW d \in {"deferred", "suppressed", "expired"},
                 RecordDecision(k, d)
          PROVE  occ'[p] = "expired"
      BY <1>2, <2>2 DEF RecordDecision, TypeOK
    <2>3. ASSUME NEW k \in Jobs, NEW s \in Slots, NEW open \in BOOLEAN, ClaimNext(k, s, open)
          PROVE  occ'[p] = "expired"
      <3>1. k # p
        BY <1>0, <1>2, <2>3, SweepTypes DEF ClaimNext
      <3> QED BY <2>3, <2>c, <3>1 DEF ClaimNext, WithOcc
    <2>4. ASSUME NEW open \in BOOLEAN, ClaimNothing(open) PROVE occ'[p] = "expired"
      BY <2>4, <2>c DEF ClaimNothing
    <2>5. ASSUME NEW s \in Slots, NEW status \in {"completed", "failed", "retry_wait"},
                 NEW noRetry \in BOOLEAN, NEW fits \in BOOLEAN, NEW increment \in BOOLEAN,
                 Release(s, status, noRetry, fits, increment)
          PROVE  occ'[p] = "expired"
      <3>1. RunOf(s) # p
        BY <2>5, <2>a, LeaseParts DEF Release, SlotInv, SlotRunAgreement
      <3>2. \E st : occ' = WithOcc(occ, RunOf(s), st)
        BY <2>5 DEF Release
      <3> QED BY <1>2, <3>1, <3>2 DEF WithOcc
    <2>6. ASSUME NEW k \in Jobs, Cancel(k) PROVE occ'[p] = "expired"
      <3>1. k # p
        BY <2>6, <2>a DEF Cancel
      <3> QED BY <1>2, <2>6, <3>1 DEF Cancel, WithOcc
    <2>7. ASSUME StartupReconcile PROVE occ'[p] = "expired"
      BY <1>2, <2>7, <2>a, <2>b DEF StartupReconcile, Repaired
    <2>8. ASSUME ReconcileOccurrences PROVE occ'[p] = "expired"
      BY <1>2, <2>8 DEF ReconcileOccurrences, Reconciled
    <2>9. ASSUME \/ \E k \in Jobs : AcceptManual(k)
                 \/ \E s \in Slots : Heartbeat(s)
                 \/ \E k \in Jobs, done \in BOOLEAN : AppendRunEvent(k, done)
                 \/ \E k \in Jobs, done \in BOOLEAN : ModelCheckpoint(k, done)
                 \/ \E s \in Slots : LeaseLapses(s)
                 \/ \E k \in Jobs : DeadlinePasses(k)
                 \/ \E k \in Jobs : BackoffEnds(k)
                 \/ \E b \in BOOLEAN : SetFreeze(b)
                 \/ \E b \in BOOLEAN : SetAdmission(b)
                 \/ UNCHANGED vars
          PROVE  occ' = occ
      BY <2>9 DEF AcceptManual, Heartbeat, AppendRunEvent, ModelCheckpoint, LeaseLapses,
         DeadlinePasses, BackoffEnds, SetFreeze, SetAdmission, vars, rowVars
    <2> QED
      BY <1>2, <2>1, <2>2, <2>3, <2>4, <2>5, <2>6, <2>7, <2>8, <2>9 DEF Next, Decided
  <1>3. CASE jobStatus'[p] # "absent"
    BY <1>3 DEF Decided
  <1> QED BY <1>1, <1>2, <1>3 DEF Decided

(* Only the tick that decides on a planner accepts it.                          *)
LEMMA OnlyDecisionsAccept ==
  ASSUME TypeOK, SlotInv, RunInv, [ChainNext]_chainVars,
         NEW p \in Planners, jobStatus[p] = "absent", jobStatus'[p] # "absent"
  PROVE  TickDecides(p)
  <1> USE CoordinationAssumption, ChainAssumption
  <1>a. p \in ScheduledJobs /\ p \in Jobs /\ p \notin Upstream /\ runStatus[p] = "absent"
    BY DEF Planners, SlotInv, JobRunAgreement
  <1>b. SweptJob[p] = "absent"
    BY <1>a DEF SweptJob, Overdue, Waiting
  <1>1. CASE StartServing
    BY <1>1, <1>a DEF StartServing, StartupReconcile
  <1>2. CASE ServeStep
    <2>1. ASSUME NEW j \in ScheduledJobs, NEW s \in Slots, NEW open \in BOOLEAN,
                 ServeClaim(j, s, open)
          PROVE  FALSE
      <3>1. SweptJob[j] \in Waiting /\ jobStatus' = [SweptJob EXCEPT ![j] = "running"]
        BY <2>1 DEF ServeClaim, ClaimNext, Eligible
      <3> QED BY <1>a, <1>b, <3>1, SweepTypes DEF Waiting
    <2>2. ASSUME NEW open \in BOOLEAN, ServeIdle(open) PROVE FALSE
      BY <2>2, <1>a, <1>b DEF ServeIdle, ClaimNothing
    <2> QED BY <1>2, <2>1, <2>2 DEF ServeStep
  <1>3. ASSUME NEW t \in threads, ThreadStep(t) \/ ThreadBeats(t) PROVE FALSE
    <2>1. t.job # p /\ t.job \in Jobs
      BY DEF RunInv, ThreadInv, Live
    <2>2. ASSUME NEW noRetry \in BOOLEAN, NEW fits \in BOOLEAN, ReleaseHeld(t, noRetry, fits)
          PROVE  FALSE
      <3>1. PICK s \in Slots :
              /\ Holds(t, s)
              /\ \E st : jobStatus' = [jobStatus EXCEPT ![RunOf(s)] = st]
        BY <2>2 DEF ReleaseHeld, Release
      <3>2. RunOf(s) = t.job
        BY <3>1 DEF Holds, RunOf
      <3> QED BY <1>a, <2>1, <3>1, <3>2 DEF TypeOK
    <2>3. ASSUME ~\E noRetry, fits \in BOOLEAN : ReleaseHeld(t, noRetry, fits) PROVE FALSE
      BY <1>3, <2>3 DEF ThreadStep, ThreadBeats, ThreadDeclines, ThreadStarts, ThreadFails,
         HandlerEnds, BuildManifest, AppendDependencyEvent, RecordOutcome, ReleaseStale, LogEvent,
         AppendRunEvent, Heartbeat, rowVars, coordinationVars, vars
    <2> QED BY <2>2, <2>3
  <1>4. ASSUME NEW j \in Upstream, TickAcceptsCalendar(j) PROVE FALSE
    BY <1>4, <1>a DEF TickAcceptsCalendar, AcceptScheduled, TypeOK
  <1>5. ASSUME NEW k \in Planners, TickDecides(k) PROVE k = p
    BY <1>5, <1>a DEF TickDecides, AcceptScheduled, RecordDecision, TypeOK, coordinationVars, vars
  <1>6. ASSUME NEW j \in ScheduledJobs, ApiCancel(j) PROVE FALSE
    BY <1>6, <1>a DEF ApiCancel, Cancel, TypeOK
  <1>7. ASSUME \/ WorkerCrash \/ DispatcherCrash \/ TickReconciles \/ ChainTime
               \/ \E j \in Upstream, d \in {"deferred", "suppressed", "expired"} :
                    TickRecordsCalendar(j, d)
               \/ \E k \in Planners : TickValidates(k) \/ TickBlocks(k) \/ TickConsumes(k)
               \/ \E j \in ScheduledJobs : ChainDeadline(j)
               \/ UNCHANGED chainVars
        PROVE  FALSE
    BY <1>7 DEF WorkerCrash, DispatcherCrash, TickReconciles, ReconcileOccurrences, ChainTime,
       LeaseLapses, BackoffEnds, TickRecordsCalendar, RecordDecision, TickValidates, TickBlocks,
       TickConsumes, ChainDeadline, DeadlinePasses, rowVars, coordinationVars, chainVars, vars
  <1> QED
    BY <1>1, <1>2, <1>3, <1>4, <1>5, <1>6, <1>7 DEF ChainNext, TickStep

(* How the tick and the events change.                                          *)
LEMMA TickChanges ==
  ASSUME EventsTyped, [ChainNext]_chainVars, NEW p \in Planners
  PROVE  /\ event'[p] = "consumed" =>
              event[p] = "consumed" \/ tick = [phase |-> "decided", planner |-> p]
         /\ tick' = [phase |-> "ready", planner |-> p] =>
              tick = tick' \/ (TickValidates(p) /\ Verdict(p) = "ready")
         /\ tick' = [phase |-> "decided", planner |-> p] => tick = tick' \/ TickDecides(p)
  <1> DEFINE Goal ==
        /\ event'[p] = "consumed" =>
             event[p] = "consumed" \/ tick = [phase |-> "decided", planner |-> p]
        /\ tick' = [phase |-> "ready", planner |-> p] =>
             tick = tick' \/ (TickValidates(p) /\ Verdict(p) = "ready")
        /\ tick' = [phase |-> "decided", planner |-> p] => tick = tick' \/ TickDecides(p)
  <1>1. ASSUME tick' = tick, event' = event PROVE Goal
    BY <1>1
  <1>2. ASSUME NEW t \in threads, NEW appended \in BOOLEAN, NEW written \in BOOLEAN,
               AppendDependencyEvent(t, appended, written)
        PROVE  Goal
    <2>1. tick' = tick
      BY <1>2 DEF AppendDependencyEvent
    <2>2. event'[p] = event[p] \/ event'[p] = "pending"
      BY <1>2 DEF AppendDependencyEvent
    <2> QED BY <2>1, <2>2
  <1>3. ASSUME NEW k \in Planners, TickValidates(k) PROVE Goal
    <2>1. event' = event /\ tick' = [phase |-> Verdict(k), planner |-> k]
      BY <1>3 DEF TickValidates
    <2>2. Verdict(k) # "decided"
      BY DEF Verdict
    <2>3. tick'.phase = Verdict(k) /\ tick'.planner = k
      BY <2>1
    <2>4. tick' = [phase |-> "ready", planner |-> p] => k = p /\ Verdict(k) = "ready"
      BY <2>3
    <2>5. tick' # [phase |-> "decided", planner |-> p]
      BY <2>2, <2>3
    <2> QED BY <1>3, <2>1, <2>4, <2>5
  <1>4. ASSUME NEW k \in Planners, TickBlocks(k) PROVE Goal
    <2>1. event'[p] = "consumed" => event[p] = "consumed"
      BY <1>4 DEF TickBlocks, EventsTyped
    <2>2. tick'.phase = "idle"
      BY <1>4 DEF TickBlocks, Idle
    <2> QED BY <2>1, <2>2
  <1>5. ASSUME NEW k \in Planners, TickDecides(k) PROVE Goal
    <2>1. event' = event /\ tick' = [phase |-> "decided", planner |-> k]
      BY <1>5 DEF TickDecides
    <2>2. tick'.phase = "decided" /\ tick'.planner = k
      BY <2>1
    <2>3. tick' = [phase |-> "decided", planner |-> p] => k = p
      BY <2>2
    <2> QED BY <1>5, <2>1, <2>2, <2>3
  <1>6. ASSUME NEW k \in Planners, TickConsumes(k) PROVE Goal
    <2>1. /\ tick = [phase |-> "decided", planner |-> k]
          /\ event' = [event EXCEPT ![k] = IF @ = "pending" THEN "consumed" ELSE @]
      BY <1>6 DEF TickConsumes
    <2>2. event'[p] = "consumed" => event[p] = "consumed" \/ k = p
      BY <2>1 DEF EventsTyped
    <2>3. tick'.phase = "idle"
      BY <1>6 DEF TickConsumes, Idle
    <2> QED BY <2>1, <2>2, <2>3
  <1>7. CASE DispatcherCrash
    <2>1. event' = event /\ tick'.phase = "idle"
      BY <1>7 DEF DispatcherCrash, Idle
    <2> QED BY <2>1
  <1>8. ASSUME \/ StartServing \/ ServeStep \/ WorkerCrash \/ TickReconciles \/ ChainTime
               \/ \E t \in threads :
                    \/ ThreadBeats(t) \/ ThreadDeclines(t) \/ ThreadStarts(t)
                    \/ ThreadFails(t) \/ ReleaseStale(t)
                    \/ \E ok \in BOOLEAN : HandlerEnds(t, ok)
                    \/ \E built \in BOOLEAN : BuildManifest(t, built)
                    \/ \E indexed \in BOOLEAN : RecordOutcome(t, indexed)
                    \/ \E noRetry, fits \in BOOLEAN : ReleaseHeld(t, noRetry, fits)
               \/ \E j \in Upstream : TickAcceptsCalendar(j)
               \/ \E j \in Upstream, d \in {"deferred", "suppressed", "expired"} :
                    TickRecordsCalendar(j, d)
               \/ \E j \in ScheduledJobs : ApiCancel(j) \/ ChainDeadline(j)
               \/ UNCHANGED chainVars
        PROVE  Goal
    <2>1. tick' = tick /\ event' = event
      BY <1>8 DEF StartServing, ServeStep, ServeClaim, ServeIdle, WorkerCrash, TickReconciles,
         ChainTime, ThreadBeats, ThreadDeclines, ThreadStarts, ThreadFails, ReleaseStale,
         HandlerEnds, BuildManifest, RecordOutcome, ReleaseHeld, TickAcceptsCalendar, TickRecordsCalendar,
         ApiCancel, ChainDeadline, chainVars
    <2> QED BY <1>1, <2>1
  <1> QED
    BY <1>2, <1>3, <1>4, <1>5, <1>6, <1>7, <1>8 DEF ChainNext, ThreadStep, TickStep

LEMMA TickInvStep ==
  ASSUME TypeOK, ThreadsTyped, FilesTyped, EventsTyped, SlotInv, SlotInv', RunInv, TickInv,
         [Next]_vars, [ChainNext]_chainVars
  PROVE  TickInv'
  <1> USE CoordinationAssumption, ChainAssumption
  <1> SUFFICES ASSUME NEW p \in Planners
               PROVE  /\ jobStatus'[p] # "absent" => Fed(p)'
                      /\ event'[p] = "consumed" => Decided(p)'
                      /\ tick' = [phase |-> "ready", planner |-> p] => Fed(p)'
                      /\ tick' = [phase |-> "decided", planner |-> p] => Decided(p)'
    BY DEF TickInv
  <1>a. /\ jobStatus[p] # "absent" => Fed(p)
        /\ event[p] = "consumed" => Decided(p)
        /\ tick = [phase |-> "ready", planner |-> p] => Fed(p)
        /\ tick = [phase |-> "decided", planner |-> p] => Decided(p)
    BY DEF TickInv
  <1>b. p \in ScheduledJobs /\ p \in Jobs
    BY DEF Planners
  <1>f. Fed(p) => Fed(p)'
    BY FedLasts
  <1>d. Decided(p) => Decided(p)'
    BY <1>b, DecidedLasts
  <1>1. ASSUME jobStatus'[p] # "absent" PROVE Fed(p)'
    <2>1. CASE jobStatus[p] = "absent"
      <3>1. TickDecides(p)
        BY <1>1, <2>1, OnlyDecisionsAccept
      <3>2. Fed(p)
        BY <1>a, <3>1 DEF TickDecides
      <3> QED BY <1>f, <3>2
    <2>2. CASE jobStatus[p] # "absent"
      BY <1>a, <1>f, <2>2
    <2> QED BY <2>1, <2>2
  <1>2. ASSUME event'[p] = "consumed" PROVE Decided(p)'
    BY <1>2, <1>a, <1>d, TickChanges
  <1>3. ASSUME tick' = [phase |-> "ready", planner |-> p] PROVE Fed(p)'
    <2>1. CASE tick = tick'
      BY <1>3, <1>a, <1>f, <2>1
    <2>2. CASE Verdict(p) = "ready"
      BY <1>f, <2>2 DEF Verdict, Fed
    <2> QED BY <1>3, <2>1, <2>2, TickChanges
  <1>4. ASSUME tick' = [phase |-> "decided", planner |-> p] PROVE Decided(p)'
    <2>1. CASE tick = tick'
      BY <1>4, <1>a, <1>d, <2>1
    <2>2. CASE TickDecides(p)
      <3>1. CASE RecordDecision(p, "expired")
        BY <1>b, <3>1 DEF RecordDecision, TypeOK, Decided
      <3>2. CASE AcceptScheduled(p)
        BY <1>b, <3>2 DEF AcceptScheduled, TypeOK, Decided
      <3>3. CASE jobStatus[p] # "absent"
        BY <1>d, <3>3 DEF Decided
      <3> QED BY <2>2, <3>1, <3>2, <3>3 DEF TickDecides
    <2> QED BY <1>4, <2>1, <2>2, TickChanges
  <1> QED BY <1>1, <1>2, <1>3, <1>4

-----------------------------------------------------------------------------
(* The theorems *)

ChainInv ==
  /\ TypeOK /\ ThreadsTyped /\ FilesTyped /\ EventsTyped /\ ProcessesTyped
  /\ SlotInv /\ RunInv /\ TickInv

LEMMA ChainInvInit == ChainInit => ChainInv
  <1> SUFFICES ASSUME ChainInit PROVE ChainInv
    OBVIOUS
  <1> USE CoordinationAssumption, ChainAssumption
  <1>1. TypeOK /\ ThreadsTyped /\ FilesTyped /\ EventsTyped /\ ProcessesTyped
    BY ChainInitType DEF ChainTypeOK, ThreadsTyped, FilesTyped, EventsTyped, ProcessesTyped
  <1>2. Init /\ SlotInv
    BY InitSlots DEF ChainInit
  <1>3. RunInv
    BY <1>2 DEF ChainInit, Init, RunInv, ThreadInv, OneThreadPerRun, EvidenceInv
  <1>4. TickInv
    <2>1. tick.phase = "idle"
      BY DEF ChainInit, Idle
    <2> QED BY <1>2, <2>1 DEF ChainInit, Init, TickInv, Planners
  <1> QED BY <1>1, <1>2, <1>3, <1>4 DEF ChainInv

LEMMA ChainInvStep == ChainInv /\ [ChainNext]_chainVars => ChainInv' /\ [Next]_vars
  <1> SUFFICES ASSUME ChainInv, [ChainNext]_chainVars PROVE ChainInv' /\ [Next]_vars
    OBVIOUS
  <1>1. [Next]_vars
    BY ChainIsCoordination DEF ThreadJobs, ChainInv, RunInv, ThreadInv, ThreadsTyped, Thread
  <1>2. TypeOK' /\ SlotInv'
    BY <1>1, TypeStep, SlotStep DEF ChainInv
  <1>3. ThreadsTyped' /\ FilesTyped' /\ EventsTyped' /\ ProcessesTyped'
    BY ThreadsStayTyped, EventsStayTyped DEF ChainInv
  <1>4. RunInv' /\ TickInv'
    BY <1>1, <1>2, RunStep, TickInvStep DEF ChainInv
  <1> QED BY <1>1, <1>2, <1>3, <1>4 DEF ChainInv

(* Type correctness of the chain.                                               *)
THEOREM ChainTypeCorrect == ChainSpec => []ChainTypeOK
  <1>1. ChainInv => ChainTypeOK
    BY DEF ChainInv, ChainTypeOK, ThreadsTyped, FilesTyped, EventsTyped, ProcessesTyped
  <1> QED BY <1>1, ChainInvInit, ChainInvStep, PTL DEF ChainSpec

(* The chain implements the coordination database: a worker with threads that   *)
(* outlive their lease, and a dispatcher that dies between two transactions, do  *)
(* nothing to it that its own specification does not allow.  Whatever was        *)
(* proved of Spec (slots and runs, keys, budget, verdicts, occurrences, the      *)
(* refinement of JobLifecycle) holds of the chain.                              *)
THEOREM ChainRefinesCoordination == ChainSpec => Spec
  <1>1. ChainInit => Init
    BY DEF ChainInit
  <1> QED BY <1>1, ChainInvInit, ChainInvStep, PTL DEF ChainSpec, Spec

(* A run never executes in two threads (claim_next, serve, process_claim).      *)
THEOREM ThreadsAreAlone == ChainSpec => []OneThreadPerRun
  <1>1. ChainInv => OneThreadPerRun
    BY DEF ChainInv, RunInv
  <1> QED BY <1>1, ChainInvInit, ChainInvStep, PTL DEF ChainSpec

(* No run is completed but on the handler.json of its last attempt, by the       *)
(* release of its thread or by startup_reconcile.                               *)
THEOREM CompletionsAreEarned == ChainSpec => []CompletionIsEarned
  <1>1. ChainInv => CompletionIsEarned
    BY CoordinationAssumption
    DEF ChainInv, SlotInv, JobRunAgreement, RunInv, EvidenceInv, EarnedBy, CompletionIsEarned
  <1> QED BY <1>1, ChainInvInit, ChainInvStep, PTL DEF ChainSpec

(* A planner exists only for a completed upstream run whose manifest is still     *)
(* the one its event names (_dependency_validation, the tick of the dispatcher). *)
THEOREM PlannersAreFed == ChainSpec => []PlannerHasItsManifest
  <1>1. ChainInv => PlannerHasItsManifest
    BY DEF ChainInv, TickInv, Fed, PlannerHasItsManifest
  <1> QED BY <1>1, ChainInvInit, ChainInvStep, PTL DEF ChainSpec

(* A consumed event has its occurrence decided, crashes included.                *)
THEOREM ConsumedEventsAreDecided == ChainSpec => []ConsumedIsDecided
  <1>1. ChainInv => ConsumedIsDecided
    BY DEF ChainInv, TickInv, Decided, ConsumedIsDecided
  <1> QED BY <1>1, ChainInvInit, ChainInvStep, PTL DEF ChainSpec

-----------------------------------------------------------------------------
(* Analyses run on Coordination too.                                           *)

LEMMA AnalysisIsCoordination ==
  ASSUME [AnalysisNext]_modelVars
  PROVE  [Next]_vars
  <1> USE CoordinationAssumption DEF ManualJobs
  <1>1. CASE Restart \/ ServeAnalyses \/ AnalysisTime
    BY <1>1 DEF Restart, StartServing, ServeAnalyses, ServeAnalysis, ServeNoAnalysis, ServeIdle,
                AnalysisTime, Next
  <1>2. CASE AnalystsCrash
    BY <1>2 DEF AnalystsCrash, WorkerCrash, coordinationVars
  <1>3. ASSUME NEW j \in ManualJobs,
               AcceptAnalysis(j) \/ CancelAnalysis(j) \/ RetryIsDue(j) \/ WindowCloses(j)
        PROVE  [Next]_vars
    BY <1>3 DEF AcceptAnalysis, CancelAnalysis, ApiCancel, RetryIsDue, WindowCloses, chainVars,
                vars, Next
  <1>4. ASSUME NEW j, NEW done \in BOOLEAN, Checkpoint(j, done) PROVE [Next]_vars
    <2>1. ModelCheckpoint(j, done) \/ UNCHANGED coordinationVars
      BY <1>4 DEF Checkpoint
    <2>2. CASE UNCHANGED coordinationVars
      BY <2>2 DEF coordinationVars
    <2>3. CASE ModelCheckpoint(j, done)
      <3>1. j \in Jobs
        BY <2>3 DEF ModelCheckpoint
      <3> QED BY <2>3, <3>1 DEF Next
    <2> QED BY <2>1, <2>2, <2>3
  <1>5. ASSUME NEW t \in analysts, ReleaseAnalysis(t) PROVE [Next]_vars
    <2>1. ASSUME NEW s \in Slots,
                 Release(s, ReleasedAs(t.outcome), FALSE, FALSE, t.outcome = "result_unknown")
          PROVE  [Next]_vars
      <3>1. ReleasedAs(t.outcome) \in {"completed", "failed", "retry_wait"}
        BY <2>1 DEF Release, ReleaseStatus
      <3>2. (t.outcome = "result_unknown") \in BOOLEAN
        OBVIOUS
      <3> QED BY <2>1, <3>1, <3>2 DEF Next
    <2> QED BY <1>5, <2>1 DEF ReleaseAnalysis, coordinationVars
  <1>6. ASSUME NEW t \in analysts, AnalystStep(t) \/ AnalystBeats(t) PROVE [Next]_vars
    <2>1. CASE ReadsSource(t) \/ AnalystFails(t) \/ Refused(t) \/ RecordLimit(t)
               \/ \E answer \in Answers \union {"unsent"} : CallEnds(t, answer)
      BY <2>1 DEF ReadsSource, AnalystFails, Refused, RecordLimit, CallEnds, chainVars, vars
    <2>2. CASE BeginModelCall(t)
      BY <1>4, <2>2 DEF BeginModelCall
    <2>3. CASE FinishModelCall(t)
      <3>1. \A status : IsAnswer(status) \in BOOLEAN
        BY DEF IsAnswer
      <3> QED BY <1>4, <2>3, <3>1 DEF FinishModelCall, coordinationVars
    <2>4. CASE AnalystBeats(t)
      BY <2>4 DEF AnalystBeats, Next
    <2> QED BY <1>5, <1>6, <2>1, <2>2, <2>3, <2>4 DEF AnalystStep
  <1>7. CASE (\E c \in tokens : TokenExpires(c)) \/ ThrottleEnds \/ UNCHANGED modelVars
    BY <1>7 DEF TokenExpires, ThrottleEnds, modelVars, chainVars, vars
  <1> QED BY <1>1, <1>2, <1>3, <1>6, <1>7 DEF AnalysisNext

Underway == {"running", "interrupted", "cancelled"}

(* What a transaction of others may do to a run accepted by hand: nothing brings  *)
(* it back to wait or to run, and none but its thread or a restart completes it.  *)
Drifts(j) ==
  /\ runStatus[j] \in Underway => runStatus'[j] \in Underway
  /\ runStatus'[j] = "running" => runStatus[j] = "running"
  /\ runStatus'[j] \in Waiting \union {"absent"} => runStatus[j] \in Waiting \union {"absent"}
  /\ runStatus'[j] = "completed" => runStatus[j] = "completed"

LEMMA SweepDrifts ==
  ASSUME TypeOK, SlotInv, NEW j \in Jobs, runStatus'[j] = SweptRun[j]
  PROVE  Drifts(j)
  BY DEF TypeOK, SlotInv, JobRunAgreement, SweptRun, Overdue, Drifts, Underway, Waiting

LEMMA OthersDrift ==
  ASSUME TypeOK, SlotInv, NEW j \in ManualJobs,
         \/ \E k \in ManualJobs : AcceptManual(k) \/ Cancel(k) \/ DeadlinePasses(k) \/ BackoffEnds(k)
         \/ \E open \in BOOLEAN : ClaimNothing(open)
         \/ \E s \in Slots : Heartbeat(s) \/ LeaseLapses(s)
  PROVE  Drifts(j)
  <1>a. j \in Jobs /\ runStatus[j] \in Status
    BY DEF ManualJobs, TypeOK
  <1>b. ASSUME runStatus'[j] = runStatus[j] PROVE Drifts(j)
    BY <1>b DEF Drifts
  <1>1. ASSUME NEW k \in ManualJobs, AcceptManual(k) PROVE Drifts(j)
    <2>1. runStatus[k] = "absent"
      BY <1>1 DEF AcceptManual, SlotInv, JobRunAgreement, ManualJobs
    <2> QED BY <1>1, <1>a, <2>1 DEF AcceptManual, Drifts, Underway, Waiting, TypeOK
  <1>2. ASSUME NEW k \in ManualJobs, Cancel(k) PROVE Drifts(j)
    BY <1>2, <1>a DEF Cancel, Drifts, Underway, Waiting, TypeOK
  <1>3. ASSUME NEW open \in BOOLEAN, ClaimNothing(open) PROVE Drifts(j)
    BY <1>3, <1>a, SweepDrifts DEF ClaimNothing
  <1>4. CASE (\E k \in ManualJobs : DeadlinePasses(k) \/ BackoffEnds(k))
             \/ \E s \in Slots : Heartbeat(s) \/ LeaseLapses(s)
    <2>1. runStatus'[j] = runStatus[j]
      BY <1>4 DEF DeadlinePasses, BackoffEnds, Heartbeat, LeaseLapses, rowVars
    <2> QED BY <1>b, <2>1
  <1> QED BY <1>1, <1>2, <1>3, <1>4

-----------------------------------------------------------------------------
(* Analyses and their calls.  A run that waits has no thread, so a claim starts  *)
(* the only one; that thread calls the model only when no call of the run is     *)
(* out, and every call but the newest is over: it was answered, or counts as     *)
(* unknown against the two a run may have.  A run whose thread left a call as it  *)
(* was never waits again.                                                      *)

Call == [status : CallStatus, answer : {"none", "unsent"} \union Answers]
Asking == {"calling", "limited", "finishing"}

Over(c) == c.status # "running" /\ (c.answer \in {"none", "unknown"} => c.status = "result_unknown")
Quiet(j) == \A n \in DOMAIN calls[j] : Over(calls[j][n])
Unanswered(j) == {n \in DOMAIN calls[j] : calls[j][n].answer \in {"none", "unknown"}}

Answered(j) ==
  /\ calls[j] # <<>>
  /\ calls[j][Len(calls[j])] = [status |-> "completed", answer |-> "good"]

RunCalls(j) ==
  /\ \A n \in DOMAIN calls[j] : n < Len(calls[j]) => Over(calls[j][n])
  /\ Cardinality(Unanswered(j)) <= 2
  /\ runStatus[j] \in Waiting \union {"absent"} => Quiet(j)
  /\ modelDone[j] /\ runStatus[j] \notin Settled => Answered(j)
  /\ runStatus[j] = "completed" => Answered(j)

Fits(outcome, answer) ==
  /\ outcome \in CallStatus \ {"running"}
  /\ outcome = "completed" => answer = "good"
  /\ outcome = "retry_wait" => answer = "429"

\* The call of a thread is the newest of its run, and what it holds of the answer is so.
AsksLast(t) ==
  /\ t.call \in DOMAIN calls[t.job] /\ t.call = Len(calls[t.job])
  /\ calls[t.job][t.call].status = "running"
  /\ t.phase = "calling" => calls[t.job][t.call].answer = "none"
  /\ t.phase # "calling" => Fits(t.outcome, calls[t.job][t.call].answer)

AnalystCalls(t) ==
  /\ t.job \in ManualJobs
  /\ runStatus[t.job] \in Underway
  /\ t.phase \in {"claimed", "source", "ready"} => Quiet(t.job)
  /\ t.phase \in Asking => AsksLast(t)
  /\ t.phase = "releasing" =>
       /\ t.outcome \in {"throttled", "result_unknown", "retry_wait"} => Quiet(t.job)
       /\ t.outcome = "completed" /\ runStatus[t.job] = "running" => Answered(t.job)

AnalystsAlone == \A t, u \in analysts : t.job = u.job => t = u

CallInv ==
  /\ ~serving => analysts = {}
  /\ AnalystsAlone
  /\ \A t \in analysts : AnalystCalls(t)
  /\ \A j \in ManualJobs : RunCalls(j)

CallsTyped == analysts \subseteq Analyst /\ calls \in [Jobs -> Seq(Call)]

LEMMA CallFacts ==
  ASSUME CallsTyped, NEW j \in ManualJobs
  PROVE  /\ j \in Jobs /\ calls[j] \in Seq(Call)
         /\ Len(calls[j]) \in Nat /\ DOMAIN calls[j] = 1..Len(calls[j])
         /\ \A n \in DOMAIN calls[j] : calls[j][n] \in Call
  <1>1. j \in Jobs /\ calls[j] \in Seq(Call)
    BY DEF CallsTyped, ManualJobs
  <1> QED BY <1>1, LenProperties, ElementOfSeq

LEMMA FewUnanswered ==
  ASSUME CallsTyped, NEW j \in ManualJobs
  PROVE  /\ IsFiniteSet(Unanswered(j)) /\ Cardinality(Unanswered(j)) \in Nat
         /\ IsFiniteSet(Unknowns(j)) /\ Cardinality(Unknowns(j)) \in Nat
  <1>1. IsFiniteSet(DOMAIN calls[j])
    BY CallFacts, FS_Interval
  <1>2. Unanswered(j) \subseteq DOMAIN calls[j] /\ Unknowns(j) \subseteq DOMAIN calls[j]
    BY DEF Unanswered, Unknowns
  <1>3. IsFiniteSet(Unanswered(j)) /\ IsFiniteSet(Unknowns(j))
    BY <1>1, <1>2, FS_Subset
  <1> QED BY <1>3, FS_CardinalityType

(* Steps that leave threads and calls alone.                                    *)
LEMMA DriftKeeps ==
  ASSUME CallInv, UNCHANGED <<analysts, calls, serving, modelDone>>,
         \A j \in ManualJobs : runStatus[j] \in Status /\ runStatus'[j] \in Status /\ Drifts(j)
  PROVE  CallInv'
  <1>1. ASSUME NEW j \in ManualJobs PROVE RunCalls(j)'
    <2>1. RunCalls(j) /\ runStatus'[j] \in Status /\ Drifts(j)
      BY DEF CallInv
    <2>2. (Quiet(j)' <=> Quiet(j)) /\ (Answered(j)' <=> Answered(j)) /\ Unanswered(j)' = Unanswered(j)
      BY DEF Quiet, Answered, Unanswered
    <2>3. runStatus'[j] \notin Settled => runStatus[j] \notin Settled
      BY <2>1 DEF Drifts, Status, Settled, Waiting
    <2>4. runStatus'[j] \in Waiting \union {"absent"} => Quiet(j)'
      BY <2>1, <2>2 DEF RunCalls, Drifts
    <2>5. modelDone'[j] /\ runStatus'[j] \notin Settled => Answered(j)'
      BY <2>1, <2>2, <2>3 DEF RunCalls
    <2>6. runStatus'[j] = "completed" => Answered(j)'
      BY <2>1, <2>2 DEF RunCalls, Drifts
    <2>7. /\ \A n \in DOMAIN calls'[j] : n < Len(calls'[j]) => Over(calls'[j][n])
          /\ Cardinality(Unanswered(j)') <= 2
      BY <2>1, <2>2 DEF RunCalls
    <2> QED BY <2>4, <2>5, <2>6, <2>7 DEF RunCalls
  <1>2. ASSUME NEW t \in analysts PROVE AnalystCalls(t)'
    <2>1. AnalystCalls(t) /\ Drifts(t.job)
      BY DEF CallInv, AnalystCalls
    <2>2. /\ Quiet(t.job)' <=> Quiet(t.job)
          /\ Answered(t.job)' <=> Answered(t.job)
          /\ AsksLast(t)' <=> AsksLast(t)
      BY DEF Quiet, Answered, AsksLast
    <2>3. runStatus'[t.job] \in Underway
          /\ (runStatus'[t.job] = "running" => runStatus[t.job] = "running")
      BY <2>1 DEF AnalystCalls, Drifts
    <2> QED BY <2>1, <2>2, <2>3 DEF AnalystCalls
  <1>3. (~serving => analysts = {})' /\ AnalystsAlone'
    BY DEF CallInv, AnalystsAlone
  <1> QED BY <1>1, <1>2, <1>3 DEF CallInv

(* What a thread does stays with its run: only its own record, the calls and the   *)
(* checkpoint of its run change, and the status only when it leaves.              *)
OnlyItsRun(t) ==
  /\ UNCHANGED serving
  /\ \A j \in ManualJobs : j # t.job =>
       calls'[j] = calls[j] /\ runStatus'[j] = runStatus[j] /\ modelDone'[j] = modelDone[j]

LEMMA SameRun ==
  ASSUME NEW j \in ManualJobs, RunCalls(j),
         calls'[j] = calls[j], runStatus'[j] = runStatus[j], modelDone'[j] => modelDone[j]
  PROVE  RunCalls(j)'
  BY DEF RunCalls, Quiet, Answered, Unanswered

LEMMA SameAnalyst ==
  ASSUME NEW t, AnalystCalls(t), calls'[t.job] = calls[t.job], runStatus'[t.job] = runStatus[t.job]
  PROVE  AnalystCalls(t)'
  BY DEF AnalystCalls, Quiet, Answered, AsksLast

LEMMA AnalystLeaves ==
  ASSUME CallInv, NEW t \in analysts, analysts' = analysts \ {t}, OnlyItsRun(t), RunCalls(t.job)'
  PROVE  CallInv'
  <1>1. ASSUME NEW j \in ManualJobs PROVE RunCalls(j)'
    <2>1. CASE j # t.job
      BY <2>1, SameRun DEF CallInv, OnlyItsRun
    <2> QED BY <2>1
  <1>2. ASSUME NEW u \in analysts' PROVE AnalystCalls(u)'
    <2>1. u \in analysts /\ AnalystCalls(u) /\ u.job # t.job
      BY DEF CallInv, AnalystsAlone
    <2>2. u.job \in ManualJobs
      BY <2>1 DEF AnalystCalls
    <2> QED BY <2>1, <2>2, SameAnalyst DEF OnlyItsRun
  <1>3. (~serving => analysts = {})' /\ AnalystsAlone'
    BY DEF CallInv, AnalystsAlone, OnlyItsRun
  <1> QED BY <1>1, <1>2, <1>3 DEF CallInv

LEMMA AnalystGoes ==
  ASSUME CallInv, NEW t \in analysts, NEW u, u.job = t.job,
         analysts' = (analysts \ {t}) \union {u}, OnlyItsRun(t),
         RunCalls(t.job)', AnalystCalls(u)'
  PROVE  CallInv'
  <1>1. ASSUME NEW j \in ManualJobs PROVE RunCalls(j)'
    <2>1. CASE j # t.job
      BY <2>1, SameRun DEF CallInv, OnlyItsRun
    <2> QED BY <2>1
  <1>2. ASSUME NEW v \in analysts' PROVE AnalystCalls(v)'
    <2>1. CASE v \in analysts \ {t}
      <3>1. AnalystCalls(v) /\ v.job # t.job
        BY <2>1 DEF CallInv, AnalystsAlone
      <3>2. v.job \in ManualJobs
        BY <3>1 DEF AnalystCalls
      <3> QED BY <3>1, <3>2, SameAnalyst DEF OnlyItsRun
    <2> QED BY <2>1
  <1>3. (~serving => analysts = {})' /\ AnalystsAlone'
    BY DEF CallInv, AnalystsAlone, OnlyItsRun
  <1> QED BY <1>1, <1>2, <1>3 DEF CallInv

-----------------------------------------------------------------------------
(* The steps of a thread. *)

\* Before, between and after its call.
LEMMA QuietSteps ==
  ASSUME CallsTyped, CallInv, NEW t \in analysts,
         ReadsSource(t) \/ AnalystFails(t) \/ Refused(t) \/ RecordLimit(t)
  PROVE  CallInv'
  <1>1. UNCHANGED <<calls, runStatus, modelDone, serving>>
    BY DEF ReadsSource, AnalystFails, Refused, RecordLimit, chainVars, vars
  <1>2. t \in Analyst /\ AnalystCalls(t) /\ t.job \in ManualJobs /\ RunCalls(t.job)
    BY DEF CallsTyped, CallInv, AnalystCalls
  <1>3. OnlyItsRun(t) /\ RunCalls(t.job)' /\ AnalystCalls(t)'
    BY <1>1, <1>2, SameRun, SameAnalyst DEF OnlyItsRun
  <1>4. CASE analysts' = analysts \ {t}
    BY <1>3, <1>4, AnalystLeaves
  <1>5. ASSUME NEW u, Turns(t, u), u.job = t.job, AnalystCalls(u)' PROVE CallInv'
    BY <1>3, <1>5, AnalystGoes DEF Turns
  <1>6. ASSUME NEW u, u = [t EXCEPT !.phase = "releasing", !.outcome = "failed"], Turns(t, u)
        PROVE  CallInv'
    <2>1. u.job = t.job /\ u.phase = "releasing" /\ u.outcome = "failed"
      BY <1>2, <1>6 DEF Analyst
    <2>2. AnalystCalls(u)'
      BY <1>3, <2>1 DEF AnalystCalls, Asking
    <2> QED BY <1>5, <1>6, <2>1, <2>2
  <1>7. CASE ReadsSource(t) /\ ~(analysts' = analysts \ {t})
    <2>1. PICK u : u = [t EXCEPT !.phase = IF t.phase = "claimed" THEN "source" ELSE "ready"]
      OBVIOUS
    <2>2. Turns(t, u) /\ t.phase \in {"claimed", "source"}
      BY <1>7, <2>1 DEF ReadsSource, Goes
    <2>3. u.job = t.job /\ u.phase \in {"source", "ready"}
      BY <1>2, <2>1 DEF Analyst
    <2>4. AnalystCalls(u)'
      BY <1>3, <2>2, <2>3 DEF AnalystCalls, Asking
    <2> QED BY <1>5, <2>2, <2>3, <2>4
  <1>8. CASE AnalystFails(t)
    BY <1>6, <1>8 DEF AnalystFails, Ends
  <1>9. CASE Refused(t)
    <2>1. CASE Ends(t, "failed")
      BY <1>6, <2>1 DEF Ends
    <2>2. CASE Ends(t, "throttled")
      <3>1. PICK u : u = [t EXCEPT !.phase = "releasing", !.outcome = "throttled"]
        OBVIOUS
      <3>2. u.job = t.job /\ u.phase = "releasing" /\ u.outcome = "throttled"
        BY <1>2, <3>1 DEF Analyst
      <3>3. t.phase = "ready"
        BY <1>9 DEF Refused
      <3>4. AnalystCalls(u)'
        BY <1>3, <3>2, <3>3 DEF AnalystCalls, Asking
      <3> QED BY <1>5, <2>2, <3>1, <3>2, <3>4 DEF Ends
    <2> QED BY <1>9, <2>1, <2>2 DEF Refused
  <1>10. CASE RecordLimit(t)
    <2>1. PICK u : u = [t EXCEPT !.phase = "finishing"]
      OBVIOUS
    <2>2. Turns(t, u) /\ t.phase = "limited"
      BY <1>10, <2>1 DEF RecordLimit, Goes
    <2>3. u.job = t.job /\ u.phase = "finishing" /\ u.outcome = t.outcome /\ u.call = t.call
      BY <1>2, <2>1 DEF Analyst
    <2>4. AnalystCalls(u)'
      BY <1>3, <2>2, <2>3 DEF AnalystCalls, Asking, AsksLast
    <2> QED BY <1>5, <2>2, <2>3, <2>4
  <1> QED BY <1>4, <1>7, <1>8, <1>9, <1>10

LEMMA CheckpointChanges ==
  ASSUME TypeOK, NEW j \in ManualJobs, NEW done \in BOOLEAN, Checkpoint(j, done)
  PROVE  /\ UNCHANGED runStatus
         /\ \A k \in ManualJobs : k # j => modelDone'[k] = modelDone[k]
         /\ runStatus[j] = "running" => modelDone'[j] = done
         /\ runStatus[j] # "running" => modelDone'[j] = modelDone[j]
  BY DEF Checkpoint, ModelCheckpoint, coordinationVars, vars, rowVars, ManualJobs, TypeOK

\* A call is begun while no earlier one is out, and at most one counts as unknown.
LEMMA BeginKeeps ==
  ASSUME TypeOK, CallsTyped, CallInv, NEW t \in analysts, BeginModelCall(t)
  PROVE  CallInv'
  <1> DEFINE j == t.job
             n == Len(calls[j]) + 1
             c == [status |-> "running", answer |-> "none"]
  <1>1. /\ t \in Analyst /\ AnalystCalls(t) /\ j \in ManualJobs /\ j \in Jobs /\ RunCalls(j)
        /\ t.phase = "ready" /\ Quiet(j) /\ runStatus[j] \in Underway /\ ~Closed(j)
    BY DEF CallsTyped, CallInv, AnalystCalls, BeginModelCall, ManualJobs
  <1>2. /\ calls[j] \in Seq(Call) /\ Len(calls[j]) \in Nat /\ DOMAIN calls[j] = 1..Len(calls[j])
        /\ c \in Call
    BY <1>1, CallFacts DEF Call, CallStatus
  <1>3. calls' = [calls EXCEPT ![j] = Append(calls[j], c)]
    BY DEF BeginModelCall
  <1>4. PICK q : q = Append(calls[j], c)
    OBVIOUS
  <1>5. /\ calls'[j] = q /\ q \in Seq(Call) /\ Len(q) = n /\ DOMAIN q = 1..n /\ q[n] = c
        /\ \A m \in 1..Len(calls[j]) : q[m] = calls[j][m]
    BY <1>1, <1>2, <1>3, <1>4, AppendProperties, LenProperties DEF CallsTyped
  <1>6. \A k \in ManualJobs : k # j => calls'[k] = calls[k]
    BY <1>3, CallFacts DEF CallsTyped
  <1>7. /\ UNCHANGED <<runStatus, serving>>
        /\ \A k \in ManualJobs : k # j => modelDone'[k] = modelDone[k]
        /\ runStatus[j] = "running" => modelDone'[j] = FALSE
    BY <1>1, CheckpointChanges DEF BeginModelCall
  <1>8. Cardinality(Unanswered(j)') <= 2
    <2>1. Unanswered(j)' = Unanswered(j) \union {n}
      BY <1>2, <1>5 DEF Unanswered
    <2>2. Unanswered(j) \subseteq Unknowns(j)
      BY <1>1 DEF Unanswered, Unknowns, Quiet, Over
    <2>3. IsFiniteSet(Unanswered(j)) /\ IsFiniteSet(Unknowns(j))
          /\ Cardinality(Unanswered(j)) \in Nat /\ Cardinality(Unknowns(j)) \in Nat
      BY <1>1, FewUnanswered
    <2>4. ~(Cardinality(Unknowns(j)) >= 2)
      BY <1>1 DEF Closed
    <2>5. Cardinality(Unanswered(j)) <= Cardinality(Unknowns(j))
      BY <2>2, <2>3, FS_Subset
    <2>6. n \notin Unanswered(j)
      BY <1>2 DEF Unanswered
    <2>7. Cardinality(Unanswered(j) \union {n}) = Cardinality(Unanswered(j)) + 1
      BY <2>3, <2>6, FS_AddElement
    <2> QED BY <2>1, <2>3, <2>4, <2>5, <2>7
  <1>9. RunCalls(j)'
    <2>1. \A m \in DOMAIN calls'[j] : m < Len(calls'[j]) => Over(calls'[j][m])
      BY <1>1, <1>2, <1>5 DEF Quiet
    <2>2. runStatus'[j] \notin Waiting \union {"absent", "completed"}
      BY <1>1, <1>7 DEF Underway, Waiting
    <2>3. ~(modelDone'[j] /\ runStatus'[j] \notin Settled)
      BY <1>1, <1>7 DEF Underway, Settled
    <2> QED BY <1>8, <2>1, <2>2, <2>3 DEF RunCalls
  <1>10. PICK u : u = [t EXCEPT !.phase = "calling", !.call = n]
    OBVIOUS
  <1>11. u.job = t.job /\ u.phase = "calling" /\ u.call = n
    BY <1>1, <1>10 DEF Analyst
  <1>12. AnalystCalls(u)'
    <2>1. n \in 1..n /\ n > 0
      BY <1>2
    <2>2. AsksLast(u)'
      BY <1>5, <1>11, <2>1 DEF AsksLast
    <2> QED BY <1>1, <1>7, <1>11, <2>2 DEF AnalystCalls, Asking
  <1>13. OnlyItsRun(t)
    BY <1>6, <1>7 DEF OnlyItsRun
  <1>14. analysts' = (analysts \ {t}) \union {u}
    BY <1>10 DEF BeginModelCall, Turns
  <1> QED BY <1>9, <1>11, <1>12, <1>13, <1>14, AnalystGoes

\* The newest call of a run changes, which was out until then.
LEMMA LastChanges ==
  ASSUME CallsTyped, NEW t \in analysts, AnalystCalls(t), RunCalls(t.job), t.phase \in Asking,
         NEW c \in Call,
         calls' = [calls EXCEPT ![t.job] = [calls[t.job] EXCEPT ![t.call] = c]],
         UNCHANGED runStatus,
         calls[t.job][t.call].answer \in {"none", "unknown"} \/ c.answer = calls[t.job][t.call].answer,
         modelDone'[t.job] /\ runStatus[t.job] = "running" =>
           modelDone[t.job] \/ c = [status |-> "completed", answer |-> "good"]
  PROVE  /\ t.job \in Jobs
         /\ calls'[t.job] \in Seq(Call) /\ Len(calls'[t.job]) = Len(calls[t.job])
         /\ DOMAIN calls'[t.job] = DOMAIN calls[t.job]
         /\ t.call \in DOMAIN calls'[t.job] /\ t.call = Len(calls'[t.job])
         /\ calls'[t.job][t.call] = c
         /\ \A n \in DOMAIN calls[t.job] : n < Len(calls[t.job]) =>
              calls'[t.job][n] = calls[t.job][n]
         /\ \A j \in ManualJobs : j # t.job => calls'[j] = calls[j]
         /\ RunCalls(t.job)'
         /\ Over(c) => Quiet(t.job)'
         /\ c = [status |-> "completed", answer |-> "good"] => Answered(t.job)'
  <1> DEFINE j == t.job
  <1>1. /\ j \in ManualJobs /\ j \in Jobs /\ AsksLast(t) /\ runStatus[j] \in Underway
        /\ t.call \in DOMAIN calls[j] /\ t.call = Len(calls[j])
        /\ calls[j][t.call].status = "running"
    BY DEF AnalystCalls, AsksLast, ManualJobs
  <1>2. /\ calls[j] \in Seq(Call) /\ Len(calls[j]) \in Nat /\ DOMAIN calls[j] = 1..Len(calls[j])
        /\ \A n \in DOMAIN calls[j] : calls[j][n] \in Call
    BY <1>1, CallFacts
  <1>3. PICK q : q = [calls[j] EXCEPT ![t.call] = c]
    OBVIOUS
  <1>4. /\ q \in Seq(Call) /\ Len(q) = Len(calls[j]) /\ DOMAIN q = DOMAIN calls[j]
        /\ \A n \in 1..Len(calls[j]) : q[n] = IF n = t.call THEN c ELSE calls[j][n]
    <2>1. t.call \in 1..Len(calls[j])
      BY <1>1, <1>2
    <2>2. /\ q \in Seq(Call) /\ Len(q) = Len(calls[j])
          /\ \A n \in 1..Len(calls[j]) : q[n] = IF n = t.call THEN c ELSE calls[j][n]
      BY <1>2, <1>3, <2>1, ExceptSeq
    <2>3. DOMAIN q = 1..Len(q)
      BY <2>2, LenProperties
    <2> QED BY <1>2, <2>2, <2>3
  <1>5. calls'[j] = q /\ \A k \in ManualJobs : k # j => calls'[k] = calls[k]
    BY <1>1, <1>3, CallFacts DEF CallsTyped
  <1> HIDE DEF j
  <1>6. \A n \in DOMAIN calls[j] : n < Len(calls[j]) => q[n] = calls[j][n] /\ Over(calls[j][n])
    BY <1>1, <1>2, <1>4 DEF RunCalls, j
  <1>7. \A n \in DOMAIN q : n < Len(q) => Over(q[n])
    BY <1>4, <1>6
  <1>8. Over(c) => Quiet(j)'
    <2>1. \A n \in DOMAIN q : n < Len(q) \/ n = t.call
      BY <1>1, <1>2, <1>4
    <2> QED BY <1>1, <1>2, <1>4, <1>5, <1>7, <2>1 DEF Quiet
  <1>9. c = [status |-> "completed", answer |-> "good"] => Answered(j)'
    <2>1. q # <<>> /\ q[Len(q)] = c
      BY <1>1, <1>2, <1>4
    <2> QED BY <1>5, <2>1 DEF Answered
  <1>10. Cardinality(Unanswered(j)') <= 2
    <2>1. Unanswered(j)' \subseteq Unanswered(j)
      BY <1>1, <1>2, <1>4, <1>5 DEF Unanswered, j
    <2>2. IsFiniteSet(Unanswered(j)) /\ Cardinality(Unanswered(j)) \in Nat
      BY <1>1, FewUnanswered
    <2>3. Cardinality(Unanswered(j)') <= Cardinality(Unanswered(j))
          /\ Cardinality(Unanswered(j)') \in Nat
      BY <2>1, <2>2, FS_Subset, FS_CardinalityType
    <2> QED BY <2>2, <2>3 DEF RunCalls, j
  <1>11. RunCalls(j)'
    <2>1. runStatus'[j] \notin Waiting \union {"absent", "completed"}
      BY <1>1 DEF Underway, Waiting
    <2>2. modelDone'[j] /\ runStatus'[j] \notin Settled => Answered(j)'
      <3>1. runStatus'[j] \notin Settled => runStatus[j] = "running"
        BY <1>1 DEF Underway, Settled
      <3>2. ~(modelDone[j] /\ runStatus[j] = "running")
        <4>1. modelDone[j] /\ runStatus[j] \notin Settled => Answered(j)
          BY DEF RunCalls, j
        <4>2. Answered(j) => calls[j][t.call].status = "completed"
          BY <1>1 DEF Answered
        <4> QED BY <1>1, <4>1, <4>2 DEF Settled
      <3> QED BY <1>9, <3>1, <3>2 DEF j
    <2> QED BY <1>5, <1>7, <1>10, <2>1, <2>2 DEF RunCalls
  <1> QED BY <1>1, <1>2, <1>4, <1>5, <1>6, <1>8, <1>9, <1>11 DEF j

LEMMA CallEndsKeeps ==
  ASSUME CallsTyped, CallInv, NEW t \in analysts, NEW answer \in Answers \union {"unsent"},
         CallEnds(t, answer)
  PROVE  CallInv'
  <1> DEFINE j == t.job
  <1>1. /\ t \in Analyst /\ AnalystCalls(t) /\ j \in ManualJobs /\ RunCalls(j)
        /\ t.phase = "calling" /\ AsksLast(t) /\ t.phase \in Asking
    BY DEF CallsTyped, CallInv, AnalystCalls, CallEnds, Asking
  <1>2. /\ calls[j] \in Seq(Call) /\ t.call \in DOMAIN calls[j] /\ calls[j][t.call] \in Call
        /\ calls[j][t.call].status = "running" /\ calls[j][t.call].answer = "none"
    BY <1>1, CallFacts DEF AsksLast
  <1>3. PICK c : c = [calls[j][t.call] EXCEPT !.answer = answer]
    OBVIOUS
  <1>4. c \in Call /\ c.answer = answer /\ c.status = "running"
    BY <1>2, <1>3 DEF Call
  <1>5. calls' = [calls EXCEPT ![j] = [calls[j] EXCEPT ![t.call] = c]]
    BY <1>3 DEF CallEnds
  <1>6. UNCHANGED <<runStatus, modelDone, serving>>
    BY DEF CallEnds, chainVars, vars
  <1>7. /\ calls'[j][t.call] = c /\ t.call \in DOMAIN calls'[j] /\ t.call = Len(calls'[j])
        /\ RunCalls(j)' /\ \A k \in ManualJobs : k # j => calls'[k] = calls[k]
    BY <1>1, <1>2, <1>4, <1>5, <1>6, LastChanges
  <1>8. PICK outcome : outcome = IF answer = "unsent" THEN "failed" ELSE Outcome(t.job, answer)
    OBVIOUS
  <1>9. Fits(outcome, answer)
    BY <1>8 DEF Outcome, Fits, CallStatus, Answers
  <1>10. PICK u : u = [t EXCEPT !.outcome = outcome,
                                !.phase = IF answer = "429" /\ outcome # "cancelled"
                                            THEN "limited" ELSE "finishing"]
    OBVIOUS
  <1>11. Turns(t, u)
    BY <1>8, <1>10 DEF CallEnds
  <1>12. u.job = t.job /\ u.call = t.call /\ u.outcome = outcome /\ u.phase \in {"limited", "finishing"}
    BY <1>1, <1>10 DEF Analyst
  <1>13. AsksLast(u)'
    BY <1>4, <1>7, <1>9, <1>12 DEF AsksLast
  <1>14. AnalystCalls(u)'
    BY <1>1, <1>6, <1>12, <1>13 DEF AnalystCalls, Asking
  <1>15. OnlyItsRun(t)
    BY <1>6, <1>7 DEF OnlyItsRun
  <1> QED BY <1>7, <1>11, <1>12, <1>14, <1>15, AnalystGoes DEF Turns

LEMMA FinishKeeps ==
  ASSUME TypeOK, CallsTyped, CallInv, NEW t \in analysts, FinishModelCall(t)
  PROVE  CallInv'
  <1> DEFINE j == t.job
  <1>1. /\ t \in Analyst /\ AnalystCalls(t) /\ j \in ManualJobs /\ RunCalls(j)
        /\ t.phase = "finishing" /\ AsksLast(t) /\ t.phase \in Asking
    BY DEF CallsTyped, CallInv, AnalystCalls, FinishModelCall, Asking
  <1>2. /\ calls[j] \in Seq(Call) /\ t.call \in DOMAIN calls[j] /\ calls[j][t.call] \in Call
        /\ t.call = Len(calls[j])
        /\ calls[j][t.call].status = "running" /\ Fits(t.outcome, calls[j][t.call].answer)
    BY <1>1, CallFacts DEF AsksLast
  <1>3. PICK status : status = IF runStatus[j] = "cancelled" /\ t.outcome = "completed"
                               THEN "cancelled" ELSE t.outcome
    OBVIOUS
  <1>4. PICK c : c = [calls[j][t.call] EXCEPT !.status = status]
    OBVIOUS
  <1>5. status \in CallStatus \ {"running"} /\ Fits(status, calls[j][t.call].answer)
    BY <1>2, <1>3 DEF Fits, CallStatus
  <1>6. c \in Call /\ c.answer = calls[j][t.call].answer /\ c.status = status
    BY <1>2, <1>4, <1>5 DEF Call
  <1>7. status = "completed" => c = [status |-> "completed", answer |-> "good"]
    BY <1>5, <1>6 DEF Call, Fits
  <1>8. calls' = [calls EXCEPT ![j] = [calls[j] EXCEPT ![t.call] = c]]
    BY <1>3, <1>4 DEF FinishModelCall
  <1>9. IsAnswer(status) \in BOOLEAN /\ Checkpoint(j, IsAnswer(status))
    BY <1>2, <1>3 DEF FinishModelCall, IsAnswer
  <1>10. /\ UNCHANGED <<runStatus, serving>>
         /\ \A k \in ManualJobs : k # j => modelDone'[k] = modelDone[k]
         /\ runStatus[j] = "running" => modelDone'[j] = IsAnswer(status)
    <2>1. serving' = serving
      BY DEF FinishModelCall
    <2> QED BY <1>1, <1>9, <2>1, CheckpointChanges
  <1>11. modelDone'[j] /\ runStatus[j] = "running" => c = [status |-> "completed", answer |-> "good"]
    BY <1>7, <1>10 DEF IsAnswer
  <1>12. /\ RunCalls(j)' /\ \A k \in ManualJobs : k # j => calls'[k] = calls[k]
         /\ Over(c) => Quiet(j)'
         /\ c = [status |-> "completed", answer |-> "good"] => Answered(j)'
    BY <1>1, <1>6, <1>8, <1>10, <1>11, LastChanges
  <1>13. PICK u : u = [t EXCEPT !.phase = "releasing"]
    OBVIOUS
  <1>14. Turns(t, u)
    BY <1>13 DEF FinishModelCall, Goes
  <1>15. u.job = t.job /\ u.phase = "releasing" /\ u.outcome = t.outcome
    BY <1>1, <1>13 DEF Analyst
  <1>16. AnalystCalls(u)'
    <2>1. u.outcome \in {"throttled", "result_unknown", "retry_wait"} => Quiet(j)'
      <3>1. SUFFICES ASSUME t.outcome \in {"result_unknown", "retry_wait"} PROVE Over(c)
        BY <1>2, <1>12, <1>15 DEF Fits, CallStatus
      <3> QED BY <1>2, <1>3, <1>6, <3>1 DEF Over, Fits
    <2>2. u.outcome = "completed" /\ runStatus[j] = "running" => Answered(j)'
      BY <1>3, <1>7, <1>12, <1>15
    <2> QED BY <1>1, <1>10, <1>15, <2>1, <2>2 DEF AnalystCalls, Asking
  <1>17. OnlyItsRun(t)
    BY <1>10, <1>12 DEF OnlyItsRun
  <1> QED BY <1>12, <1>14, <1>15, <1>16, <1>17, AnalystGoes DEF Turns

LEMMA ReleaseKeeps ==
  ASSUME TypeOK, SlotInv, CallsTyped, CallInv, NEW t \in analysts, ReleaseAnalysis(t)
  PROVE  CallInv'
  <1> DEFINE j == t.job
  <1>1. /\ t \in Analyst /\ AnalystCalls(t) /\ j \in ManualJobs /\ j \in Jobs /\ RunCalls(j)
        /\ t.phase = "releasing"
    BY DEF CallsTyped, CallInv, AnalystCalls, ReleaseAnalysis, ManualJobs
  <1>2. analysts' = analysts \ {t} /\ UNCHANGED <<calls, serving>>
    BY DEF ReleaseAnalysis
  <1>3. CASE UNCHANGED coordinationVars
    <2>1. UNCHANGED <<runStatus, modelDone>>
      BY <1>3 DEF coordinationVars, vars
    <2>2. OnlyItsRun(t) /\ RunCalls(j)'
      BY <1>1, <1>2, <2>1, SameRun DEF OnlyItsRun
    <2> QED BY <1>2, <2>2, AnalystLeaves
  <1>4. ASSUME NEW s \in Slots, Holds(t, s),
               Release(s, ReleasedAs(t.outcome), FALSE, FALSE, t.outcome = "result_unknown")
        PROVE  CallInv'
    <2>1. Leased(s) /\ RunOf(s) = j /\ runStatus[j] = "running"
      BY <1>4 DEF Holds, RunOf, SlotInv, SlotRunAgreement
    <2>2. PICK st : st = ReleasedAs(t.outcome)
      OBVIOUS
    <2>3. st \in {"completed", "failed", "retry_wait"}
      BY <1>4, <2>2 DEF Release, ReleaseStatus
    <2>4. EffectiveStatus(j, st, FALSE, FALSE) = st
      BY <1>1 DEF EffectiveStatus, ManualJobs
    <2>5. runStatus' = [runStatus EXCEPT ![j] = st] /\ UNCHANGED modelDone
      BY <1>4, <2>1, <2>2, <2>4 DEF Release
    <2>6. /\ runStatus'[j] = st
          /\ \A k \in ManualJobs : k # j => runStatus'[k] = runStatus[k]
      BY <1>1, <2>5 DEF TypeOK, ManualJobs
    <2>7. st = "retry_wait" => Quiet(j)
      BY <1>1, <2>2 DEF ReleasedAs, AnalystCalls
    <2>8. st = "completed" => Answered(j)
      BY <1>1, <2>1, <2>2 DEF ReleasedAs, AnalystCalls
    <2>9. (Quiet(j)' <=> Quiet(j)) /\ (Answered(j)' <=> Answered(j)) /\ Unanswered(j)' = Unanswered(j)
      BY <1>2 DEF Quiet, Answered, Unanswered
    <2>10. modelDone[j] => Answered(j)
      BY <1>1, <2>1 DEF RunCalls, Settled
    <2>11. st \notin {"absent", "queued"}
      BY <2>3
    <2>12. RunCalls(j)'
      BY <1>1, <1>2, <2>5, <2>6, <2>7, <2>8, <2>9, <2>10, <2>11 DEF RunCalls, Waiting
    <2>13. OnlyItsRun(t)
      BY <1>2, <2>5, <2>6 DEF OnlyItsRun
    <2> QED BY <1>2, <2>12, <2>13, AnalystLeaves
  <1> QED BY <1>3, <1>4 DEF ReleaseAnalysis

-----------------------------------------------------------------------------
(* The worker process. *)

\* A run that waits has no thread, so the one that a claim starts is its only one.
LEMMA ClaimAnalysisKeeps ==
  ASSUME TypeOK, SlotInv, CallsTyped, CallInv,
         NEW j \in ManualJobs, NEW s \in Slots, NEW open \in BOOLEAN, ServeAnalysis(j, s, open)
  PROVE  CallInv'
  <1>1. /\ UNCHANGED <<calls, serving, modelDone>> /\ serving
        /\ runStatus' = [SweptRun EXCEPT ![j] = "running"] /\ SweptJob[j] \in Waiting
    BY DEF ServeAnalysis, ClaimNext, Eligible, Room, PoolHasRoom
  <1>2. PICK u : u = [job |-> j, claim |-> claims[j] + 1, call |-> 0, phase |-> "claimed",
                      outcome |-> "none"]
    OBVIOUS
  <1>3. analysts' = analysts \union {u} /\ u.job = j /\ u.phase = "claimed"
    BY <1>2 DEF ServeAnalysis
  <1>4. j \in Jobs /\ runStatus[j] \in Waiting /\ RunCalls(j) /\ Quiet(j)
    <2>1. j \in Jobs /\ jobStatus[j] = runStatus[j] /\ RunCalls(j)
      BY DEF ManualJobs, SlotInv, JobRunAgreement, CallInv
    <2>2. jobStatus[j] \in Waiting
      BY <1>1, <2>1 DEF SweptJob, Waiting
    <2> QED BY <2>1, <2>2 DEF RunCalls
  <1>5. SweptRun \in [Jobs -> Status]
    BY SweepTypes
  <1>6. runStatus'[j] = "running" /\ \A k \in ManualJobs : k # j => runStatus'[k] = SweptRun[k]
    BY <1>1, <1>4, <1>5 DEF ManualJobs
  <1>7. \A k \in Jobs : k # j => Drifts(k)
    BY <1>1, <1>4, <1>5, SweepDrifts
  <1>8. \A k \in ManualJobs : (Quiet(k)' <=> Quiet(k)) /\ (Answered(k)' <=> Answered(k))
                              /\ Unanswered(k)' = Unanswered(k)
    BY <1>1 DEF Quiet, Answered, Unanswered
  <1>9. ASSUME NEW k \in ManualJobs PROVE RunCalls(k)'
    <2>1. CASE k = j
      <3>1. modelDone[j] => Answered(j)
        BY <1>4 DEF RunCalls, Waiting, Settled
      <3> QED BY <1>1, <1>4, <1>6, <1>8, <2>1, <3>1 DEF RunCalls, Waiting
    <2>2. CASE k # j
      <3>1. Drifts(k) /\ RunCalls(k) /\ runStatus'[k] \in Status /\ runStatus[k] \in Status
        BY <1>5, <1>6, <1>7, <2>2 DEF CallInv, ManualJobs, TypeOK
      <3>2. runStatus'[k] \notin Settled => runStatus[k] \notin Settled
        BY <3>1 DEF Drifts, Status, Settled, Waiting
      <3> QED BY <1>1, <1>8, <3>1, <3>2 DEF RunCalls, Drifts
    <2> QED BY <2>1, <2>2
  <1>10. ASSUME NEW t \in analysts PROVE t.job # j /\ AnalystCalls(t)'
    <2>1. AnalystCalls(t)
      BY DEF CallInv
    <2>2. t.job # j
      BY <1>4, <2>1 DEF AnalystCalls, Underway, Waiting
    <2>3. t.job \in ManualJobs /\ Drifts(t.job)
      BY <1>7, <2>1, <2>2 DEF AnalystCalls, ManualJobs
    <2>4. AsksLast(t)' <=> AsksLast(t)
      BY <1>1 DEF AsksLast
    <2> QED BY <1>8, <2>1, <2>2, <2>3, <2>4 DEF AnalystCalls, Drifts
  <1>11. AnalystCalls(u)'
    BY <1>3, <1>4, <1>6, <1>8 DEF AnalystCalls, Asking, Underway
  <1>12. AnalystsAlone'
    BY <1>3, <1>10 DEF AnalystsAlone, CallInv
  <1>13. \A t \in analysts' : AnalystCalls(t)'
    BY <1>3, <1>10, <1>11
  <1> QED BY <1>1, <1>9, <1>12, <1>13 DEF CallInv

\* A restart completes a run on a checkpoint that is the answer to its newest call.
LEMMA RestartAnalysesKeeps ==
  ASSUME TypeOK, SlotInv, CallInv, Restart
  PROVE  CallInv'
  <1>1. analysts = {} /\ analysts' = {} /\ UNCHANGED <<calls, modelDone>>
    BY DEF Restart, StartServing, StartupReconcile, CallInv
  <1>2. ASSUME NEW j \in ManualJobs PROVE RunCalls(j)'
    <2>1. j \in Jobs /\ RunCalls(j) /\ ~HasEvidence(j) /\ ~Repaired(j)
      BY DEF ManualJobs, CallInv, HasEvidence, Repaired
    <2>2. runStatus'[j] = IF j \in DroppedRuns /\ runStatus[j] = "running" THEN Resolved(j)
                          ELSE runStatus[j]
      BY <2>1 DEF Restart, StartServing, StartupReconcile
    <2>3. Resolved(j) = IF modelDone[j] THEN "completed" ELSE "interrupted"
      BY <2>1 DEF Resolved
    <2>4. (Quiet(j)' <=> Quiet(j)) /\ (Answered(j)' <=> Answered(j)) /\ Unanswered(j)' = Unanswered(j)
      BY <1>1 DEF Quiet, Answered, Unanswered
    <2>5. CASE j \in DroppedRuns /\ runStatus[j] = "running"
      <3>1. modelDone[j] => Answered(j)
        BY <2>1, <2>5 DEF RunCalls, Settled
      <3>2. runStatus'[j] \in {"completed", "interrupted"} /\ (runStatus'[j] = "completed" => Answered(j))
        BY <2>2, <2>3, <2>5, <3>1
      <3> QED BY <1>1, <2>1, <2>4, <3>2 DEF RunCalls, Settled, Waiting
    <2>6. CASE ~(j \in DroppedRuns /\ runStatus[j] = "running")
      BY <1>1, <2>1, <2>2, <2>6, SameRun
    <2> QED BY <2>5, <2>6
  <1> QED BY <1>1, <1>2 DEF CallInv, AnalystsAlone

LEMMA CallsInvStep ==
  ASSUME TypeOK, TypeOK', SlotInv, CallsTyped, CallInv, [AnalysisNext]_modelVars
  PROVE  CallInv'
  <1>1. CASE Restart
    BY <1>1, RestartAnalysesKeeps
  <1>2. CASE AnalystsCrash
    <2>1. analysts' = {} /\ UNCHANGED <<calls, runStatus, modelDone>>
      BY <1>2 DEF AnalystsCrash, WorkerCrash, coordinationVars, vars
    <2>2. \A j \in ManualJobs : RunCalls(j)'
      BY <2>1, SameRun DEF CallInv
    <2> QED BY <2>1, <2>2 DEF CallInv, AnalystsAlone
  <1>3. ASSUME NEW j \in ManualJobs, NEW s \in Slots, NEW open \in BOOLEAN, ServeAnalysis(j, s, open)
        PROVE  CallInv'
    BY <1>3, ClaimAnalysisKeeps
  <1>4. ASSUME NEW t \in analysts, AnalystStep(t) PROVE CallInv'
    BY <1>4, QuietSteps, BeginKeeps, CallEndsKeeps, FinishKeeps, ReleaseKeeps DEF AnalystStep
  <1>5. ASSUME UNCHANGED <<analysts, calls, serving, modelDone>>,
               \A j \in ManualJobs : Drifts(j)
        PROVE  CallInv'
    <2>1. \A j \in ManualJobs : runStatus[j] \in Status /\ runStatus'[j] \in Status
      BY DEF TypeOK, ManualJobs
    <2> QED BY <1>5, <2>1, DriftKeeps
  <1>6. CASE (\E open \in BOOLEAN : ServeNoAnalysis(open)) \/ AnalysisTime
             \/ (\E t \in analysts : AnalystBeats(t))
             \/ \E j \in ManualJobs : AcceptAnalysis(j) \/ CancelAnalysis(j) \/ RetryIsDue(j)
    <2>1. UNCHANGED <<analysts, calls, serving, modelDone>>
      BY <1>6 DEF ServeNoAnalysis, ServeIdle, ClaimNothing, AnalysisTime, AnalystBeats, Heartbeat,
         LeaseLapses, DeadlinePasses, BackoffEnds, AcceptAnalysis, AcceptManual, CancelAnalysis,
         ApiCancel, Cancel, RetryIsDue, callVars, logVars
    <2>2. \/ \E k \in ManualJobs : AcceptManual(k) \/ Cancel(k) \/ DeadlinePasses(k) \/ BackoffEnds(k)
          \/ \E open \in BOOLEAN : ClaimNothing(open)
          \/ \E s \in Slots : Heartbeat(s) \/ LeaseLapses(s)
      BY <1>6 DEF ServeNoAnalysis, ServeIdle, AnalysisTime, AnalystBeats, AcceptAnalysis,
         CancelAnalysis, ApiCancel, RetryIsDue
    <2>3. \A j \in ManualJobs : Drifts(j)
      BY <2>2, OthersDrift
    <2> QED BY <1>5, <2>1, <2>3
  <1>7. CASE (\E j \in ManualJobs : WindowCloses(j)) \/ (\E c \in tokens : TokenExpires(c))
             \/ ThrottleEnds \/ UNCHANGED modelVars
    <2>1. UNCHANGED <<analysts, calls, serving, modelDone, runStatus>>
      BY <1>7 DEF WindowCloses, TokenExpires, ThrottleEnds, modelVars, callVars, chainVars, vars
    <2>2. \A j \in ManualJobs : Drifts(j)
      BY <2>1 DEF Drifts
    <2> QED BY <1>5, <2>1, <2>2
  <1> QED BY <1>1, <1>2, <1>3, <1>4, <1>6, <1>7 DEF AnalysisNext, ServeAnalyses

-----------------------------------------------------------------------------
(* Types of the analyses, and the theorems. *)

ProviderTyped ==
  /\ tokens \subseteq Jobs \X Nat /\ expired \subseteq tokens
  /\ throttled \in BOOLEAN
  /\ waits \subseteq Jobs /\ shut \subseteq Jobs

LEMMA AnalystsStayTyped ==
  ASSUME TypeOK, CallsTyped, CallInv, [AnalysisNext]_modelVars
  PROVE  (analysts \subseteq Analyst)'
  <1>a. ASSUME NEW t \in analysts PROVE t \in Analyst /\ t.job \in ManualJobs /\ AnalystCalls(t)
    BY DEF CallsTyped, CallInv, AnalystCalls
  <1>b. ASSUME analysts' \subseteq analysts PROVE (analysts \subseteq Analyst)'
    BY <1>b DEF CallsTyped
  <1>c. ASSUME NEW t \in analysts, NEW u \in Analyst, Turns(t, u) PROVE (analysts \subseteq Analyst)'
    BY <1>c DEF CallsTyped, Turns
  <1>1. ASSUME NEW j \in ManualJobs, NEW s \in Slots, NEW open \in BOOLEAN, ServeAnalysis(j, s, open)
        PROVE  (analysts \subseteq Analyst)'
    <2>1. [job |-> j, claim |-> claims[j] + 1, call |-> 0, phase |-> "claimed", outcome |-> "none"]
            \in Analyst
      BY DEF Analyst, TypeOK, ManualJobs
    <2> QED BY <1>1, <2>1 DEF ServeAnalysis, CallsTyped
  <1>2. ASSUME NEW t \in analysts, AnalystStep(t) PROVE (analysts \subseteq Analyst)'
    <2>1. ASSUME NEW phase \in {"source", "ready", "finishing", "releasing"}, Goes(t, phase)
          PROVE  (analysts \subseteq Analyst)'
      <3>1. [t EXCEPT !.phase = phase] \in Analyst
        BY <1>a DEF Analyst
      <3> QED BY <1>c, <2>1, <3>1 DEF Goes
    <2>2. ASSUME NEW outcome \in {"failed", "throttled"}, Ends(t, outcome)
          PROVE  (analysts \subseteq Analyst)'
      <3>1. [t EXCEPT !.phase = "releasing", !.outcome = outcome] \in Analyst
        BY <1>a DEF Analyst, CallStatus
      <3> QED BY <1>c, <2>2, <3>1 DEF Ends
    <2>3. CASE ReadsSource(t)
      BY <1>b, <2>1, <2>3 DEF ReadsSource
    <2>4. CASE AnalystFails(t) \/ Refused(t)
      BY <2>2, <2>4 DEF AnalystFails, Refused
    <2>5. CASE RecordLimit(t) \/ FinishModelCall(t)
      BY <2>1, <2>5 DEF RecordLimit, FinishModelCall
    <2>6. CASE BeginModelCall(t)
      <3>1. Len(calls[t.job]) + 1 \in Nat
        BY <1>a, CallFacts
      <3>2. [t EXCEPT !.phase = "calling", !.call = Len(calls[t.job]) + 1] \in Analyst
        BY <1>a, <3>1 DEF Analyst
      <3> QED BY <1>c, <2>6, <3>2 DEF BeginModelCall
    <2>7. ASSUME NEW answer \in Answers \union {"unsent"}, CallEnds(t, answer)
          PROVE  (analysts \subseteq Analyst)'
      <3>1. PICK outcome : outcome = IF answer = "unsent" THEN "failed" ELSE Outcome(t.job, answer)
        OBVIOUS
      <3>2. outcome \in CallStatus
        BY <3>1 DEF Outcome, CallStatus
      <3>3. PICK u : u = [t EXCEPT !.outcome = outcome,
                                   !.phase = IF answer = "429" /\ outcome # "cancelled"
                                               THEN "limited" ELSE "finishing"]
        OBVIOUS
      <3>4. u \in Analyst
        BY <1>a, <3>2, <3>3 DEF Analyst
      <3>5. Turns(t, u)
        BY <2>7, <3>1, <3>3 DEF CallEnds
      <3> QED BY <1>c, <3>4, <3>5
    <2>8. CASE ReleaseAnalysis(t)
      BY <1>b, <2>8 DEF ReleaseAnalysis
    <2> QED BY <1>2, <2>3, <2>4, <2>5, <2>6, <2>7, <2>8 DEF AnalystStep
  <1>3. CASE AnalystsCrash
    BY <1>3 DEF AnalystsCrash
  <1>4. CASE Restart \/ (\E open \in BOOLEAN : ServeNoAnalysis(open)) \/ AnalysisTime
             \/ (\E t \in analysts : AnalystBeats(t))
             \/ (\E j \in ManualJobs :
                   AcceptAnalysis(j) \/ CancelAnalysis(j) \/ RetryIsDue(j) \/ WindowCloses(j))
             \/ (\E c \in tokens : TokenExpires(c)) \/ ThrottleEnds \/ UNCHANGED modelVars
    <2>1. analysts' = analysts
      BY <1>4 DEF Restart, ServeNoAnalysis, AnalysisTime, AnalystBeats, AcceptAnalysis,
         CancelAnalysis, RetryIsDue, WindowCloses, TokenExpires, ThrottleEnds, modelVars, callVars
    <2> QED BY <1>b, <2>1
  <1> QED BY <1>1, <1>2, <1>3, <1>4 DEF AnalysisNext, ServeAnalyses

LEMMA CallsStayTyped ==
  ASSUME CallsTyped, CallInv, [AnalysisNext]_modelVars
  PROVE  calls' \in [Jobs -> Seq(Call)]
  <1>a. ASSUME NEW t \in analysts PROVE t.job \in ManualJobs /\ t.job \in Jobs /\ AnalystCalls(t)
    BY DEF CallInv, AnalystCalls, ManualJobs
  <1>b. ASSUME NEW j \in Jobs, NEW q \in Seq(Call), calls' = [calls EXCEPT ![j] = q]
        PROVE  calls' \in [Jobs -> Seq(Call)]
    BY <1>b DEF CallsTyped
  <1>1. ASSUME NEW t \in analysts, BeginModelCall(t) PROVE calls' \in [Jobs -> Seq(Call)]
    <2>1. [status |-> "running", answer |-> "none"] \in Call
      BY DEF Call, CallStatus
    <2>2. Append(calls[t.job], [status |-> "running", answer |-> "none"]) \in Seq(Call)
      BY <1>a, <2>1, CallFacts, AppendProperties
    <2>3. calls' = [calls EXCEPT ![t.job] =
                      Append(calls[t.job], [status |-> "running", answer |-> "none"])]
      BY <1>1 DEF BeginModelCall
    <2> QED BY <1>a, <1>b, <2>2, <2>3
  <1>2. ASSUME NEW t \in analysts, t.phase \in Asking, NEW c \in Call,
               calls' = [calls EXCEPT ![t.job] = [calls[t.job] EXCEPT ![t.call] = c]]
        PROVE  calls' \in [Jobs -> Seq(Call)]
    <2>1. calls[t.job] \in Seq(Call) /\ t.call \in 1..Len(calls[t.job])
      BY <1>a, <1>2, CallFacts DEF AnalystCalls, AsksLast
    <2>2. [calls[t.job] EXCEPT ![t.call] = c] \in Seq(Call)
      BY <2>1, ExceptSeq
    <2> QED BY <1>a, <1>b, <1>2, <2>2
  <1>3. ASSUME NEW t \in analysts, NEW answer \in Answers \union {"unsent"}, CallEnds(t, answer)
        PROVE  calls' \in [Jobs -> Seq(Call)]
    <2>1. t.phase \in Asking
      BY <1>3 DEF CallEnds, Asking
    <2>2. calls[t.job][t.call] \in Call
      BY <1>a, <2>1, CallFacts DEF AnalystCalls, AsksLast
    <2>3. PICK c : c = [calls[t.job][t.call] EXCEPT !.answer = answer]
      OBVIOUS
    <2>4. c \in Call
      BY <2>2, <2>3 DEF Call
    <2>5. calls' = [calls EXCEPT ![t.job] = [calls[t.job] EXCEPT ![t.call] = c]]
      BY <1>3, <2>3 DEF CallEnds
    <2> QED BY <1>2, <2>1, <2>4, <2>5
  <1>4. ASSUME NEW t \in analysts, FinishModelCall(t) PROVE calls' \in [Jobs -> Seq(Call)]
    <2>1. t.phase \in Asking /\ t.phase # "calling"
      BY <1>4 DEF FinishModelCall, Asking
    <2>2. calls[t.job][t.call] \in Call /\ t.outcome \in CallStatus
      BY <1>a, <2>1, CallFacts DEF AnalystCalls, AsksLast, Fits
    <2>3. PICK status : status = IF runStatus[t.job] = "cancelled" /\ t.outcome = "completed"
                                   THEN "cancelled" ELSE t.outcome
      OBVIOUS
    <2>4. PICK c : c = [calls[t.job][t.call] EXCEPT !.status = status]
      OBVIOUS
    <2>5. c \in Call
      BY <2>2, <2>3, <2>4 DEF Call, CallStatus
    <2>6. calls' = [calls EXCEPT ![t.job] = [calls[t.job] EXCEPT ![t.call] = c]]
      BY <1>4, <2>3, <2>4 DEF FinishModelCall
    <2> QED BY <1>2, <2>1, <2>5, <2>6
  <1>5. CASE Restart \/ ServeAnalyses \/ AnalystsCrash \/ AnalysisTime
             \/ (\E t \in analysts : \/ AnalystBeats(t) \/ ReadsSource(t) \/ AnalystFails(t)
                                     \/ Refused(t) \/ RecordLimit(t) \/ ReleaseAnalysis(t))
             \/ (\E j \in ManualJobs :
                   AcceptAnalysis(j) \/ CancelAnalysis(j) \/ RetryIsDue(j) \/ WindowCloses(j))
             \/ (\E c \in tokens : TokenExpires(c)) \/ ThrottleEnds \/ UNCHANGED modelVars
    <2>1. calls' = calls
      BY <1>5 DEF Restart, ServeAnalyses, ServeAnalysis, ServeNoAnalysis, AnalystsCrash, AnalysisTime,
         AnalystBeats, ReadsSource, AnalystFails, Refused, RecordLimit, ReleaseAnalysis,
         AcceptAnalysis, CancelAnalysis, RetryIsDue, WindowCloses, TokenExpires, ThrottleEnds,
         modelVars, callVars
    <2> QED BY <2>1 DEF CallsTyped
  <1> QED BY <1>1, <1>3, <1>4, <1>5 DEF AnalysisNext, AnalystStep

LEMMA ProviderStaysTyped ==
  ASSUME CallsTyped, CallInv, ProviderTyped, [AnalysisNext]_modelVars
  PROVE  ProviderTyped'
  <1>a. ASSUME NEW t \in analysts PROVE t.job \in Jobs /\ t.job \in ManualJobs
    BY DEF CallInv, AnalystCalls, ManualJobs
  <1>b. ASSUME UNCHANGED <<tokens, expired, throttled, waits, shut>> PROVE ProviderTyped'
    BY <1>b DEF ProviderTyped
  <1>1. CASE Restart
    <2>1. tokens' \subseteq tokens /\ expired' = expired \intersect tokens'
      BY <1>1 DEF Restart
    <2> QED BY <1>1, <2>1 DEF Restart, ProviderTyped
  <1>2. ASSUME NEW t \in analysts, BeginModelCall(t) PROVE ProviderTyped'
    <2>1. <<t.job, Len(calls[t.job]) + 1>> \in Jobs \X Nat
      BY <1>a, CallFacts
    <2> QED BY <1>2, <2>1 DEF BeginModelCall, ProviderTyped
  <1>3. ASSUME NEW t \in analysts, FinishModelCall(t) PROVE ProviderTyped'
    BY <1>3 DEF FinishModelCall, ProviderTyped
  <1>4. ASSUME NEW t \in analysts, Refused(t) PROVE ProviderTyped'
    BY <1>a, <1>4 DEF Refused, ProviderTyped
  <1>5. ASSUME NEW t \in analysts, RecordLimit(t) PROVE ProviderTyped'
    BY <1>5 DEF RecordLimit, ProviderTyped
  <1>6. ASSUME NEW j \in ManualJobs, RetryIsDue(j) \/ WindowCloses(j) PROVE ProviderTyped'
    BY <1>6 DEF RetryIsDue, WindowCloses, ProviderTyped, ManualJobs
  <1>7. CASE (\E c \in tokens : TokenExpires(c)) \/ ThrottleEnds
    BY <1>7 DEF TokenExpires, ThrottleEnds, ProviderTyped
  <1>8. CASE ServeAnalyses \/ AnalystsCrash \/ AnalysisTime
             \/ (\E t \in analysts : \/ AnalystBeats(t) \/ ReadsSource(t) \/ AnalystFails(t)
                                     \/ ReleaseAnalysis(t)
                                     \/ \E answer \in Answers \union {"unsent"} : CallEnds(t, answer))
             \/ (\E j \in ManualJobs : AcceptAnalysis(j) \/ CancelAnalysis(j))
             \/ UNCHANGED modelVars
    <2>1. UNCHANGED <<tokens, expired, throttled, waits, shut>>
      BY <1>8 DEF ServeAnalyses, ServeAnalysis, ServeNoAnalysis, AnalystsCrash, AnalysisTime,
         AnalystBeats, ReadsSource, AnalystFails, ReleaseAnalysis, CallEnds,
         AcceptAnalysis, CancelAnalysis, modelVars, callVars
    <2> QED BY <1>b, <2>1
  <1> QED BY <1>1, <1>2, <1>3, <1>4, <1>5, <1>6, <1>7, <1>8 DEF AnalysisNext, AnalystStep

FilesAndEventsTyped == ThreadsTyped /\ FilesTyped /\ EventsTyped /\ ProcessesTyped

LEMMA OutsideStaysTyped ==
  ASSUME TypeOK, FilesAndEventsTyped, [AnalysisNext]_modelVars
  PROVE  FilesAndEventsTyped'
  <1>1. CASE StartServing \/ WorkerCrash
    BY <1>1, ThreadsStayTyped, EventsStayTyped DEF FilesAndEventsTyped, ChainNext
  <1>2. ASSUME UNCHANGED <<threads, serving, handler, manifest, event, tick, crashes>>
        PROVE  FilesAndEventsTyped'
    BY <1>2 DEF FilesAndEventsTyped, ThreadsTyped, FilesTyped, EventsTyped, ProcessesTyped
  <1>3. CASE ServeAnalyses \/ AnalysisTime
             \/ (\E j \in ManualJobs :
                   AcceptAnalysis(j) \/ CancelAnalysis(j) \/ RetryIsDue(j) \/ WindowCloses(j))
             \/ (\E c \in tokens : TokenExpires(c)) \/ ThrottleEnds \/ UNCHANGED modelVars
    BY <1>2, <1>3 DEF ServeAnalyses, ServeAnalysis, ServeNoAnalysis, ServeIdle, AnalysisTime,
       AcceptAnalysis, CancelAnalysis, ApiCancel, RetryIsDue, WindowCloses, TokenExpires,
       ThrottleEnds, modelVars, chainVars, fileVars
  <1>4. ASSUME NEW t \in analysts, AnalystStep(t) \/ AnalystBeats(t) PROVE FilesAndEventsTyped'
    BY <1>2, <1>4 DEF AnalystStep, AnalystBeats, ReadsSource, AnalystFails, Refused, BeginModelCall,
       CallEnds, RecordLimit, FinishModelCall, ReleaseAnalysis, chainVars, fileVars
  <1> QED BY <1>1, <1>3, <1>4 DEF AnalysisNext, Restart, AnalystsCrash

AnalysisInv ==
  TypeOK /\ SlotInv /\ FilesAndEventsTyped /\ CallsTyped /\ ProviderTyped /\ CallInv

LEMMA AnalysisInvInit == ModelCallsInit => AnalysisInv
  <1> SUFFICES ASSUME ModelCallsInit PROVE AnalysisInv
    OBVIOUS
  <1>1. TypeOK /\ SlotInv /\ FilesAndEventsTyped
    <2>1. Init /\ ChainTypeOK
      BY ChainInitType DEF ModelCallsInit, ChainInit
    <2> QED BY <2>1, InitSlots
            DEF ChainTypeOK, FilesAndEventsTyped, ThreadsTyped, FilesTyped, EventsTyped, ProcessesTyped
  <1>2. CallsTyped /\ ProviderTyped
    <2>1. <<>> \in Seq(Call)
      BY EmptySeq
    <2> QED BY <2>1 DEF ModelCallsInit, CallsTyped, ProviderTyped
  <1>3. ASSUME NEW j \in ManualJobs PROVE RunCalls(j)
    <2>1. j \in Jobs /\ calls[j] = <<>> /\ modelDone[j] = FALSE /\ runStatus[j] = "absent"
      BY DEF ManualJobs, ModelCallsInit, ChainInit, Init
    <2>2. DOMAIN calls[j] = {}
      BY <2>1
    <2>3. Unanswered(j) = {} /\ Cardinality({}) = 0
      BY <2>2, FS_EmptySet DEF Unanswered
    <2> QED BY <2>1, <2>2, <2>3 DEF RunCalls, Quiet
  <1>4. CallInv
    BY <1>3 DEF CallInv, AnalystsAlone, ModelCallsInit
  <1> QED BY <1>1, <1>2, <1>4 DEF AnalysisInv

LEMMA AnalysisInvStep == AnalysisInv /\ [AnalysisNext]_modelVars => AnalysisInv' /\ [Next]_vars
  <1> SUFFICES ASSUME AnalysisInv, [AnalysisNext]_modelVars PROVE AnalysisInv' /\ [Next]_vars
    OBVIOUS
  <1>1. [Next]_vars
    BY AnalysisIsCoordination
  <1>2. TypeOK' /\ SlotInv'
    BY <1>1, TypeStep, SlotStep DEF AnalysisInv
  <1>3. FilesAndEventsTyped' /\ CallsTyped' /\ ProviderTyped'
    BY OutsideStaysTyped, AnalystsStayTyped, CallsStayTyped, ProviderStaysTyped
    DEF AnalysisInv, CallsTyped
  <1>4. CallInv'
    BY <1>2, CallsInvStep DEF AnalysisInv
  <1> QED BY <1>1, <1>2, <1>3, <1>4 DEF AnalysisInv

(* Type correctness of the analyses, their calls and the tokens.                  *)
THEOREM AnalysisTypeCorrect == AnalysisSpec => [](ChainTypeOK /\ ModelCallsTypeOK)
  <1>1. AnalysisInv => ChainTypeOK /\ ModelCallsTypeOK
    BY DEF AnalysisInv, FilesAndEventsTyped, ThreadsTyped, FilesTyped, EventsTyped, ProcessesTyped,
       ChainTypeOK, CallsTyped, ProviderTyped, ModelCallsTypeOK, Call
  <1> QED BY <1>1, AnalysisInvInit, AnalysisInvStep, PTL DEF AnalysisSpec

(* The analyses too run on the coordination database as specified, and what was   *)
(* proved of Spec holds of them: claims, retries, leases and restarts.            *)
THEOREM AnalysisRefinesCoordination == AnalysisSpec => Spec
  <1>1. ModelCallsInit => Init
    BY DEF ModelCallsInit, ChainInit
  <1> QED BY <1>1, AnalysisInvInit, AnalysisInvStep, PTL DEF AnalysisSpec, Spec

(* An analysis is completed, by the release of its thread or by startup_reconcile, *)
(* only on a good answer to its newest call.                                     *)
THEOREM CompletedAreAnswered == AnalysisSpec => []CompletedIsAnswered
  <1>1. AnalysisInv => CompletedIsAnswered
    BY DEF AnalysisInv, CallInv, RunCalls, Answered, CompletedIsAnswered
  <1> QED BY <1>1, AnalysisInvInit, AnalysisInvStep, PTL DEF AnalysisSpec

(* No run leaves more than two calls without an answer, whatever is throttled,      *)
(* cancelled or lost and wherever the worker crashes (begin_model_call).          *)
THEOREM FewAreUnanswered == AnalysisSpec => []FewGoUnanswered
  <1>1. AnalysisInv => FewGoUnanswered
    BY DEF AnalysisInv, CallInv, RunCalls, Unanswered, FewGoUnanswered
  <1> QED BY <1>1, AnalysisInvInit, AnalysisInvStep, PTL DEF AnalysisSpec

(* A call is begun only when every earlier one of its run has ended: a run whose    *)
(* thread died or failed with a call out is not claimed again.                    *)
THEOREM CallsAreInTurn == AnalysisSpec => []CallsInTurn
  <1>1. AnalysisInv => CallsInTurn
    BY DEF AnalysisInv, CallInv, RunCalls, Over, CallsInTurn
  <1> QED BY <1>1, AnalysisInvInit, AnalysisInvStep, PTL DEF AnalysisSpec
=============================================================================
