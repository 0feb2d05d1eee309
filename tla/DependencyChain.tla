---------------------------- MODULE DependencyChain ----------------------------
(***************************************************************************)
(* The scheduled path end to end: the worker process and its threads on    *)
(* top of the coordination database, and the dependency events through     *)
(* which a completed source sync creates its refresh planner.              *)
(*                                                                         *)
(* A calendar job (Upstream) is claimed by a worker thread, which runs the *)
(* handler, writes its evidence and a source manifest to the run's         *)
(* directory, appends a dependency event, the final run event, and releases*)
(* the lease.  The dispatcher consumes pending events and accepts one      *)
(* planner job per event.  A planner is named here by the event it would   *)
(* come from: the upstream run (Feeder) and the attempt (Try) whose        *)
(* manifest it refreshes from, the identity in the event key.              *)
(*                                                                         *)
(* A thread that loses its lease is not stopped, so a thread is a record   *)
(* of its own, apart from the slot it was started for.  The jobs accepted   *)
(* by hand, whose threads ask a model, are those of ModelCalls.             *)
(***************************************************************************)
EXTENDS Coordination

CONSTANTS
  Upstream,    \* calendar jobs whose completion feeds a planner
  Feeder,      \* upstream job of each planner
  Try,         \* attempt of the upstream job of each planner
  MaxCrashes   \* bound: crashes of the worker and dispatcher processes

Planners == ScheduledJobs \ Upstream

ASSUME ChainAssumption ==
  /\ Upstream \subseteq ScheduledJobs
  /\ Feeder \in [Planners -> Upstream]
  /\ Try \in [Planners -> Nat \ {0}]
  /\ MaxCrashes \in Nat

VARIABLES
  threads,   \* live worker threads, see Thread
  serving,   \* the worker process is up and past startup_reconcile
  handler,   \* handler.json in the directory of each run: attempt and verdict
  manifest,  \* attempt that wrote source-manifest.json of an upstream run
  event,     \* scheduled_dependency_events.status, by planner
  tick,      \* what the dispatcher knows about the event it is consuming
  crashes    \* crashes so far

coordinationVars == vars
fileVars == <<handler, manifest>>
chainVars == <<vars, threads, serving, handler, manifest, event, tick, crashes>>

Thread ==
  [job : Jobs, claim : Nat \ {0}, lost : BOOLEAN, ok : BOOLEAN,
   phase : {"claimed", "handler", "evidence", "built", "unbuilt", "event", "recorded"}]

Idle == [phase |-> "idle"]

ChainTypeOK ==
  /\ TypeOK
  /\ threads \subseteq Thread
  /\ serving \in BOOLEAN
  /\ handler \in [Jobs -> [try : Nat, ok : BOOLEAN]]
  /\ manifest \in [Upstream -> Nat]
  /\ event \in [Planners -> {"none", "pending", "consumed", "blocked"}]
  /\ tick \in {Idle} \union [phase : {"ready", "blocked", "decided"}, planner : Planners]
  /\ crashes \in 0..MaxCrashes

ChainInit ==
  /\ Init
  /\ threads = {}
  /\ serving = FALSE
  /\ handler = [j \in Jobs |-> [try |-> 0, ok |-> FALSE]]
  /\ manifest = [u \in Upstream |-> 0]
  /\ event = [p \in Planners |-> "none"]
  /\ tick = Idle
  /\ crashes = 0

-----------------------------------------------------------------------------
(* The worker process *)

(* serve: recover, then claim while a thread of the pool is free.  A thread  *)
(* that lost its lease still occupies the pool.                              *)
StartServing ==
  /\ ~serving
  /\ StartupReconcile
  /\ serving' = TRUE
  /\ UNCHANGED <<threads, fileVars, event, tick, crashes>>

PoolHasRoom == serving /\ Cardinality(threads) < Cardinality(Slots)

ServeClaim(j, s, open) ==
  /\ PoolHasRoom
  /\ ClaimNext(j, s, open)
  /\ threads' = threads \union
       {[job |-> j, claim |-> claims[j] + 1, lost |-> FALSE, ok |-> FALSE,
         phase |-> "claimed"]}
  /\ UNCHANGED <<serving, fileVars, event, tick, crashes>>

ServeIdle(open) ==
  /\ PoolHasRoom
  /\ ClaimNothing(open)
  /\ UNCHANGED <<threads, serving, fileVars, event, tick, crashes>>

(* The process dies with its threads; what they wrote stays.                 *)
WorkerCrash ==
  /\ serving /\ crashes < MaxCrashes
  /\ serving' = FALSE
  /\ threads' = {}
  /\ crashes' = crashes + 1
  /\ UNCHANGED <<coordinationVars, fileVars, event, tick>>

-----------------------------------------------------------------------------
(* One worker thread: process_claim and _run_scheduled_handler *)

Holds(t, s) == Leased(s) /\ lease[s] = <<t.job, t.claim>>

Becomes(t, u) == threads' = (threads \ {t}) \union {u}

(* A run event; recovery reads the events of running and interrupted runs.   *)
LogEvent(j, done) ==
  IF runStatus[j] \in {"running", "interrupted"}
  THEN AppendRunEvent(j, done)
  ELSE UNCHANGED coordinationVars

(* A cancelled run is not started: its lease is gone, so the release that     *)
(* follows changes nothing.                                                   *)
ThreadDeclines(t) ==
  /\ t.phase = "claimed"
  /\ runStatus[t.job] = "cancelled"
  /\ threads' = threads \ {t}
  /\ UNCHANGED <<coordinationVars, serving, fileVars, event, tick, crashes>>

ThreadStarts(t) ==
  /\ t.phase = "claimed"
  /\ runStatus[t.job] # "cancelled"
  /\ LogEvent(t.job, FALSE)
  /\ Becomes(t, [t EXCEPT !.phase = "handler"])
  /\ UNCHANGED <<serving, fileVars, event, tick, crashes>>

(* The heartbeat thread of a running handler renews the lease or learns that  *)
(* it is lost, and then stops.                                                *)
ThreadBeats(t) ==
  /\ t.phase = "handler" /\ ~t.lost
  /\ \/ /\ \E s \in Slots : Holds(t, s) /\ Heartbeat(s)
        /\ UNCHANGED threads
     \/ /\ \A s \in Slots : ~Holds(t, s)
        /\ Becomes(t, [t EXCEPT !.lost = TRUE])
        /\ UNCHANGED coordinationVars
  /\ UNCHANGED <<serving, fileVars, event, tick, crashes>>

(* The handler ends or times out; a lease known to be lost makes it a         *)
(* failure.  The heartbeat has stopped from here on.                          *)
HandlerEnds(t, ok) ==
  /\ t.phase = "handler"
  /\ ok => ~t.lost
  /\ handler' = [handler EXCEPT ![t.job] = [try |-> t.claim, ok |-> ok]]
  /\ Becomes(t, [t EXCEPT !.phase = "evidence", !.ok = ok])
  /\ UNCHANGED <<coordinationVars, serving, manifest, event, tick, crashes>>

(* _append_weekly_dependency_event, first half: the source manifest.  It carries *)
(* its time of writing, so each attempt has a manifest hash, and an event, of    *)
(* its own.  A ledger may be missing and the build or the write may fail         *)
(* (built = FALSE), which fails neither the handler nor the run.                *)
BuildManifest(t, built) ==
  /\ t.phase = "evidence" /\ t.job \in Upstream
  /\ built => t.ok
  /\ manifest' = IF built THEN [manifest EXCEPT ![t.job] = t.claim] ELSE manifest
  /\ Becomes(t, [t EXCEPT !.phase = IF built THEN "built" ELSE "unbuilt"])
  /\ UNCHANGED <<coordinationVars, serving, handler, event, tick, crashes>>

(* Second half: the event and the run event that names it.  Without a manifest   *)
(* the event is blocked from the start and nothing reads it again: it is not    *)
(* kept here.  An error (written = FALSE), which may come after the event was    *)
(* appended, rewrites handler.json as failed.                                   *)
AppendDependencyEvent(t, appended, written) ==
  /\ t.phase \in {"built", "unbuilt"}
  /\ written => appended
  /\ event' = [p \in Planners |->
                 IF /\ appended /\ t.phase = "built"
                    /\ Feeder[p] = t.job /\ Try[p] = t.claim /\ event[p] = "none"
                 THEN "pending" ELSE event[p]]
  /\ IF written
     THEN LogEvent(t.job, FALSE) /\ UNCHANGED handler
     ELSE /\ handler' = [handler EXCEPT ![t.job] = [try |-> t.claim, ok |-> FALSE]]
          /\ UNCHANGED coordinationVars
  /\ Becomes(t, [t EXCEPT !.phase = "event", !.ok = @ /\ written])
  /\ UNCHANGED <<serving, manifest, tick, crashes>>

(* The package, its manifest and the final run event.  Without an artifact     *)
(* manifest (indexed = FALSE) the run is not a completed delivery.             *)
RecordOutcome(t, indexed) ==
  /\ t.phase = IF t.job \in Upstream THEN "event" ELSE "evidence"
  /\ LogEvent(t.job, t.ok /\ indexed)
  /\ Becomes(t, [t EXCEPT !.phase = "recorded", !.ok = @ /\ indexed])
  /\ UNCHANGED <<serving, fileVars, event, tick, crashes>>

(* An exception anywhere before that fails the run; a cancelled run gets no     *)
(* event, which LogEvent does not record either.                                 *)
ThreadFails(t) ==
  /\ t.phase \in {"handler", "evidence", "built", "unbuilt", "event"}
  /\ LogEvent(t.job, FALSE)
  /\ Becomes(t, [t EXCEPT !.phase = "recorded", !.ok = FALSE])
  /\ UNCHANGED <<serving, fileVars, event, tick, crashes>>

ReleaseHeld(t, noRetry, fits) ==
  /\ t.phase = "recorded"
  /\ \E s \in Slots :
       /\ Holds(t, s)
       /\ Release(s, IF t.ok THEN "completed" ELSE "failed", noRetry, fits, TRUE)
  /\ threads' = threads \ {t}
  /\ UNCHANGED <<serving, fileVars, event, tick, crashes>>

(* release found a stale lease: run/terminal_state_uncertain is appended.     *)
ReleaseStale(t) ==
  /\ t.phase = "recorded"
  /\ \A s \in Slots : ~Holds(t, s)
  /\ LogEvent(t.job, FALSE)
  /\ threads' = threads \ {t}
  /\ UNCHANGED <<serving, fileVars, event, tick, crashes>>

-----------------------------------------------------------------------------
(* The dispatcher: one tick at a time under a process-wide file lock *)

TickAcceptsCalendar(j) ==
  /\ tick = Idle /\ j \in Upstream
  /\ AcceptScheduled(j)
  /\ UNCHANGED <<threads, serving, fileVars, event, tick, crashes>>

TickRecordsCalendar(j, state) ==
  /\ tick = Idle /\ j \in Upstream
  /\ RecordDecision(j, state)
  /\ UNCHANGED <<threads, serving, fileVars, event, tick, crashes>>

TickReconciles ==
  /\ tick = Idle
  /\ ReconcileOccurrences
  /\ UNCHANGED <<threads, serving, fileVars, event, tick, crashes>>

(* _dependency_validation: what the event in hand deserves.                   *)
Intact(p) ==
  manifest[Feeder[p]] = Try[p] /\ handler[Feeder[p]] = [try |-> Try[p], ok |-> TRUE]

(* Mutants of Verdict: the upstream run is not waited for; an interrupted run  *)
(* is waited for.                                                              *)
VerdictEager(p) == IF Intact(p) THEN "ready" ELSE "blocked"

VerdictPatient(p) ==
  IF runStatus[Feeder[p]] \in Waiting \union {"running", "interrupted"} THEN "waiting"
  ELSE IF runStatus[Feeder[p]] = "completed" /\ Intact(p) THEN "ready"
  ELSE "blocked"

Verdict(p) ==
  IF runStatus[Feeder[p]] \in Waiting \union {"running"} THEN "waiting"
  ELSE IF runStatus[Feeder[p]] = "completed" /\ Intact(p) THEN "ready"
  ELSE "blocked"

(* Mutant of TickValidates: the event is consumed before its occurrence is     *)
(* decided.                                                                    *)
TickValidatesEarly(p) ==
  /\ tick = Idle
  /\ event[p] = "pending"
  /\ Verdict(p) # "waiting"
  /\ tick' = [phase |-> IF Verdict(p) = "ready" THEN "decided" ELSE "blocked",
              planner |-> p]
  /\ UNCHANGED <<coordinationVars, threads, serving, fileVars, event, crashes>>

(* A waiting event is left as it is.                                           *)
TickValidates(p) ==
  /\ tick = Idle
  /\ event[p] = "pending"
  /\ Verdict(p) # "waiting"
  /\ tick' = [phase |-> Verdict(p), planner |-> p]
  /\ UNCHANGED <<coordinationVars, threads, serving, fileVars, event, crashes>>

TickBlocks(p) ==
  /\ tick = [phase |-> "blocked", planner |-> p]
  /\ event' = [event EXCEPT ![p] = IF @ = "pending" THEN "blocked" ELSE @]
  /\ tick' = Idle
  /\ UNCHANGED <<coordinationVars, threads, serving, fileVars, crashes>>

(* The planner's occurrence is expired, accepted with its job, or found to     *)
(* have a job already.                                                         *)
TickDecides(p) ==
  /\ tick = [phase |-> "ready", planner |-> p]
  /\ \/ RecordDecision(p, "expired")
     \/ AcceptScheduled(p)
     \/ jobStatus[p] # "absent" /\ UNCHANGED coordinationVars
  /\ tick' = [phase |-> "decided", planner |-> p]
  /\ UNCHANGED <<threads, serving, fileVars, event, crashes>>

TickConsumes(p) ==
  /\ tick = [phase |-> "decided", planner |-> p]
  /\ event' = [event EXCEPT ![p] = IF @ = "pending" THEN "consumed" ELSE @]
  /\ tick' = Idle
  /\ UNCHANGED <<coordinationVars, threads, serving, fileVars, crashes>>

(* The dispatcher dies between two transactions; the next tick starts over.    *)
DispatcherCrash ==
  /\ tick # Idle /\ crashes < MaxCrashes
  /\ tick' = Idle
  /\ crashes' = crashes + 1
  /\ UNCHANGED <<coordinationVars, threads, serving, fileVars, event>>

-----------------------------------------------------------------------------
(* The control plane and the clock *)

ApiCancel(j) ==
  /\ Cancel(j)
  /\ UNCHANGED <<threads, serving, fileVars, event, tick, crashes>>

(* The deadline of a planner runs from the completion its event reports.       *)
ChainDeadline(j) ==
  /\ j \in Planners => event[j] # "none"
  /\ DeadlinePasses(j)
  /\ UNCHANGED <<threads, serving, fileVars, event, tick, crashes>>

ChainTime ==
  /\ (\E s \in Slots : LeaseLapses(s)) \/ (\E j \in ScheduledJobs : BackoffEnds(j))
  /\ UNCHANGED <<threads, serving, fileVars, event, tick, crashes>>

ThreadStep(t) ==
  \/ ThreadDeclines(t) \/ ThreadStarts(t) \/ ThreadFails(t)
  \/ \E ok \in BOOLEAN : HandlerEnds(t, ok)
  \/ \E built \in BOOLEAN : BuildManifest(t, built)
  \/ \E appended, written \in BOOLEAN : AppendDependencyEvent(t, appended, written)
  \/ \E indexed \in BOOLEAN : RecordOutcome(t, indexed)
  \/ \E noRetry, fits \in BOOLEAN : ReleaseHeld(t, noRetry, fits)
  \/ ReleaseStale(t)

TickStep ==
  \E p \in Planners :
    TickValidates(p) \/ TickBlocks(p) \/ TickDecides(p) \/ TickConsumes(p)

ServeStep ==
  \/ \E j \in ScheduledJobs, s \in Slots, open \in BOOLEAN : ServeClaim(j, s, open)
  \/ \E open \in BOOLEAN : ServeIdle(open)

ChainNext ==
  \/ StartServing
  \/ ServeStep
  \/ WorkerCrash
  \/ \E t \in threads : ThreadStep(t)
  \/ \E t \in threads : ThreadBeats(t)
  \/ \E j \in Upstream : TickAcceptsCalendar(j)
  \/ \E j \in Upstream, d \in {"deferred", "suppressed", "expired"} :
       TickRecordsCalendar(j, d)
  \/ TickReconciles
  \/ TickStep
  \/ DispatcherCrash
  \/ \E j \in ScheduledJobs : ApiCancel(j) \/ ChainDeadline(j)
  \/ ChainTime

ChainSpec == ChainInit /\ [][ChainNext]_chainVars

(* Threads run to their end (handlers have a timeout), the worker is restarted *)
(* and keeps polling, the dispatcher is started every 30 seconds, time passes.  *)
Fairness ==
  /\ WF_chainVars(StartServing)
  /\ WF_chainVars(ServeStep)
  /\ \A j \in ScheduledJobs : WF_chainVars(\E t \in threads : t.job = j /\ ThreadStep(t))
  /\ WF_chainVars(TickStep)
  /\ \A j \in ScheduledJobs : WF_chainVars(ChainDeadline(j))

LiveChain == ChainSpec /\ Fairness

-----------------------------------------------------------------------------
(* Properties *)

(* A run never executes in two threads, not even when its lease was taken      *)
(* from a slow one: the threads of a run would share its directory.            *)
OneThreadPerRun == \A t, u \in threads : t.job = u.job => t = u

(* A run is completed only on the handler.json its last attempt wrote, whether *)
(* the worker, or recovery after a crash, said so.                             *)
CompletionIsEarned ==
  \A j \in ScheduledJobs : runStatus[j] = "completed" =>
    handler[j] = [try |-> claims[j], ok |-> TRUE]

(* A planner job exists only for a completed upstream run, and the manifest it *)
(* refreshes from is still the one its event names.                            *)
PlannerHasItsManifest ==
  \A p \in Planners : jobStatus[p] # "absent" =>
    runStatus[Feeder[p]] = "completed" /\ Intact(p)

(* A consumed event has its occurrence, whatever the dispatcher lived through. *)
ConsumedIsDecided ==
  \A p \in Planners : event[p] = "consumed" => jobStatus[p] # "absent" \/ occ[p] = "expired"

(* Every accepted job reaches a verdict, which is final: time and again none is  *)
(* left open.                                                                  *)
JobsSettle == []<>(\A j \in Jobs : jobStatus[j] \in Settled \union {"absent"})

(* Every dependency event is consumed or blocked in the end, which is final too. *)
EventsResolve == []<>(\A p \in Planners : event[p] # "pending")

(* What _append_weekly_dependency_event promises: the event is left pending    *)
(* until its run is terminally completed, so no refresh is silently lost.      *)
NoRefreshLost ==
  \A p \in Planners :
    event[p] = "blocked" /\ Intact(p) => runStatus[Feeder[p]] # "completed"
=============================================================================
