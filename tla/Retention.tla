------------------------------ MODULE Retention ------------------------------
(***************************************************************************)
(* Reclaiming what is no longer needed: retention_observer.py names objects *)
(* in signed plans, retention_reclaimer.py claims a plan in the coordination *)
(* database and takes its objects away one by one, and other programs write  *)
(* and remove the same files meanwhile.                                     *)
(*                                                                         *)
(* An object is a log or a snapshot directory; what its path holds at a      *)
(* time (inode, mtime and content hash) is a version.  An action is one      *)
(* object and version taken in charge by one plan: the configuration being   *)
(* fixed, that pair is its idempotency key.  Every claim takes the scope     *)
(* global:retention along with its sources and objects, so one lease stands  *)
(* for them all, and a plan is claimed at most once, so its number stands    *)
(* for the owner and the fencing token of the run that claimed it.           *)
(***************************************************************************)
EXTENDS Integers, FiniteSets

CONSTANTS
  Objects,      \* what may be reclaimed, in the order of object_id
  Snapshots,    \* those that are directories (expire-runtime-snapshot-v1)
  Shared,       \* bound: those that other programs write or remove
  MaxVersions,  \* bound: versions of an object
  MaxPlans,     \* bound: plans the observer issues
  DailyQuota,   \* max_bytes_per_day, every object counting one
  MaxDeaths     \* bound: reclaimers that die

ASSUME RetentionAssumption ==
  /\ IsFiniteSet(Objects) /\ Objects \subseteq Nat /\ Snapshots \subseteq Objects
  /\ Shared \subseteq Objects
  /\ MaxVersions \in Nat \ {0} /\ MaxPlans \in Nat /\ DailyQuota \in Nat /\ MaxDeaths \in Nat

VARIABLES
  source,      \* version at the path of each object, 0 when there is none
  newest,      \* newest version written of each object
  quarantine,  \* version in the quarantine path of each action, 0 when there is none
  damaged,     \* snapshots of which rmtree removed a part
  reclaimed,   \* <<object, version planned, version removed>>
  plan,        \* plans issued: the version each names of each object, 0 for none
  issued,      \* plans issued so far
  published,   \* plans latest-observer.json has pointed to
  ready,       \* plans whose reclaimer has passed its checks and not yet claimed
  consumed,    \* plans whose nonce is consumed
  holder,      \* the plan whose run holds the lease, 0 for none
  action,      \* retention_actions.state
  fence,       \* retention_actions.fencing_token
  today,       \* objects prepared since midnight
  phase,       \* where the run that claimed a plan is
  todo,        \* objects it has still to settle
  dry,         \* whether it is a dry run
  deaths       \* reclaimers dead so far

diskVars  == <<source, newest, quarantine, damaged, reclaimed>>
planVars  == <<plan, issued, published>>
claimVars == <<ready, consumed, holder, fence, today, dry>>
runVars   == <<phase, todo>>
retentionVars == <<source, newest, quarantine, damaged, reclaimed, plan, issued, published, ready,
                   consumed, holder, action, fence, today, phase, todo, dry, deaths>>

Versions == 1..MaxVersions
Plans    == 1..MaxPlans
Open     == {"prepared", "applied"}
Final    == {"verified", "rolled_back", "manual_attention", "held"}
Phases   == {"none", "idle", "checked", "moved", "applied", "matched", "unlinked",
             "failed", "restoring", "restored", "stuck", "aborting", "ended", "dead"}

RetentionTypeOK ==
  /\ source \in [Objects -> 0..MaxVersions]
  /\ newest \in [Objects -> Versions]
  /\ quarantine \in [Objects -> [Versions -> 0..MaxVersions]]
  /\ damaged \subseteq Objects \X Versions
  /\ reclaimed \subseteq Objects \X Versions \X Versions
  /\ plan \in [Plans -> [Objects -> 0..MaxVersions]]
  /\ issued \in 0..MaxPlans
  /\ published \subseteq Plans /\ ready \subseteq Plans /\ consumed \subseteq Plans
  /\ holder \in 0..MaxPlans
  /\ action \in [Objects -> [Versions -> {"none"} \union Open \union Final]]
  /\ fence \in [Objects -> [Versions -> 0..MaxPlans]]
  /\ today \in 0..DailyQuota
  /\ phase \in [Plans -> Phases]
  /\ todo \in [Plans -> SUBSET Objects]
  /\ dry \in [Plans -> BOOLEAN]
  /\ deaths \in 0..MaxDeaths

RetentionInit ==
  /\ source = [o \in Objects |-> 1] /\ newest = source
  /\ quarantine = [o \in Objects |-> [v \in Versions |-> 0]]
  /\ damaged = {} /\ reclaimed = {}
  /\ plan = [n \in Plans |-> [o \in Objects |-> 0]]
  /\ issued = 0 /\ published = {} /\ ready = {} /\ consumed = {} /\ holder = 0
  /\ action = [o \in Objects |-> [v \in Versions |-> "none"]]
  /\ fence = [o \in Objects |-> [v \in Versions |-> 0]]
  /\ today = 0
  /\ phase = [n \in Plans |-> "none"]
  /\ todo = [n \in Plans |-> {}]
  /\ dry = [n \in Plans |-> FALSE]
  /\ deaths = 0

-----------------------------------------------------------------------------
(* The other programs and the clock *)

(* Writes go to the path.  What is appended through a handle opened after the    *)
(* look for open ones, to the file in quarantine, is not modelled.             *)
Write(o) ==
  /\ newest[o] < MaxVersions
  /\ newest' = [newest EXCEPT ![o] = @ + 1]
  /\ source' = [source EXCEPT ![o] = newest[o] + 1]
  /\ UNCHANGED <<quarantine, damaged, reclaimed, planVars, claimVars, action, runVars, deaths>>

Remove(o) ==
  /\ source[o] # 0
  /\ source' = [source EXCEPT ![o] = 0]
  /\ UNCHANGED <<newest, quarantine, damaged, reclaimed, planVars, claimVars, action, runVars,
                 deaths>>

(* The lease lapses after two hours whether its run still goes on or not.      *)
HoldLapses ==
  /\ holder # 0
  /\ holder' = 0
  /\ UNCHANGED <<diskVars, planVars, ready, consumed, action, fence, today, dry, runVars, deaths>>

Midnight ==
  /\ today # 0
  /\ today' = 0
  /\ UNCHANGED <<diskVars, planVars, ready, consumed, holder, action, fence, dry, runVars, deaths>>

-----------------------------------------------------------------------------
(* The observer *)

(* Whole in its place: what the inventory takes as eligible and what the checks *)
(* of the reclaimer accept.                                                    *)
Whole(o, v) == source[o] = v /\ <<o, v>> \notin damaged

(* A plan names some of the objects there are (those due, with a capability);   *)
(* its row is in the database before the pointer names it.  A plan left         *)
(* unsigned or expired is one that no reclaimer ever starts.                    *)
Observe(due) ==
  /\ issued < MaxPlans
  /\ due # {} /\ \A o \in due : source[o] # 0 /\ Whole(o, source[o])
  /\ issued' = issued + 1
  /\ plan' = [plan EXCEPT ![issued + 1] = [o \in Objects |-> IF o \in due THEN source[o] ELSE 0]]
  /\ UNCHANGED <<diskVars, published, claimVars, action, runVars, deaths>>

Publish(n) ==
  /\ n <= issued /\ n \notin published
  /\ published' = published \union {n}
  /\ UNCHANGED <<diskVars, plan, issued, claimVars, action, runVars, deaths>>

-----------------------------------------------------------------------------
(* run_reclaimer: checks and claim *)

Named(n) == {o \in Objects : plan[n][o] # 0}

Unsettled == {o \in Objects : \E v \in Versions : action[o][v] \in Open}

(* The plan the pointer named is valid, the window is open, and no action is    *)
(* left prepared or applied.                                                   *)
Start(n) ==
  /\ n \in published \ ready
  /\ Unsettled = {}
  /\ ready' = ready \union {n}
  /\ UNCHANGED <<diskVars, planVars, consumed, holder, action, fence, today, dry, runVars, deaths>>

WithinQuota(n) == today + Cardinality(Named(n)) <= DailyQuota

Claimable(n) ==
  /\ n \notin consumed
  /\ WithinQuota(n)
  /\ holder = 0
  /\ \A o \in Named(n) : action[o][plan[n][o]] = "none"

Prepares(n, o, v) == o \in Named(n) /\ v = plan[n][o]

ClaimPlan(n, rehearsal) ==
  /\ n \in ready /\ Claimable(n)
  /\ ready' = ready \ {n}
  /\ consumed' = consumed \union {n}
  /\ holder' = n
  /\ action' = [o \in Objects |-> [v \in Versions |->
                  IF Prepares(n, o, v) THEN "prepared" ELSE action[o][v]]]
  /\ fence' = [o \in Objects |-> [v \in Versions |->
                 IF Prepares(n, o, v) THEN n ELSE fence[o][v]]]
  /\ today' = today + Cardinality(Named(n))
  /\ phase' = [phase EXCEPT ![n] = "idle"]
  /\ todo' = [todo EXCEPT ![n] = Named(n)]
  /\ dry' = [dry EXCEPT ![n] = rehearsal]
  /\ UNCHANGED <<diskVars, planVars, deaths>>

ClaimRefused(n) ==
  /\ n \in ready /\ ~Claimable(n)
  /\ ready' = ready \ {n}
  /\ UNCHANGED <<diskVars, planVars, consumed, holder, action, fence, today, dry, runVars, deaths>>

-----------------------------------------------------------------------------
(* _apply_action, on the objects of the plan in their order *)

At(n, o, p) ==
  /\ phase[n] = p
  /\ o \in todo[n] /\ \A q \in todo[n] : o <= q

Goes(n, p) == phase' = [phase EXCEPT ![n] = p] /\ UNCHANGED todo

Settled(n, o, p) == phase' = [phase EXCEPT ![n] = p] /\ todo' = [todo EXCEPT ![n] = @ \ {o}]

(* Mutant of Allowed: any change of state is made.                             *)
AllowedAny(from, to) == TRUE

Allowed(from, to) ==
  \/ from = "prepared" /\ to \in {"applied", "verified", "held", "manual_attention"}
  \/ from = "applied" /\ to \in {"verified", "rolled_back", "manual_attention"}

(* A change of state that is not allowed raises, and leaves the action alone.   *)
Transition(n, o, to) ==
  LET v == plan[n][o] IN
  action' = IF Allowed(action[o][v], to) THEN [action EXCEPT ![o][v] = to] ELSE action

(* Identity, hash, name and open handles are verified; any of the checks, or    *)
(* the headroom of the disk, may refuse.                                       *)
Preflight(n, o, ok) ==
  /\ At(n, o, "idle") /\ ~dry[n]
  /\ ok => Whole(o, plan[n][o])
  /\ Goes(n, IF ok THEN "checked" ELSE "aborting")
  /\ UNCHANGED <<diskVars, planVars, claimVars, action, deaths>>

(* os.replace moves whatever the path holds by now.                            *)
Move(n, o) ==
  /\ At(n, o, "checked")
  /\ IF source[o] = 0
     THEN Goes(n, "aborting") /\ UNCHANGED <<source, quarantine>>
     ELSE /\ source' = [source EXCEPT ![o] = 0]
          /\ quarantine' = [quarantine EXCEPT ![o][plan[n][o]] = source[o]]
          /\ Goes(n, "moved")
  /\ UNCHANGED <<newest, damaged, reclaimed, planVars, claimVars, action, deaths>>

RecordApplied(n, o) ==
  /\ At(n, o, "moved")
  /\ Transition(n, o, "applied")
  /\ Goes(n, "applied")
  /\ UNCHANGED <<diskVars, planVars, claimVars, deaths>>

(* The database, or a check after the move, may fail at any point.              *)
Fail(n, o) ==
  /\ \E p \in {"moved", "applied", "matched", "unlinked"} : At(n, o, p)
  /\ Goes(n, "failed")
  /\ UNCHANGED <<diskVars, planVars, claimVars, action, deaths>>

(* Mutant of Matches: the hash is not computed again.                          *)
MatchesAny(n, o) == TRUE

Matches(n, o) == quarantine[o][plan[n][o]] = plan[n][o] /\ <<o, plan[n][o]>> \notin damaged

CheckMoved(n, o) ==
  /\ At(n, o, "applied")
  /\ Goes(n, IF source[o] = 0 /\ Matches(n, o) THEN "matched" ELSE "failed")
  /\ UNCHANGED <<diskVars, planVars, claimVars, action, deaths>>

Unlink(n, o) ==
  LET v == plan[n][o] IN
  /\ At(n, o, "matched")
  /\ reclaimed' = reclaimed \union {<<o, v, quarantine[o][v]>>}
  /\ quarantine' = [quarantine EXCEPT ![o][v] = 0]
  /\ Goes(n, "unlinked")
  /\ UNCHANGED <<source, newest, damaged, planVars, claimVars, action, deaths>>

(* rmtree stops half-way.                                                      *)
UnlinkPart(n, o) ==
  /\ o \in Snapshots /\ At(n, o, "matched")
  /\ damaged' = damaged \union {<<o, quarantine[o][plan[n][o]]>>}
  /\ Goes(n, "failed")
  /\ UNCHANGED <<source, newest, quarantine, reclaimed, planVars, claimVars, action, deaths>>

(* The post-check: the path may have been written meanwhile.                   *)
Finish(n, o) ==
  /\ At(n, o, "unlinked") /\ source[o] = 0
  /\ Transition(n, o, "verified")
  /\ Settled(n, o, "idle")
  /\ UNCHANGED <<diskVars, planVars, claimVars, deaths>>

(* After a failure the object goes back, if it is in quarantine and its path    *)
(* free; whoever writes the path after that look is overwritten.               *)
LookBack(n, o) ==
  /\ At(n, o, "failed")
  /\ Goes(n, IF quarantine[o][plan[n][o]] # 0 /\ source[o] = 0 THEN "restoring" ELSE "stuck")
  /\ UNCHANGED <<diskVars, planVars, claimVars, action, deaths>>

Restore(n, o, ok) ==
  LET v == plan[n][o] IN
  /\ At(n, o, "restoring")
  /\ IF ok THEN /\ source' = [source EXCEPT ![o] = quarantine[o][v]]
                /\ quarantine' = [quarantine EXCEPT ![o][v] = 0]
     ELSE UNCHANGED <<source, quarantine>>
  /\ Goes(n, IF ok THEN "restored" ELSE "stuck")
  /\ UNCHANGED <<newest, damaged, reclaimed, planVars, claimVars, action, deaths>>

(* Mutant of Verdict: what crossed the applied boundary counts as rolled back.   *)
VerdictHopeful(n, o) ==
  IF action[o][plan[n][o]] # "applied" THEN "held" ELSE "rolled_back"

Verdict(n, o) ==
  IF action[o][plan[n][o]] # "applied" THEN "held"
  ELSE IF phase[n] = "restored" THEN "rolled_back" ELSE "manual_attention"

RecordFailure(n, o) ==
  /\ At(n, o, "restored") \/ At(n, o, "stuck")
  /\ Transition(n, o, Verdict(n, o))
  /\ Goes(n, "aborting")
  /\ UNCHANGED <<diskVars, planVars, claimVars, deaths>>

-----------------------------------------------------------------------------
(* run_reclaimer: the rest of the batch and the end *)

DryRun(n, o, ok) ==
  /\ At(n, o, "idle") /\ dry[n]
  /\ ok => Whole(o, plan[n][o])
  /\ IF ok THEN Transition(n, o, "verified") /\ Settled(n, o, "idle")
     ELSE Goes(n, "aborting") /\ UNCHANGED action
  /\ UNCHANGED <<diskVars, planVars, claimVars, deaths>>

(* The first failure holds what remains; an action that has its verdict keeps    *)
(* it.                                                                         *)
Abort(n, o) ==
  /\ At(n, o, "aborting")
  /\ Transition(n, o, "held")
  /\ Settled(n, o, "aborting")
  /\ UNCHANGED <<diskVars, planVars, claimVars, deaths>>

(* Mutant of BatchDone: a failure ends the run at once.                         *)
BatchDoneEarly(n) == (phase[n] = "idle" /\ todo[n] = {}) \/ phase[n] = "aborting"

BatchDone(n) == phase[n] \in {"idle", "aborting"} /\ todo[n] = {}

ReleasePlan(n) ==
  /\ BatchDone(n)
  /\ holder' = IF holder = n THEN 0 ELSE holder
  /\ Goes(n, "ended")
  /\ UNCHANGED <<diskVars, planVars, ready, consumed, action, fence, today, dry, deaths>>

(* The process dies, or the database refuses a verdict: nothing is released.    *)
Die(n) ==
  /\ deaths < MaxDeaths /\ phase[n] \notin {"none", "ended", "dead"}
  /\ deaths' = deaths + 1
  /\ Goes(n, "dead")
  /\ UNCHANGED <<diskVars, planVars, claimVars, action>>

ReclaimStep(n, o) ==
  \/ \E ok \in BOOLEAN : Preflight(n, o, ok) \/ Restore(n, o, ok) \/ DryRun(n, o, ok)
  \/ Move(n, o) \/ RecordApplied(n, o) \/ Fail(n, o) \/ CheckMoved(n, o)
  \/ Unlink(n, o) \/ UnlinkPart(n, o) \/ Finish(n, o)
  \/ LookBack(n, o) \/ RecordFailure(n, o) \/ Abort(n, o)

RetentionNext ==
  \/ \E o \in Shared : Write(o) \/ Remove(o)
  \/ HoldLapses \/ Midnight
  \/ \E due \in SUBSET Objects : Observe(due)
  \/ \E n \in Plans : \/ Publish(n) \/ Start(n) \/ ClaimRefused(n) \/ ReleasePlan(n) \/ Die(n)
                      \/ \E rehearsal \in BOOLEAN : ClaimPlan(n, rehearsal)
                      \/ \E o \in Objects : ReclaimStep(n, o)

RetentionSpec == RetentionInit /\ [][RetentionNext]_retentionVars

-----------------------------------------------------------------------------
(* Properties *)

(* Only what a signed plan named is ever removed: never a version written after   *)
(* the observer looked, whoever writes between the checks and the move.         *)
OnlyThePlannedIsRemoved == \A r \in reclaimed : r[2] = r[3]

(* The verdict of an action agrees with the disk, whichever step failed or died:  *)
(* verified (other than by a dry run) means removed, rolled back means neither    *)
(* removed nor left in quarantine, and nothing was removed or quarantined under  *)
(* an action nobody prepared.                                                  *)
VerdictsMatchTheDisk ==
  \A o \in Objects, v \in Versions :
    LET gone == \E w \in Versions : <<o, v, w>> \in reclaimed IN
    /\ action[o][v] = "verified" => gone \/ dry[fence[o][v]]
    /\ action[o][v] = "rolled_back" => ~gone /\ quarantine[o][v] = 0
    /\ gone => action[o][v] \in {"applied", "verified", "manual_attention"}
    /\ quarantine[o][v] # 0 => action[o][v] \in {"prepared", "applied", "manual_attention", "held"}

(* An action left open blocks every later plan ("reconciliation_required"), and   *)
(* only a dead reclaimer leaves one: a batch that fails settles all it prepared.  *)
NothingUnattended ==
  \A o \in Objects, v \in Versions :
    action[o][v] \in Open =>
      LET n == fence[o][v] IN phase[n] = "dead" \/ (phase[n] # "ended" /\ o \in todo[n])

(* A verdict is final: neither the abort of its batch nor a later plan that names  *)
(* the object again changes it.                                                *)
ActionVerdictsFinal ==
  [][\A o \in Objects, v \in Versions :
       action[o][v] \in Final => action'[o][v] = action[o][v]]_retentionVars

=============================================================================
