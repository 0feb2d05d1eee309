------------------------------ MODULE Attention ------------------------------
(***************************************************************************)
(* The attention ledger: pm_ops_attention.py projects the failures recorded  *)
(* in the coordination database into ops_alerts, closes the alerts whose     *)
(* failure is gone, and tells the operator of the open ones.                 *)
(*                                                                         *)
(* The dispatcher makes such a pass at the end of each tick, the worker when *)
(* it has nothing to claim or a job is done; a pass is a chain of            *)
(* transactions, and the two interleave.  A fault stands for its fingerprint: *)
(* a row or a module with the reason given, the same one when it recurs, as   *)
(* the health of a module does; or registry, which the dispatcher reports     *)
(* itself.  Fewer rows are at fault than the 200 a pass reads of each table.  *)
(***************************************************************************)
EXTENDS Integers, FiniteSets

CONSTANTS
  Canonical,   \* faults a pass finds in the database
  registry,    \* registry_invalid, reported by _record_ops_alert
  dispatcher, worker,
  Grace,       \* bound: failing ticks after which the last completed one is stale
  MaxChanges,  \* bound: times a fault comes or goes
  MaxDeaths    \* bound: passes that die or raise

Faults     == Canonical \union {registry}
Projectors == {dispatcher, worker}

ASSUME AttentionAssumption ==
  /\ IsFiniteSet(Canonical) /\ registry \notin Canonical /\ dispatcher # worker
  /\ Grace \in Nat \ {0} /\ {MaxChanges, MaxDeaths} \subseteq Nat

VARIABLES
  fault,     \* faults the database shows at present
  age,       \* failing ticks since one completed, up to Grace
  open,      \* the open row of each fault, 0 for none
  closed,    \* states of the closed rows under its fingerprint, unique by schema
  evidence,  \* faults whose suppressed row carries details.suppression
  told,      \* alerts with a row of notification_deliveries, sent or failed
  notices,   \* times each alert was shown
  at, seen, healthy, hidden, todo, \* a pass: its step, what it read and has still to raise,
  queue, telling,                  \* what it has still to tell, and is telling
  changes, deaths,
  stale,     \* history: passes that read before the last change
  calm       \* history: a pass begun with none of these goes on, or has ended

rowVars   == <<open, closed, evidence>>
noticeVars  == <<told, notices>>
passVars  == <<at, seen, healthy, hidden, todo, queue, telling>>
worldVars == <<fault, age, changes, deaths>>
attentionVars == <<rowVars, noticeVars, passVars, worldVars, stale, calm>>

(* One open alert of each fault, and those the passes hold.                      *)
Alerts == 1..(3 * Cardinality(Faults))

Steps == {"idle", "looking", "looked", "raising", "listing", "telling"}

AttentionTypeOK ==
  /\ fault \subseteq Faults /\ age \in 0..Grace
  /\ open \in [Faults -> Alerts \union {0}]
  /\ closed \in [Faults -> SUBSET {"resolved", "suppressed", "acknowledged"}]
  /\ evidence \subseteq Faults
  /\ told \subseteq Alerts /\ notices \in [Alerts -> Nat]
  /\ at \in [Projectors -> Steps] /\ seen \in [Projectors -> SUBSET Canonical]
  /\ healthy \in [Projectors -> BOOLEAN] /\ hidden \in [Projectors -> SUBSET Faults]
  /\ todo \in [Projectors -> SUBSET Canonical] /\ queue \in [Projectors -> SUBSET Alerts]
  /\ telling \in [Projectors -> Alerts \union {0}]
  /\ changes \in 0..MaxChanges /\ deaths \in 0..MaxDeaths
  /\ stale \subseteq Projectors /\ calm \in {"no", "begun", "yes"}

AttentionInit ==
  /\ fault = {} /\ age = 0 /\ changes = 0 /\ deaths = 0
  /\ open = [f \in Faults |-> 0] /\ closed = [f \in Faults |-> {}] /\ evidence = {}
  /\ told = {} /\ notices = [a \in Alerts |-> 0]
  /\ at = [p \in Projectors |-> "idle"]
  /\ seen = [p \in Projectors |-> {}] /\ healthy = [p \in Projectors |-> FALSE]
  /\ hidden = [p \in Projectors |-> {}] /\ todo = [p \in Projectors |-> {}]
  /\ queue = [p \in Projectors |-> {}] /\ telling = [p \in Projectors |-> 0]
  /\ stale = {} /\ calm = "no"

-----------------------------------------------------------------------------
(* A module is degraded or well again, the registry file is broken or repaired.  *)
Change(f) ==
  /\ changes < MaxChanges
  /\ changes' = changes + 1
  /\ fault' = IF f \in fault THEN fault \ {f} ELSE fault \union {f}
  /\ UNCHANGED <<rowVars, noticeVars, passVars, age, deaths>>

Live ==
  ({open[f] : f \in Faults} \union UNION {queue[p] \union {telling[p]} : p \in Projectors}) \ {0}

(* What is known of a row nobody will look at again is dropped and its id is used   *)
(* again.                                                                     *)
Keep(known) ==
  /\ told' = known \intersect Live'
  /\ notices' = [a \in Alerts |-> IF a \in Live' THEN notices[a] ELSE 0]

(* upsert_ops_alert: the open row of the fingerprint, or a new one.               *)
Upsert(f) ==
  open' = [open EXCEPT ![f] = IF @ # 0 THEN @ ELSE CHOOSE a \in Alerts \ Live : TRUE]

(* A tick that cannot verify its registry reports it and makes a pass all the same; *)
(* another one completes, then makes its pass.                                 *)
Tick ==
  /\ at[dispatcher] = "idle"
  /\ IF registry \in fault
     THEN Upsert(registry) /\ age' = IF age < Grace THEN age + 1 ELSE Grace
     ELSE age' = 0 /\ UNCHANGED open
  /\ at' = [at EXCEPT ![dispatcher] = "looking"]
  /\ UNCHANGED <<closed, evidence, noticeVars, seen, healthy, hidden, todo, queue, telling,
                 fault, changes, deaths>>

-----------------------------------------------------------------------------
(* project_ops_attention *)

Proceeds(p, from, to) == at[p] = from /\ at' = [at EXCEPT ![p] = to]

(* Each table is read by a statement of its own; as no step relates two of them,   *)
(* one moment stands for all.  The registry row says valid ever since the first     *)
(* tick, so that only the freshness of the last tick decides.                   *)
Reads(p) ==
  /\ seen' = [seen EXCEPT ![p] = fault \intersect Canonical]
  /\ healthy' = [healthy EXCEPT ![p] = age < Grace]
  /\ UNCHANGED <<rowVars, noticeVars, hidden, todo, queue, telling, worldVars>>

Project == Proceeds(dispatcher, "looking", "looked") /\ Reads(dispatcher)

(* The pass of the worker begins here.                                         *)
RunOnce == Proceeds(worker, "idle", "looked") /\ Reads(worker)

(* list_ops_alert_fingerprints, by state                                        *)
Suppressed == {f \in Faults : "suppressed" \in closed[f]}

Hide(p) ==
  /\ Proceeds(p, "looked", "raising")
  /\ hidden' = [hidden EXCEPT ![p] = Suppressed]
  /\ todo' = [todo EXCEPT ![p] = seen[p] \ Suppressed]
  /\ UNCHANGED <<rowVars, noticeVars, seen, healthy, queue, telling, worldVars>>

Raise(p, f) ==
  /\ at[p] = "raising" /\ f \in todo[p]
  /\ Upsert(f)
  /\ todo' = [todo EXCEPT ![p] = @ \ {f}]
  /\ UNCHANGED <<closed, evidence, noticeVars, at, seen, healthy, hidden, queue, telling,
                 worldVars>>

(* Mutant of Resolvable: the alerts the dispatcher reports are never closed.     *)
ResolvableProjected(p) == Canonical

Resolvable(p) == IF healthy[p] THEN Faults ELSE Canonical

(* The state a row is closed in: one that no closed row of its fingerprint has.     *)
(* When all are taken the row is given a fingerprint of its own.                *)
ClosesAs(f) ==
  IF "resolved" \notin closed[f] THEN {"resolved"}
  ELSE IF "suppressed" \notin closed[f] THEN {"suppressed"}
  ELSE IF "acknowledged" \notin closed[f] THEN {"acknowledged"}
  ELSE {}

Resolve(p) ==
  LET gone == {f \in Resolvable(p) : open[f] # 0 /\ f \notin seen[p] \ hidden[p]} IN
  /\ Proceeds(p, "raising", "listing") /\ todo[p] = {}
  /\ open' = [f \in Faults |-> IF f \in gone THEN 0 ELSE open[f]]
  /\ closed' = [f \in Faults |-> closed[f] \union IF f \in gone THEN ClosesAs(f) ELSE {}]
  /\ seen' = [seen EXCEPT ![p] = {}] /\ hidden' = [hidden EXCEPT ![p] = {}]
  /\ healthy' = [healthy EXCEPT ![p] = FALSE]
  /\ UNCHANGED <<evidence, todo, queue, telling, worldVars>>
  /\ Keep(told)

-----------------------------------------------------------------------------
(* deliver_macos_notifications *)

List(p) ==
  /\ Proceeds(p, "listing", "telling")
  /\ queue' = [queue EXCEPT ![p] = {open[f] : f \in Faults} \ {0}]
  /\ UNCHANGED <<rowVars, noticeVars, seen, healthy, hidden, todo, telling, worldVars>>

(* Mutant of Told: whether an alert was shown is not looked up.                  *)
ToldNever(a) == FALSE

Told(a) == a \in told

Show(p, a) ==
  /\ at[p] = "telling" /\ telling[p] = 0 /\ a \in queue[p] /\ ~Told(a)
  /\ notices' = [notices EXCEPT ![a] = @ + 1]
  /\ telling' = [telling EXCEPT ![p] = a]
  /\ queue' = [queue EXCEPT ![p] = @ \ {a}]
  /\ UNCHANGED <<rowVars, told, at, seen, healthy, hidden, todo, worldVars>>

(* record_notification_delivery, whether the notice could be shown or not        *)
RecordDelivery(p) ==
  /\ telling[p] # 0
  /\ telling' = [telling EXCEPT ![p] = 0]
  /\ UNCHANGED <<rowVars, at, seen, healthy, hidden, todo, queue, worldVars>>
  /\ Keep(told \union {telling[p]})

PassEnds(p) ==
  /\ Proceeds(p, "telling", "idle") /\ telling[p] = 0 /\ \A a \in queue[p] : Told(a)
  /\ queue' = [queue EXCEPT ![p] = {}]
  /\ UNCHANGED <<rowVars, seen, healthy, hidden, todo, telling, worldVars>>
  /\ Keep(told)

(* The process dies, or a transaction raises, which _refresh_attention ignores.   *)
PassDies(p) ==
  /\ deaths < MaxDeaths /\ at[p] # "idle"
  /\ deaths' = deaths + 1
  /\ at' = [at EXCEPT ![p] = "idle"]
  /\ seen' = [seen EXCEPT ![p] = {}] /\ hidden' = [hidden EXCEPT ![p] = {}]
  /\ healthy' = [healthy EXCEPT ![p] = FALSE] /\ todo' = [todo EXCEPT ![p] = {}]
  /\ queue' = [queue EXCEPT ![p] = {}] /\ telling' = [telling EXCEPT ![p] = 0]
  /\ UNCHANGED <<rowVars, fault, age, changes>>
  /\ Keep(told)

-----------------------------------------------------------------------------
(* pm_ops_alert_reconcile.py suppresses, with evidence, the open alerts it has       *)
(* selected; one closed meanwhile is passed over, and a fingerprint that has a       *)
(* suppressed row is refused.                                                  *)
Suppress(f) ==
  /\ open[f] # 0 /\ f \notin Suppressed
  /\ open' = [open EXCEPT ![f] = 0]
  /\ closed' = [closed EXCEPT ![f] = @ \union {"suppressed"}]
  /\ evidence' = evidence \union {f}
  /\ UNCHANGED <<passVars, worldVars>>
  /\ Keep(told)

-----------------------------------------------------------------------------
PassStep(p) ==
  \/ Hide(p) \/ Resolve(p) \/ List(p) \/ RecordDelivery(p) \/ PassEnds(p)
  \/ \E f \in Canonical : Raise(p, f)
  \/ \E a \in Alerts : Show(p, a)

AttentionStep ==
  \/ \E f \in Faults : Change(f)
  \/ Tick \/ Project \/ RunOnce
  \/ \E p \in Projectors : PassStep(p) \/ PassDies(p)
  \/ \E f \in Canonical : Suppress(f)

(* The faults, the freshness of the last tick or what is suppressed have changed.   *)
Changed == <<fault, age, Suppressed>>' # <<fault, age, Suppressed>>

Began(p) == at[p] = "idle" /\ at'[p] # "idle"

(* A pass reads the database from its tick on, which sees the registry.            *)
History ==
  /\ stale' = {p \in Projectors : /\ at[p] # "idle" /\ at'[p] # "idle"
                                  /\ (Changed \/ p \in stale)}
  /\ calm' = CASE Changed -> "no"
              [] ~Changed /\ calm = "no" /\ Began(dispatcher) /\ stale = {} -> "begun"
              [] ~Changed /\ calm = "begun" /\ at'[dispatcher] = "idle" ->
                   IF deaths' = deaths THEN "yes" ELSE "no"
              [] OTHER -> calm

AttentionNext == AttentionStep /\ History

AttentionSpec == AttentionInit /\ [][AttentionNext]_attentionVars

-----------------------------------------------------------------------------
(* Properties *)

(* An alert is shown once by each process that comes upon it before the other has   *)
(* recorded it, and once more for each pass that died, on however many passes it    *)
(* is found open.                                                             *)
FewNotices == \A a \in Alerts : notices[a] <= Cardinality(Projectors) + deaths

(* When a pass of the dispatcher has ended that began after the last change, with    *)
(* no pass going on that had read before it, the open alerts are the faults there    *)
(* are, but for those suppressed, and the operator was told of each: whatever the     *)
(* overlapping passes before it read too early or left undone, and whatever the       *)
(* worker has done since.  Only an alert of the registry is missing, as long as the   *)
(* last tick that completed is fresh.                                          *)
Due(f) == f \in fault /\ IF f \in Canonical THEN f \notin Suppressed ELSE age = Grace

AlertsFollow ==
  calm = "yes" => \A f \in Faults : /\ open[f] # 0 <=> Due(f)
                                    /\ open[f] # 0 => open[f] \in told

(* "A later recurrence creates a new open alert" (pm_system_store.py:3082): the     *)
(* faults a pass leaves without an alert are those an operator suppressed with     *)
(* evidence.  The code breaks it: a second recovery is closed as suppressed.      *)
RecurrenceReopens ==
  \A p \in Projectors : at[p] = "raising" => seen[p] \intersect hidden[p] \subseteq evidence
=============================================================================
