--------------------------- MODULE MemoryDelivery ---------------------------
(***************************************************************************)
(* The mirror of one local note at the remote service: the watcher of       *)
(* ov_memory_sync.py admits what it reads in the file, MemorySkillWriter     *)
(* (pm_memory_dispatcher.py) sends each admitted text, watches the task the  *)
(* service may start for it and reads it back, and the gateway sweeps the    *)
(* outbox these items share with the resources.                             *)
(*                                                                         *)
(* The item of a text is the outbox row memory:<name>:<hash>, so a text is   *)
(* admitted once.  A writer goes through the network and one transaction     *)
(* after another; its process may die or be suspended anywhere in between.   *)
(***************************************************************************)
EXTENDS Integers, FiniteSets

CONSTANTS
  Texts,           \* what the note may say
  NoText,          \* there is no file, no remote content
  Writers,         \* MemorySkillWriter instances at work
  MaxAttempts,     \* MemorySkillWriter.max_attempts
  MaxObservations, \* MemorySkillWriter.observation_max_attempts
  Laggards,        \* bound: texts the service may write after the request has ended
  Overlooks,       \* whether the watcher may be restarted or give a text up
  Imports,         \* whether a watcher that starts finds the note in the list of pending ones
  MaxMishaps       \* bound: writers that die or outlive their lease

ASSUME MemoryAssumption ==
  /\ NoText \notin Texts /\ IsFiniteSet(Texts) /\ Laggards \subseteq Texts
  /\ MaxAttempts \in Nat \ {0} /\ MaxObservations \in Nat \ {0}
  /\ Overlooks \in BOOLEAN /\ Imports \in BOOLEAN /\ MaxMishaps \in Nat

VARIABLES
  file,      \* the local note
  unseen,    \* its mtime is not the one the watcher has seen
  rowid,     \* order in which the texts were admitted, 0 before that
  lastRow,   \* texts admitted so far
  status,    \* outbox_items.status
  attempt,   \* outbox_items.attempt
  event,     \* memory_change_events.state
  lease,     \* outbox_dispatch_leases: none, held, or lapsed (past expires_at)
  journal,   \* operation_ledger: row of each text and attempt, see Rows
  watched,   \* memory_projections.observation_attempt
  remote,    \* what the service holds
  late,      \* texts the service may still write, for a request answered or given up
  proven,    \* texts that were read back from the service
  blind,     \* requests for each text that failed with no answer to go by
  phase,     \* where each writer is
  item,      \* the text it works on
  tried,     \* the attempt it read with the item
  cause,     \* the failure it is about to record
  mishaps    \* deaths and outlived leases so far

noteVars   == <<file, unseen, rowid, lastRow>>
itemVars   == <<status, attempt, event, lease>>
remoteVars == <<remote, late>>
taleVars   == <<proven, blind>>
workVars   == <<phase, item, tried, cause>>
memoryVars == <<file, unseen, rowid, lastRow, status, attempt, event, lease, journal,
                watched, remote, late, proven, blind, phase, item, tried, cause,
                mishaps>>

Tries   == 1..(MaxAttempts + 1)
Waiting == {"pending", "retry_wait"}
UnderWay == {"in_flight", "awaiting_task"}
Settled == {"completed", "quarantine", "failed", "dead_letter"}

(* What content/write may answer: the text is stored, will be by a task, by a   *)
(* task it does not name, or a status not known.  "recovered" is the response  *)
(* the writer journals itself when a read-back shows what no answer did.       *)
Replies == {"stored", "task", "no_task", "odd"}
Rows    == {"none", "pending", "unknown", "recovered"} \union Replies
Causes  == {"none", "429", "connection", "permanent", "quarantine"}
Phases  == {"idle", "claimed", "ready", "posting", "doubting", "deciding", "reading",
            "completing", "committing", "failing"}

MemoryTypeOK ==
  /\ file \in Texts \union {NoText} /\ unseen \in BOOLEAN
  /\ rowid \in [Texts -> 0..lastRow] /\ lastRow \in Nat
  /\ status \in [Texts -> {"none"} \union Waiting \union UnderWay \union Settled]
  /\ attempt \in [Texts -> 0..(MaxAttempts + 1)]
  /\ \A c \in Texts : status[c] \in Waiting \union {"in_flight"} => attempt[c] <= MaxAttempts
  /\ event \in [Texts -> {"none", "pending", "consumed", "quarantine"}]
  /\ lease \in [Texts -> {"none", "held", "lapsed"}]
  /\ journal \in [Texts -> [Tries -> Rows]]
  /\ watched \in [Texts -> 0..(MaxObservations - 1)]
  /\ remote \in Texts \union {NoText} /\ late \subseteq Texts
  /\ proven \subseteq Texts /\ blind \in [Texts -> Nat]
  /\ phase \in [Writers -> Phases] /\ item \in [Writers -> Texts \union {NoText}]
  /\ tried \in [Writers -> 0..(MaxAttempts + 1)] /\ cause \in [Writers -> Causes]
  /\ \A w \in Writers : phase[w] # "idle" => item[w] \in Texts
  /\ mishaps \in 0..MaxMishaps

MemoryInit ==
  /\ file \in Texts \union {NoText} /\ unseen = (file # NoText)
  /\ rowid = [c \in Texts |-> 0] /\ lastRow = 0
  /\ status = [c \in Texts |-> "none"]
  /\ attempt = [c \in Texts |-> 0]
  /\ event = [c \in Texts |-> "none"]
  /\ lease = [c \in Texts |-> "none"]
  /\ journal = [c \in Texts |-> [t \in Tries |-> "none"]]
  /\ watched = [c \in Texts |-> 0]
  /\ remote = NoText /\ late = {}
  /\ proven = {} /\ blind = [c \in Texts |-> 0]
  /\ phase = [w \in Writers |-> "idle"] /\ item = [w \in Writers |-> NoText]
  /\ tried = [w \in Writers |-> 0] /\ cause = [w \in Writers |-> "none"]
  /\ mishaps = 0

-----------------------------------------------------------------------------
(* The note and its watcher *)

Edit(c) ==
  /\ file # c
  /\ file' = c /\ unseen' = (c # NoText)
  /\ UNCHANGED <<rowid, lastRow, itemVars, journal, watched, remoteVars, taleVars,
                 workVars, mishaps>>

(* enqueue_memory_change finds the event and the item of a text it has seen.    *)
Admits(c) == rowid[c] = 0

Notice ==
  /\ unseen
  /\ unseen' = FALSE
  /\ IF Admits(file)
     THEN /\ rowid' = [rowid EXCEPT ![file] = lastRow + 1] /\ lastRow' = lastRow + 1
          /\ status' = [status EXCEPT ![file] = "pending"]
          /\ event' = [event EXCEPT ![file] = "pending"]
     ELSE UNCHANGED <<rowid, lastRow, status, event>>
  /\ UNCHANGED <<file, attempt, lease, journal, watched, remoteVars, taleVars,
                 workVars, mishaps>>

(* import_legacy_pending, when the watcher starts and its list of pending notes     *)
(* names this one, as it does once the watcher queued it: the text in the file    *)
(* is admitted, and its event and its item are quarantined unless they are past  *)
(* that.  The lease of an item stays.  Between its two transactions others find  *)
(* the item as Notice leaves it.                                               *)
ImportLegacy ==
  /\ Imports /\ file # NoText
  /\ unseen' = FALSE
  /\ IF Admits(file)
     THEN rowid' = [rowid EXCEPT ![file] = lastRow + 1] /\ lastRow' = lastRow + 1
     ELSE UNCHANGED <<rowid, lastRow>>
  /\ status' = IF status[file] \in {"none", "in_flight"} \union Waiting
               THEN [status EXCEPT ![file] = "quarantine"] ELSE status
  /\ event' = IF event[file] \in {"none", "pending"}
              THEN [event EXCEPT ![file] = "quarantine"] ELSE event
  /\ UNCHANGED <<file, attempt, lease, journal, watched, remoteVars, taleVars,
                 workVars, mishaps>>

(* A watcher that starts takes the files it finds as seen, and one that failed   *)
(* several times to queue a change gives it up.                                *)
Overlook ==
  /\ Overlooks /\ unseen
  /\ unseen' = FALSE
  /\ UNCHANGED <<file, rowid, lastRow, itemVars, journal, watched, remoteVars,
                 taleVars, workVars, mishaps>>

-----------------------------------------------------------------------------
(* The service and the clock *)

(* A write the service had taken in is made after the request ended.            *)
Land(c) ==
  /\ c \in late
  /\ remote' = c /\ late' = late \ {c}
  /\ UNCHANGED <<noteVars, itemVars, journal, watched, taleVars, workVars, mishaps>>

AtWork(c) == \E w \in Writers : phase[w] # "idle" /\ item[w] = c

(* A lease outlasts every request its writer makes, unless the writer is        *)
(* suspended, which counts as a mishap, or dead.                              *)
Lapse(c) ==
  /\ lease[c] = "held"
  /\ IF AtWork(c) THEN mishaps < MaxMishaps /\ mishaps' = mishaps + 1 ELSE UNCHANGED mishaps
  /\ lease' = [lease EXCEPT ![c] = "lapsed"]
  /\ UNCHANGED <<noteVars, status, attempt, event, journal, watched, remoteVars,
                 taleVars, workVars>>

(* SemanticGateway.dispatch_once: leases that lapsed or are missing, then the    *)
(* items past their retry deadline (overran), whatever their kind.  The event   *)
(* is left alone.                                                              *)
GatewayReclaims(c) == status[c] = "in_flight" /\ lease[c] # "held"

GatewaySweep(overran) ==
  /\ \A c \in overran : status[c] \in Waiting \/ GatewayReclaims(c)
  /\ status' = [c \in Texts |-> IF c \in overran THEN "dead_letter"
                                ELSE IF GatewayReclaims(c) THEN "retry_wait" ELSE status[c]]
  /\ lease' = [c \in Texts |-> IF c \in overran \/ lease[c] = "lapsed" THEN "none" ELSE lease[c]]
  /\ UNCHANGED <<noteVars, attempt, event, journal, watched, remoteVars, taleVars,
                 workVars, mishaps>>

-----------------------------------------------------------------------------
(* MemorySkillWriter: what is to be done next *)

Goes(w, p) == phase' = [phase EXCEPT ![w] = p] /\ UNCHANGED <<item, tried, cause>>

Fails(w, why) ==
  /\ phase' = [phase EXCEPT ![w] = "failing"]
  /\ cause' = [cause EXCEPT ![w] = why]
  /\ UNCHANGED <<item, tried>>

Takes(w, c, p) ==
  /\ phase' = [phase EXCEPT ![w] = p]
  /\ item' = [item EXCEPT ![w] = c]
  /\ tried' = [tried EXCEPT ![w] = attempt[c]]

Rests(w) ==
  /\ phase' = [phase EXCEPT ![w] = "idle"]
  /\ item' = [item EXCEPT ![w] = NoText]
  /\ tried' = [tried EXCEPT ![w] = 0]
  /\ cause' = [cause EXCEPT ![w] = "none"]

(* Mutant of Reclaimed: the lease of a writer that died is left alone.          *)
ReclaimedNever(c) == FALSE

Reclaimed(c) == lease[c] = "lapsed" /\ status[c] \in UnderWay

(* The first item due, lapsed leases being released before; when a retry is due  *)
(* is not told apart.                                                          *)
Claim(w, c) ==
  /\ phase[w] = "idle"
  /\ status[c] \in Waiting \/ Reclaimed(c)
  /\ \A d \in Texts : rowid[d] < rowid[c] => status[d] # "pending" /\ ~Reclaimed(d)
  /\ status' = [d \in Texts |-> IF d = c THEN "in_flight"
                                ELSE IF Reclaimed(d) THEN "retry_wait" ELSE status[d]]
  /\ lease' = [d \in Texts |-> IF d = c THEN "held"
                               ELSE IF lease[d] = "lapsed" THEN "none" ELSE lease[d]]
  /\ Takes(w, c, "claimed") /\ UNCHANGED cause
  /\ UNCHANGED <<noteVars, attempt, event, journal, watched, remoteVars, taleVars,
                 mishaps>>

(* reconcile_tasks, for one item: the task is asked for unless it is too late; an *)
(* answer is quiet when the task runs or the query fails.                      *)
Answers == {"success", "failure", "not_found", "too_late", "quiet"}

LastLook(c) == watched[c] + 1 >= MaxObservations

Hopeless(c, answer) ==
  answer \in {"failure", "not_found", "too_late"} \/ (answer = "quiet" /\ LastLook(c))

Poll(w, c, answer) ==
  /\ phase[w] = "idle" /\ status[c] = "awaiting_task"
  /\ \/ /\ Hopeless(c, answer)
        /\ Takes(w, c, "failing")
        /\ cause' = [cause EXCEPT ![w] = "quarantine"]
        /\ UNCHANGED watched
     \/ /\ ~Hopeless(c, answer) /\ answer = "success"
        /\ Takes(w, c, "reading") /\ UNCHANGED cause
        /\ UNCHANGED watched
     \/ /\ ~Hopeless(c, answer) /\ answer = "quiet"
        /\ watched' = [watched EXCEPT ![c] = @ + 1]
        /\ UNCHANGED workVars
  /\ UNCHANGED <<noteVars, itemVars, journal, remoteVars, taleVars, mishaps>>

-----------------------------------------------------------------------------
(* _write *)

(* Mutant of Superseded: newer texts are not looked for.                        *)
SupersededNever(c) == FALSE

Superseded(c) == \E d \in Texts : rowid[d] > rowid[c]

CheckFile(w) ==
  LET c == item[w] IN
  /\ phase[w] = "claimed"
  /\ IF file = NoText THEN Fails(w, "permanent")
     ELSE IF Superseded(c) \/ file # c THEN Fails(w, "quarantine")
     ELSE Goes(w, "ready")
  /\ UNCHANGED <<noteVars, itemVars, journal, watched, remoteVars, taleVars, mishaps>>

(* begin_operation: an answer journalled for this attempt is used again.         *)
Begin(w) ==
  LET c == item[w] t == tried[w] + 1 IN
  /\ phase[w] = "ready"
  /\ journal' = IF journal[c][t] = "none" THEN [journal EXCEPT ![c][t] = "pending"] ELSE journal
  /\ Goes(w, IF journal[c][t] \in {"none", "pending", "unknown"} THEN "posting" ELSE "deciding")
  /\ UNCHANGED <<noteVars, itemVars, watched, remoteVars, taleVars, mishaps>>

(* The request is answered; the answer is journalled.  The service writes the    *)
(* text at once, or later under the task.                                      *)
Posted(w, reply, now) ==
  LET c == item[w] IN
  /\ phase[w] = "posting"
  /\ now \/ (reply = "task" /\ c \in Laggards)
  /\ IF now THEN remote' = c /\ UNCHANGED late ELSE late' = late \union {c} /\ UNCHANGED remote
  /\ journal' = [journal EXCEPT ![c][tried[w] + 1] = reply]
  /\ Goes(w, "deciding")
  /\ UNCHANGED <<noteVars, itemVars, watched, taleVars, mishaps>>

(* Refused: nothing is written, and the row is left unknown.                    *)
Refused(w, why) ==
  LET c == item[w] IN
  /\ phase[w] = "posting"
  /\ journal' = [journal EXCEPT ![c][tried[w] + 1] = "unknown"]
  /\ Fails(w, why)
  /\ UNCHANGED <<noteVars, itemVars, watched, remoteVars, taleVars, mishaps>>

Outcomes == {"written", "late", "lost"}

Written(c, outcome) ==
  /\ outcome = "late" => c \in Laggards
  /\ remote' = IF outcome = "written" THEN c ELSE remote
  /\ late' = IF outcome = "late" THEN late \union {c} ELSE late

(* A timeout, a broken connection or a 5xx: what the service did is not known.   *)
Unanswered(w, outcome) ==
  LET c == item[w] IN
  /\ phase[w] = "posting"
  /\ Written(c, outcome)
  /\ journal' = [journal EXCEPT ![c][tried[w] + 1] = "unknown"]
  /\ blind' = [blind EXCEPT ![c] = @ + 1]
  /\ Goes(w, "doubting")
  /\ UNCHANGED <<noteVars, itemVars, watched, proven, mishaps>>

(* An answer that is no JSON raises out of _write: dispatch_pending takes it for *)
(* a connection failure, without a read-back, and the row stays pending.        *)
Garbled(w, outcome) ==
  /\ phase[w] = "posting"
  /\ Written(item[w], outcome)
  /\ Fails(w, "connection")
  /\ UNCHANGED <<noteVars, itemVars, journal, watched, taleVars, mishaps>>

(* "content/write response unknown after controlled resend".                   *)
Spent(c) == Cardinality({t \in Tries : journal[c][t] = "unknown"}) > 1

(* Mutant of Verified: whatever is read back will do.                          *)
VerifiedAny(c) == remote # NoText

Verified(c) == remote = c

(* The read-back after a request that was not answered, which may fail too.     *)
Doubt(w, answered) ==
  LET c == item[w] IN
  /\ phase[w] = "doubting"
  /\ IF answered /\ Verified(c)
     THEN /\ journal' = [journal EXCEPT ![c][tried[w] + 1] = "recovered"]
          /\ proven' = proven \union {remote}
          /\ Goes(w, "completing")
     ELSE /\ Fails(w, IF Spent(c) THEN "quarantine" ELSE "connection")
          /\ UNCHANGED <<journal, proven>>
  /\ UNCHANGED <<noteVars, itemVars, watched, remoteVars, blind, mishaps>>

(* What was kept for another attempt at a text is never read again once the text   *)
(* has its task or its verdict, and is dropped here.                           *)
Forgets(c) ==
  /\ journal' = [journal EXCEPT ![c] = [t \in Tries |-> "none"]]
  /\ blind' = [blind EXCEPT ![c] = 0]

(* The answer to a request, or one found in the journal; the status "verified"   *)
(* of a journalled read-back is none that content/write is known to answer.     *)
Decide(w) ==
  LET c == item[w] reply == journal[c][tried[w] + 1] IN
  /\ phase[w] = "deciding"
  /\ IF reply = "task"
     THEN /\ status' = [status EXCEPT ![c] = "awaiting_task"]
          /\ lease' = [lease EXCEPT ![c] = "none"]
          /\ watched' = [watched EXCEPT ![c] = 0]
          /\ Forgets(c)
          /\ Rests(w)
     ELSE /\ CASE reply = "stored" -> Goes(w, "reading")
               [] reply = "no_task" -> Fails(w, "quarantine")
               [] OTHER -> Fails(w, "permanent")
          /\ UNCHANGED <<status, lease, watched, journal, blind>>
  /\ UNCHANGED <<noteVars, attempt, event, remoteVars, proven, mishaps>>

ReadBack(w, answered) ==
  LET c == item[w] IN
  /\ phase[w] = "reading"
  /\ IF answered /\ Verified(c)
     THEN /\ proven' = proven \union {remote}
          /\ Goes(w, "completing")
     ELSE Fails(w, "quarantine") /\ UNCHANGED proven
  /\ UNCHANGED <<noteVars, itemVars, journal, watched, remoteVars, blind, mishaps>>

-----------------------------------------------------------------------------
(* _complete and _fail *)

CheckNewest(w) ==
  /\ phase[w] = "completing"
  /\ IF Superseded(item[w]) THEN Fails(w, "quarantine") ELSE Goes(w, "committing")
  /\ UNCHANGED <<noteVars, itemVars, journal, watched, remoteVars, taleVars, mishaps>>

Closes(c, verdict) == event' = IF event[c] = "pending" THEN [event EXCEPT ![c] = verdict] ELSE event

Complete(w) ==
  LET c == item[w] IN
  /\ phase[w] = "committing"
  /\ status' = IF status[c] \in UnderWay THEN [status EXCEPT ![c] = "completed"] ELSE status
  /\ lease' = [lease EXCEPT ![c] = "none"]
  /\ Closes(c, "consumed")
  /\ Forgets(c) /\ watched' = [watched EXCEPT ![c] = 0]
  /\ Rests(w)
  /\ UNCHANGED <<noteVars, attempt, remoteVars, proven, mishaps>>

(* Mutants of Charge and Exhausted: a retry is not counted; one too many is      *)
(* allowed.                                                                    *)
ChargeNothing(why, n) == n
ExhaustedLate(n) == n > MaxAttempts + 1

Charge(why, n) == IF why = "429" THEN n ELSE n + 1

Exhausted(n) == n > MaxAttempts

Verdict(why, n, overran) ==
  IF why = "permanent" THEN "failed"
  ELSE IF why = "quarantine" THEN "quarantine"
  ELSE IF overran \/ Exhausted(Charge(why, n)) THEN "dead_letter" ELSE "retry_wait"

NewAttempt(why, n, overran) ==
  IF overran \/ why \in {"permanent", "quarantine"} THEN n ELSE Charge(why, n)

(* overran: the retry deadline of the item has passed.                         *)
RecordFailure(w, overran) ==
  LET c == item[w] verdict == Verdict(cause[w], tried[w], overran) IN
  /\ phase[w] = "failing"
  /\ IF status[c] \in UnderWay
     THEN /\ status' = [status EXCEPT ![c] = verdict]
          /\ attempt' = [attempt EXCEPT ![c] = NewAttempt(cause[w], tried[w], overran)]
     ELSE UNCHANGED <<status, attempt>>
  /\ lease' = [lease EXCEPT ![c] = "none"]
  /\ IF verdict \in Settled
     THEN /\ Closes(c, "quarantine") /\ Forgets(c)
          /\ watched' = [watched EXCEPT ![c] = 0]
     ELSE UNCHANGED <<event, journal, blind, watched>>
  /\ Rests(w)
  /\ UNCHANGED <<noteVars, remoteVars, proven, mishaps>>

(* The process dies; the writer that takes its place knows nothing of the item.  *)
Die(w) ==
  /\ phase[w] # "idle" /\ mishaps < MaxMishaps
  /\ mishaps' = mishaps + 1
  /\ Rests(w)
  /\ UNCHANGED <<noteVars, itemVars, journal, watched, remoteVars, taleVars>>

-----------------------------------------------------------------------------

Post(w) ==
  \/ \E reply \in Replies, now \in BOOLEAN : Posted(w, reply, now)
  \/ \E why \in {"429", "permanent"} : Refused(w, why)
  \/ \E outcome \in Outcomes : Unanswered(w, outcome) \/ Garbled(w, outcome)

Work(w) ==
  \/ CheckFile(w) \/ Begin(w) \/ Post(w) \/ Decide(w)
  \/ \E answered \in BOOLEAN : Doubt(w, answered) \/ ReadBack(w, answered)
  \/ CheckNewest(w) \/ Complete(w)
  \/ \E overran \in BOOLEAN : RecordFailure(w, overran)

Look(w, c) == \E answer \in Answers : Poll(w, c, answer)

MemoryNext ==
  \/ \E c \in Texts \union {NoText} : Edit(c)
  \/ Notice \/ ImportLegacy \/ Overlook
  \/ \E overran \in SUBSET Texts : GatewaySweep(overran)
  \/ \E c \in Texts : Land(c) \/ Lapse(c)
  \/ \E w \in Writers : \/ Work(w) \/ Die(w)
                        \/ \E c \in Texts : Claim(w, c) \/ Look(w, c)

MemorySpec == MemoryInit /\ [][MemoryNext]_memoryVars

(* A writer takes its steps and leases run out.  The loop of the worker claims    *)
(* and polls in turn, and an item refused is not due again at once, so one that  *)
(* can be taken again and again is taken; one that fails again and again does    *)
(* so past its deadline in the end.                                            *)
MemoryFairness ==
  /\ \A c \in Texts : WF_memoryVars(Lapse(c))
  /\ \A w \in Writers : WF_memoryVars(Work(w)) /\ SF_memoryVars(RecordFailure(w, TRUE))
  /\ \A w \in Writers, c \in Texts :
       SF_memoryVars(Claim(w, c) \/ Look(w, c))

FairMemorySpec == MemorySpec /\ MemoryFairness

-----------------------------------------------------------------------------
(* Properties *)

(* No item is reported delivered, and no event consumed, unless the text was      *)
(* read back from the service, whichever answer was lost, late or journalled      *)
(* before a crash.                                                             *)
DeliveredIsProven ==
  \A c \in Texts : status[c] = "completed" \/ event[c] = "consumed" => c \in proven

(* An older edit never overwrites a newer one that was delivered ("Prevent an     *)
(* older edit from overwriting a newer admitted revision"), other than by a       *)
(* write the service was still to make, and never is delivered after it.         *)
NewerStands ==
  [][\A c, d \in Texts :
       rowid[c] # 0 /\ rowid[c] < rowid[d] /\ status[d] = "completed" =>
         /\ remote' = c /\ remote # c => c \in late
         /\ status'[c] = "completed" => status[c] = "completed"]_memoryVars

(* A text is sent blindly at most twice, and once more each time the writer died   *)
(* or overran its lease.  This is of the one writer a worker runs: when a second  *)
(* one takes the item of a writer that overran, the first may record its failure  *)
(* over the other's claim, and both go on to the next attempt.                   *)
ResendsAreControlled == \A c \in Texts : blind[c] <= 2 + mishaps

(* Every text admitted gets a verdict, whatever the service answers or the        *)
(* writers go through.                                                         *)
AdmittedTextsSettle ==
  \A c \in Texts : rowid[c] # 0 ~> status[c] \in Settled

(* "keep in step whenever a local note changes": once the watcher has seen the    *)
(* note, every text was delivered and nothing is under way, the service holds    *)
(* the note.                                                                   *)
ReplicaInStep ==
  (/\ file # NoText /\ ~unseen /\ late = {}
   /\ \A w \in Writers : phase[w] = "idle"
   /\ \A c \in Texts : rowid[c] # 0 => status[c] = "completed")
  => remote = file

=============================================================================
