-------------------------- MODULE ResourceDelivery --------------------------
(***************************************************************************)
(* The senders and the observer of pm_resource_dispatcher.py on top of the *)
(* outbox, and the remote service they talk to.                            *)
(*                                                                         *)
(* A sender claims one item, uploads its file, submits it (add_resource),   *)
(* reads it back and reports to the gateway.  Each request is journalled in *)
(* operation_ledger before it is made: one row for the upload of an item    *)
(* and one for each attempt to submit it.  A sender whose lease ran out     *)
(* goes on, so several may work on one item; a sender may die anywhere.     *)
(* Accepted tasks are polled by the observer in two transactions.           *)
(***************************************************************************)
EXTENDS Outbox

CONSTANTS
  MaxObservations,  \* PMResourceDispatcher.observation_max_attempts
  MaxCrashes,       \* bound: senders and observers that die
  MaxAnswers        \* bound: polls answered and not yet recorded

ASSUME DeliveryAssumption ==
  MaxObservations \in Nat \ {0} /\ MaxCrashes \in Nat /\ MaxAnswers \in Nat

VARIABLES
  senders,    \* senders at work, see Sender
  upload,     \* ledger row of temp_upload, by item
  file,       \* temp_file_id in that row
  ledger,     \* ledger rows of add_resource, by item and attempt
  rowFile,    \* the file id in the request of each of these rows
  posts,      \* add_resource requests made so far
  applied,    \* items the remote service has stored
  remote,     \* state of the remote task of each item
  taskId,     \* items whose semantic task has an openviking_task_id
  observed,   \* semantic_task_observations.observation_attempt
  answers,    \* polls of the observer: read, not recorded
  releases,   \* items whose reservation the observer is about to release
  crashes     \* crashes so far

ledgerVars   == <<upload, file, ledger, rowFile, posts>>
remoteVars   == <<applied, remote>>
observerVars == <<taskId, observed, answers, releases>>
deliveryVars == <<outboxVars, senders, upload, file, ledger, rowFile, posts,
                  applied, remote, taskId, observed, answers, releases, crashes>>

Tries == 1..(MaxAttempts + 1)

(* What add_resource may say: the resource is stored, is being processed under *)
(* a task, is created with no task to watch, or no usable status (a refusal, or *)
(* a processing state without a task).                                         *)
Replies == {"stored", "processing", "created", "rejected"}
Faults  == {"429", "transient", "permanent"}

(* Mutant of Accepting: any answer is an acceptance.                           *)
AcceptingAny(reply) == TRUE

Accepting(reply) == reply # "rejected"

Sender ==
  [item : Items, token : Nat \ {0}, try : Tries, file : Nat,
   phase : {"claimed", "uploading", "uploaded", "posting", "posted", "answered"},
   reply : {"none", "unresolved"} \union Replies \union Faults, verified : BOOLEAN]

DeliveryTypeOK ==
  /\ OutboxTypeOK
  /\ senders \subseteq Sender
  /\ upload \in [Items -> {"none", "pending", "unknown", "accepted"}]
  /\ file \in [Items -> Nat]
  /\ ledger \in [Items -> [Tries -> {"none", "pending", "unknown", "limited"} \union Replies]]
  /\ rowFile \in [Items -> [Tries -> Nat]]
  /\ posts \in [Items -> Nat]
  /\ applied \subseteq Items
  /\ remote \in [Items -> {"none", "active", "done", "failed"}]
  /\ taskId \subseteq Items
  /\ observed \in [Items -> 0..MaxObservations]
  /\ answers \subseteq [item : Items, count : Nat, verdict : TaskStatus]
  /\ releases \subseteq Items
  /\ crashes \in 0..MaxCrashes

DeliveryInit ==
  /\ OutboxInit
  /\ senders = {}
  /\ upload = [i \in Items |-> "none"]
  /\ file = [i \in Items |-> 0]
  /\ ledger = [i \in Items |-> [n \in Tries |-> "none"]]
  /\ rowFile = [i \in Items |-> [n \in Tries |-> 0]]
  /\ posts = [i \in Items |-> 0]
  /\ applied = {}
  /\ remote = [i \in Items |-> "none"]
  /\ taskId = {}
  /\ observed = [i \in Items |-> 0]
  /\ answers = {}
  /\ releases = {}
  /\ crashes = 0

Becomes(s, t) == senders' = (senders \ {s}) \union {t}

-----------------------------------------------------------------------------
(* dispatch_pending: claim *)

Submit(i, open) ==
  /\ Enqueue(i, open)
  /\ UNCHANGED <<senders, ledgerVars, remoteVars, observerVars, crashes>>

Claim(i, open) ==
  /\ Dispatch(i, open)
  /\ senders' = senders \union
       {[item |-> i, token |-> dispatched[i] + 1, try |-> attempt[i] + 1, file |-> 0,
         phase |-> "claimed", reply |-> "none", verified |-> FALSE]}
  /\ UNCHANGED <<ledgerVars, remoteVars, observerVars, crashes>>

ClaimNothing ==
  /\ DispatchNothing
  /\ UNCHANGED <<senders, ledgerVars, remoteVars, observerVars, crashes>>

-----------------------------------------------------------------------------
(* _send *)

(* An upload that was answered is not repeated; one that stayed without an     *)
(* answer is repeated by the first two attempts.                               *)
BeginUpload(s) ==
  /\ s.phase = "claimed"
  /\ IF upload[s.item] = "accepted"
     THEN /\ Becomes(s, [s EXCEPT !.phase = "uploaded", !.file = file[s.item]])
          /\ UNCHANGED upload
     ELSE IF upload[s.item] # "none" /\ s.try > 2
     THEN /\ Becomes(s, [s EXCEPT !.phase = "answered", !.reply = "permanent"])
          /\ UNCHANGED upload
     ELSE /\ Becomes(s, [s EXCEPT !.phase = "uploading"])
          /\ upload' = [upload EXCEPT ![s.item] = IF @ = "none" THEN "pending" ELSE @]
  /\ UNCHANGED <<outboxVars, file, ledger, rowFile, posts, remoteVars, observerVars, crashes>>

(* Each upload gets a file id of its own.                                      *)
UploadAnswered(s) ==
  /\ s.phase = "uploading"
  /\ upload' = [upload EXCEPT ![s.item] = "accepted"]
  /\ file' = [file EXCEPT ![s.item] = @ + 1]
  /\ Becomes(s, [s EXCEPT !.phase = "uploaded", !.file = file[s.item] + 1])
  /\ UNCHANGED <<outboxVars, ledger, rowFile, posts, remoteVars, observerVars, crashes>>

UploadFails(s, fault) ==
  /\ s.phase = "uploading"
  /\ upload' = [upload EXCEPT ![s.item] = "unknown"]
  /\ Becomes(s, [s EXCEPT !.phase = "answered", !.reply = fault])
  /\ UNCHANGED <<outboxVars, file, ledger, rowFile, posts, remoteVars, observerVars, crashes>>

(* Rows whose response_state is "unknown": a 429 answer is kept as one.         *)
Unknown(i) == {n \in Tries : ledger[i][n] \in {"unknown", "limited"}}

(* Mutant of Row: an attempt without an answer is made again.                  *)
RowForgetful(s) == IF ledger[s.item][s.try] = "pending" THEN "none" ELSE ledger[s.item][s.try]

(* The ledger row this attempt finds.                                          *)
Row(s) == ledger[s.item][s.try]

(* A request that differs from the one in its row is refused by               *)
(* begin_operation: another sender has uploaded the file anew.                 *)
Conflicting(s) == Row(s) # "none" /\ rowFile[s.item][s.try] # s.file

(* A submission without an answer is repeated once, under the next attempt;     *)
(* an answer already journalled is used again.                                 *)
GiveUp(s) == (Unknown(s.item) # {} /\ s.try > 2) \/ Conflicting(s)

RefuseAdd(s) ==
  /\ s.phase = "uploaded" /\ GiveUp(s)
  /\ Becomes(s, [s EXCEPT !.phase = "answered", !.reply = "permanent"])
  /\ UNCHANGED <<outboxVars, ledgerVars, remoteVars, observerVars, crashes>>

BeginAdd(s) ==
  /\ s.phase = "uploaded" /\ ~GiveUp(s) /\ Row(s) = "none"
  /\ ledger' = [ledger EXCEPT ![s.item][s.try] = "pending"]
  /\ rowFile' = [rowFile EXCEPT ![s.item][s.try] = s.file]
  /\ posts' = [posts EXCEPT ![s.item] = @ + 1]
  /\ Becomes(s, [s EXCEPT !.phase = "posting"])
  /\ UNCHANGED <<outboxVars, upload, file, remoteVars, observerVars, crashes>>

(* What an answer of add_resource leads to.                                    *)
Answered(s, reply) ==
  IF Accepting(reply) THEN [s EXCEPT !.phase = "posted", !.reply = reply]
  ELSE [s EXCEPT !.phase = "answered", !.reply = "permanent"]

ReuseAdd(s) ==
  /\ s.phase = "uploaded" /\ ~GiveUp(s) /\ Row(s) # "none"
  /\ Becomes(s, IF Row(s) \in Replies THEN Answered(s, Row(s))
                ELSE [s EXCEPT !.phase = "answered", !.reply = "unresolved"])
  /\ UNCHANGED <<outboxVars, ledgerVars, remoteVars, observerVars, crashes>>

(* The service may have stored a resource whatever it answers, and has if it   *)
(* says so.                                                                    *)
Serve(i, reply) ==
  /\ applied' \in {applied \union {i}} \union (IF reply = "rejected" THEN {applied} ELSE {})
  /\ remote' = [remote EXCEPT ![i] = IF reply = "processing" THEN "active" ELSE @]

AddAnswered(s, reply) ==
  /\ s.phase = "posting"
  /\ ledger' = [ledger EXCEPT ![s.item][s.try] = reply]
  /\ Serve(s.item, reply)
  /\ Becomes(s, Answered(s, reply))
  /\ UNCHANGED <<outboxVars, upload, file, rowFile, posts, observerVars, crashes>>

(* No usable answer: the exchange failed or timed out, or an error came back.   *)
AddFails(s, fault) ==
  /\ s.phase = "posting"
  /\ ledger' = [ledger EXCEPT ![s.item][s.try] = IF fault = "429" THEN "limited" ELSE "unknown"]
  /\ Serve(s.item, "rejected")
  /\ Becomes(s, [s EXCEPT !.phase = "answered", !.reply = fault])
  /\ UNCHANGED <<outboxVars, upload, file, rowFile, posts, observerVars, crashes>>

(* _read_back finds the revision or not; a verified body is recorded before     *)
(* the item is acknowledged.                                                   *)
Verify(i, found) ==
  /\ found => i \in applied
  /\ content' = [content EXCEPT ![Revision[i]] = IF found THEN "content_verified" ELSE @]
  /\ UNCHANGED <<status, attempt, lease, dispatched, task, quotaVars, bucketVars, clockVars>>

ReadBack(s, found) ==
  /\ s.phase = "posted"
  /\ Verify(s.item, found)
  /\ Becomes(s, [s EXCEPT !.phase = "answered", !.verified = found])
  /\ UNCHANGED <<ledgerVars, remoteVars, observerVars, crashes>>

Semantic(reply) ==
  CASE reply = "stored" -> "completed"
    [] reply = "processing" -> "processing"
    [] OTHER -> "accepted"

(* The answer reaches the gateway, which ignores it under a stale token.        *)
Report(s) ==
  /\ s.phase = "answered"
  /\ IF lease[s.item] # s.token THEN UNCHANGED <<outboxVars, taskId>>
     ELSE IF s.reply \in Replies
     THEN /\ Ack(s.item, Semantic(s.reply), s.verified)
          /\ taskId' = IF s.reply = "processing" THEN taskId \union {s.item} ELSE taskId
     ELSE /\ CASE s.reply = "429" -> FailRateLimited(s.item)
               [] s.reply \in {"transient", "unresolved"} -> FailTransient(s.item)
               [] s.reply = "permanent" -> FailPermanent(s.item)
          /\ UNCHANGED taskId
  /\ senders' = senders \ {s}
  /\ UNCHANGED <<ledgerVars, remoteVars, observed, answers, releases, crashes>>

(* The process of a sender dies; a request under way may still be served.       *)
SenderDies(s) ==
  /\ crashes < MaxCrashes
  /\ IF s.phase = "posting" THEN Serve(s.item, "rejected") ELSE UNCHANGED remoteVars
  /\ senders' = senders \ {s}
  /\ crashes' = crashes + 1
  /\ UNCHANGED <<outboxVars, ledgerVars, observerVars>>

-----------------------------------------------------------------------------
(* The observer: reconcile_content and reconcile_tasks *)

ReconcileContent(i) ==
  /\ status[i] = "completed" /\ content[Revision[i]] # "content_verified"
  /\ Verify(i, TRUE)
  /\ UNCHANGED <<senders, ledgerVars, remoteVars, observerVars, crashes>>

(* Mutants: errors are not counted; one observation too many.                  *)
CountedNever(i, result) == 0
ExhaustedLate(count) == count > MaxObservations

(* Only answers that say nothing about the task count against its budget.       *)
Counted(i, result) == IF result \in {"error", "gone"} THEN observed[i] + 1 ELSE 0
Exhausted(count)   == count >= MaxObservations

(* The remote task is polled.  Errors count against a budget and a deadline     *)
(* (spent); a task the service no longer knows (404) is given up at once.       *)
Poll(i, result, spent) ==
  LET count == Counted(i, result)
      verdict == CASE result = "active" -> "processing"
                   [] result = "done" -> "completed"
                   [] result = "failed" -> "failed"
                   [] result = "gone" -> "quarantine"
                   [] OTHER -> IF Exhausted(count) \/ spent THEN "quarantine" ELSE task[i]
  IN /\ task[i] \in {"accepted", "processing"} /\ i \in taskId
     /\ result \in {"active", "done", "failed"} => remote[i] = result
     /\ Cardinality(answers) < MaxAnswers
     /\ answers' = answers \union {[item |-> i, count |-> count, verdict |-> verdict]}
     /\ UNCHANGED <<outboxVars, senders, ledgerVars, remoteVars, taskId, observed,
                    releases, crashes>>

(* _update_observation: the verdict, then the reservation in a transaction of   *)
(* its own.                                                                    *)
RecordPoll(a) ==
  /\ ObserveTask(a.item, a.verdict)
  /\ observed' = [observed EXCEPT ![a.item] = a.count]
  /\ answers' = answers \ {a}
  /\ releases' = IF a.verdict \in {"completed", "failed", "quarantine"}
                 THEN releases \union {a.item} ELSE releases
  /\ UNCHANGED <<senders, ledgerVars, remoteVars, taskId, crashes>>

FinishRelease(i) ==
  /\ i \in releases
  /\ ReleaseReservation(i)
  /\ releases' = releases \ {i}
  /\ UNCHANGED <<senders, ledgerVars, remoteVars, taskId, observed, answers, crashes>>

ObserverDies ==
  /\ crashes < MaxCrashes
  /\ answers \union releases # {}
  /\ answers' = {} /\ releases' = {}
  /\ crashes' = crashes + 1
  /\ UNCHANGED <<outboxVars, senders, ledgerVars, remoteVars, taskId, observed>>

-----------------------------------------------------------------------------
(* The remote service and the clock *)

RemoteEnds(i, result) ==
  /\ remote[i] = "active"
  /\ remote' = [remote EXCEPT ![i] = result]
  /\ UNCHANGED <<outboxVars, senders, ledgerVars, applied, observerVars, crashes>>

DeliveryTime ==
  /\ OutboxTime
  /\ UNCHANGED <<senders, ledgerVars, remoteVars, observerVars, crashes>>

SenderStep(s) ==
  \/ BeginUpload(s) \/ UploadAnswered(s)
  \/ \E fault \in Faults : UploadFails(s, fault) \/ AddFails(s, fault)
  \/ RefuseAdd(s) \/ BeginAdd(s) \/ ReuseAdd(s)
  \/ \E reply \in Replies : AddAnswered(s, reply)
  \/ \E found \in BOOLEAN : ReadBack(s, found)
  \/ Report(s)

Polls == \E i \in Items, result \in {"active", "done", "failed", "error", "gone"},
             spent \in BOOLEAN : Poll(i, result, spent)
RecordPolls == \E a \in answers : RecordPoll(a)
FinishReleases == \E i \in Items : FinishRelease(i)

DeliveryNext ==
  \/ \E i \in Items, open \in BOOLEAN : Submit(i, open) \/ Claim(i, open)
  \/ ClaimNothing
  \/ \E s \in senders : SenderStep(s) \/ SenderDies(s)
  \/ \E i \in Items : ReconcileContent(i)
  \/ Polls \/ RecordPolls \/ FinishReleases
  \/ ObserverDies
  \/ \E i \in Items, result \in {"done", "failed"} : RemoteEnds(i, result)
  \/ DeliveryTime

DeliverySpec == DeliveryInit /\ [][DeliveryNext]_deliveryVars

(* Requests of a sender end (each has a timeout); the resource thread keeps    *)
(* sweeping the outbox and polling; the clock runs and the service finishes its *)
(* tasks.  Nothing says that an item is ever dispatched.                       *)
DeliveryFairness ==
  /\ WF_deliveryVars(\E s \in senders : SenderStep(s))
  /\ WF_deliveryVars(ClaimNothing)
  /\ WF_deliveryVars(Polls) /\ WF_deliveryVars(RecordPolls)
  /\ \A i \in Items :
       /\ WF_deliveryVars(LeaseLapses(i) /\ DeliveryTime)
       /\ WF_deliveryVars(DeadlinePasses(i) /\ DeliveryTime)
       /\ WF_deliveryVars(\E result \in {"done", "failed"} : RemoteEnds(i, result))

FairDeliverySpec == DeliverySpec /\ DeliveryFairness

-----------------------------------------------------------------------------
(* Properties *)

(* An attempt is submitted at most once, by whichever sender opened its row:    *)
(* senders that overlap after a lapsed lease never post the same attempt.       *)
OnePostPerTry ==
  \A i \in Items : posts[i] = Cardinality({n \in Tries : ledger[i][n] # "none"})

(* A task that ended stays ended, whatever an observer that polled earlier      *)
(* still has to record.                                                        *)
TaskVerdictsFinal ==
  [][\A i \in Items :
       task[i] \in {"completed", "failed", "quarantine", "dead_letter"}
         => task'[i] = task[i]]_deliveryVars

(* Leases, breaker, journal and crashes taken away, publishing is RemoteWrite:  *)
(* what is acknowledged has been taken by the service, once and for all.        *)
Fate ==
  [absent |-> "none", pending |-> "owed", retry_wait |-> "owed", in_flight |-> "owed",
   completed |-> "delivered", failed |-> "dropped", dead_letter |-> "dropped"]

Remote == INSTANCE RemoteWrite
  WITH fate <- [i \in Items |-> Fate[status[i]]], sent <- posts, taken <- applied,
       MaxSends <- MaxAttempts + 1

ImplementsRemoteWrite == Remote!Spec

(* An item that was accepted settles: its lease is reclaimed if its sender       *)
(* died, and its deadline ends the retries.                                    *)
ItemsSettle == \A i \in Items : status[i] = "pending" ~> status[i] \in Terminal

(* A task that can be watched ends, by the verdict of the service or by the     *)
(* budget of observations.                                                     *)
WatchedTasksSettle ==
  \A i \in Items :
    task[i] \in {"accepted", "processing"} /\ i \in taskId
      ~> task[i] \in {"completed", "failed", "quarantine"}

(* "keeps the item in the shared throttle window without incrementing its       *)
(* attempt" (gateway): an attempt whose answer was a 429 is not charged.        *)
LimitedIsNotCharged ==
  [][\A i \in Items :
       attempt'[i] > attempt[i] => ledger[i][attempt'[i]] # "limited"]_deliveryVars

=============================================================================
