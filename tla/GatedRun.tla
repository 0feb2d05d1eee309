------------------------------ MODULE GatedRun ------------------------------
(***************************************************************************)
(* A run kept in files: its event log and the projection of it in            *)
(* state.json (pm_loop_runtime.py), the runners that analyse it              *)
(* (pm_loop_runner.py), the human gate and the recovery of the control plane  *)
(* server, and the one-shot runners of the approved actions                  *)
(* (pm_loop_action_runner.py).  All are processes or threads of their own.     *)
(*                                                                         *)
(* Of the log only what is read back is kept: the tokens approved and the     *)
(* actions completed, and with them the decisions reported carried out.  A     *)
(* crash may come between an event and its projection, which the next event    *)
(* makes good.                                                              *)
(***************************************************************************)
EXTENDS Integers, Sequences, FiniteSets

CONSTANTS
  ActionCount, \* actions an analysis proposes behind its gate
  Runners,     \* attempts to analyse the run, by their decision's token
  Reviews,     \* bound: gate requests that find the run awaiting one
  Executors,   \* action runners, one per approval and per restart
  MaxOutages   \* bound: times the server dies

ASSUME GatedRunAssumption ==
  /\ ActionCount \in Nat /\ Runners \subseteq Nat \ {0} /\ 1 \in Runners
  /\ Executors \subseteq Nat \ {0} /\ MaxOutages \in Nat
  /\ Cardinality(Reviews) + MaxOutages <= Cardinality(Executors)

VARIABLES
  log,       \* events.jsonl
  shown,     \* the status in state.json
  marker,    \* the file CANCEL
  decision,  \* decision.json: its gate's token and whether it has one
  expired,   \* tokens past their expiry
  runner,    \* Runners to where they are, and whether they ask for a gate
  review,    \* Reviews to where their thread is, and the token it checked
  cancel,    \* where a request to cancel is
  executor,  \* Executors to where they are, their token and what is done
  lock,      \* the executor that holds .action.lock, or 0
  receipts,  \* actions to the tokens they were performed under
  up,        \* whether the server runs
  crashed    \* times it died

gatedVars == <<log, shown, marker, decision, expired, runner, review, cancel, executor, lock,
             receipts, up, crashed>>

ActionIds == 1..ActionCount
NoToken == 0
Tokens == Runners \union {NoToken}

\* STATUS_BY_EVENT, of the events that are appended.
StatusByEvent ==
  [t \in {"run/started", "source/completed", "analysis/started", "verification/completed",
          "gate/requested", "gate/paused", "gate/changes_requested", "gate/approved",
          "action/queued", "action/started", "action/completed", "action/failed",
          "run/completed", "run/failed", "run/cancelled"} |->
     CASE t = "run/started"            -> "running"
       [] t = "source/completed"       -> "reasoning"
       [] t = "analysis/started"       -> "analyzing"
       [] t \in {"verification/completed", "action/completed"} -> "verifying"
       [] t = "gate/requested"         -> "awaiting_human"
       [] t = "gate/paused"            -> "paused"
       [] t = "gate/changes_requested" -> "changes_requested"
       [] t \in {"gate/approved", "action/queued"} -> "action_queued"
       [] t = "action/started"         -> "executing"
       [] t = "run/completed"          -> "completed"
       [] t \in {"action/failed", "run/failed"} -> "failed"
       [] t = "run/cancelled"          -> "cancelled"]

TerminalStates == {"completed", "failed", "cancelled", "rejected"}

\* The log once an event of this type, about this token or action, is in it.
Logged(type, ref) ==
  [approvals   |-> IF type = "gate/approved" THEN Append(log.approvals, ref) ELSE log.approvals,
   completions |-> IF type = "action/completed" THEN Append(log.completions, ref)
                                                ELSE log.completions,
   carriedOut  |-> log.carriedOut \union (IF type = "run/completed" THEN {ref} ELSE {})]

\* RunStore.append: the event and its projection, under the lock of the run.
Record(type, ref) ==
  /\ log' = Logged(type, ref)
  /\ shown' = StatusByEvent[type]

\* What processes that die with these events at hand leave: none, or one of them
\* in the log, with state.json as it was.
CutShort(events) ==
  /\ \/ UNCHANGED log
     \/ \E e \in events : log' = Logged(e[1], e[2])
  /\ UNCHANGED shown

GatedRunInit ==
  /\ log = [approvals |-> <<>>, completions |-> <<>>, carriedOut |-> {}]
  /\ shown = "queued"
  /\ marker = FALSE
  /\ decision = [token |-> NoToken, gated |-> FALSE]
  /\ expired = {}
  /\ runner = [r \in Runners |-> [at |-> IF r = 1 THEN "begin" ELSE "none", gated |-> FALSE]]
  /\ review = [d \in Reviews |-> [at |-> "none", token |-> NoToken]]
  /\ cancel = "none"
  /\ executor = [x \in Executors |-> [at |-> "none", token |-> NoToken, done |-> {}]]
  /\ lock = 0
  /\ receipts = [a \in ActionIds |-> {}]
  /\ up = TRUE
  /\ crashed = 0

-----------------------------------------------------------------------------
(* The runner *)

MoveRunner(r, place) == runner' = [runner EXCEPT ![r].at = place]

\* pm_loop_runner.py run, by hand, while or after another runner works.
StartRunner(r) ==
  /\ runner[r].at = "none"
  /\ MoveRunner(r, "begin")
  /\ UNCHANGED <<log, shown, marker, decision, expired, review, cancel, executor, lock,
                 receipts, up, crashed>>

\* run_once ends at once for a run that ended; check_cancel looks for the marker.
LookRound(r) ==
  /\ \/ /\ runner[r].at = "begin"
        /\ MoveRunner(r, IF shown \in TerminalStates THEN "over" ELSE "check")
     \/ /\ runner[r].at \in {"check", "checkStarted", "checkCollected"}
        /\ MoveRunner(r, IF ~marker THEN CASE runner[r].at = "check"          -> "start"
                                           [] runner[r].at = "checkStarted"   -> "collect"
                                           [] runner[r].at = "checkCollected" -> "analyze"
                         ELSE IF shown \in TerminalStates THEN "over" ELSE "cancelling")
  /\ UNCHANGED <<log, shown, marker, decision, expired, review, cancel, executor, lock,
                 receipts, up, crashed>>

\* The event a runner is about to append.  Events it appends in a row stand for
\* the last of them.
RunnerEvents(r) ==
  CASE runner[r].at = "start"      -> {<<"run/started", NoToken>>}
    [] runner[r].at = "collect"    -> {<<"source/completed", NoToken>>}
    [] runner[r].at = "analyze"    -> {<<"analysis/started", NoToken>>}
    [] runner[r].at = "report"     -> {<<"verification/completed", NoToken>>}
    [] runner[r].at = "close"      -> {<<IF runner[r].gated THEN "gate/requested"
                                                            ELSE "run/completed", NoToken>>}
    [] runner[r].at = "cancelling" -> {<<"run/cancelled", NoToken>>}
    [] runner[r].at = "failing"    -> {<<"run/failed", NoToken>>}
    [] OTHER -> {}

RunnerRecords(r) ==
  /\ \E e \in RunnerEvents(r) : Record(e[1], e[2])
  /\ MoveRunner(r, CASE runner[r].at = "start"   -> "checkStarted"
                     [] runner[r].at = "collect" -> "checkCollected"
                     [] runner[r].at = "analyze" -> "invoke"
                     [] runner[r].at = "report"  -> "close"
                     [] OTHER -> "over")
  /\ UNCHANGED <<marker, decision, expired, review, cancel, executor, lock, receipts, up, crashed>>

\* execute_analysis: the answer becomes decision.json, in place of an earlier one.
Analyse(r, gated) ==
  /\ runner[r].at = "invoke"
  /\ decision' = [token |-> IF gated THEN r ELSE NoToken, gated |-> gated]
  /\ runner' = [runner EXCEPT ![r] = [at |-> "report", gated |-> gated]]
  /\ UNCHANGED <<log, shown, marker, expired, review, cancel, executor, lock, receipts, up, crashed>>

\* The sources cannot be read, the analysis fails or its report cannot be written.
RunnerFails(r) ==
  /\ runner[r].at \in {"collect", "invoke", "report"}
  /\ MoveRunner(r, "failing")
  /\ UNCHANGED <<log, shown, marker, decision, expired, review, cancel, executor, lock,
                 receipts, up, crashed>>

-----------------------------------------------------------------------------
(* The gate *)

\* start_action_runner
Launch ==
  \E x \in Executors :
    /\ executor[x].at = "none" /\ \A y \in Executors : y < x => executor[y].at # "none"
    /\ executor' = [executor EXCEPT ![x].at = "waiting"]

\* _gate_decision reads the status and the decision; what it does comes later.
GateDecision(d) ==
  /\ up /\ review[d].at = "none"
  /\ shown = "awaiting_human"
  /\ \E place \in {IF decision.gated THEN "approve" ELSE "waive", "changes", "pause"} :
       review' = [review EXCEPT ![d] = [at |-> place, token |-> decision.token]]
  /\ UNCHANGED <<log, shown, marker, decision, expired, runner, cancel, executor, lock, receipts,
                 up, crashed>>

\* An approval without a gate also reports the action named by scope.action_id as
\* queued, started and completed, with neither lock nor receipt.  That is left out:
\* _normalize_loop_scope refuses the field, which no loop declares.
ReviewEvents(d) ==
  CASE review[d].at = "approve" -> {<<"gate/approved", review[d].token>>}
    [] review[d].at = "queue"   -> {<<"action/queued", review[d].token>>}
    [] review[d].at = "waive"   -> {<<"gate/approved", NoToken>>}
    [] review[d].at = "close"   -> {<<"run/completed", NoToken>>}
    [] review[d].at = "changes" -> {<<"gate/changes_requested", NoToken>>}
    [] review[d].at = "pause"   -> {<<"gate/paused", NoToken>>}
    [] OTHER -> {}

ReviewRecords(d) ==
  /\ \E e \in ReviewEvents(d) : Record(e[1], e[2])
  /\ review' = [review EXCEPT ![d].at =
                  CASE review[d].at = "approve" -> "queue"
                    [] review[d].at = "queue"   -> "launch"
                    [] review[d].at = "waive"   -> "close"
                    [] OTHER -> "over"]
  /\ UNCHANGED <<marker, decision, expired, runner, cancel, executor, lock, receipts, up, crashed>>

ReviewLaunches(d) ==
  /\ review[d].at = "launch"
  /\ Launch
  /\ review' = [review EXCEPT ![d].at = "over"]
  /\ UNCHANGED <<log, shown, marker, decision, expired, runner, cancel, lock, receipts, up, crashed>>

Expire ==
  /\ decision.gated /\ decision.token \notin expired
  /\ expired' = expired \union {decision.token}
  /\ UNCHANGED <<log, shown, marker, decision, runner, review, cancel, executor, lock, receipts,
                 up, crashed>>

-----------------------------------------------------------------------------
(* The action runner *)

\* Mutant of Authorised: any approval is good for the decision at hand.
AuthorisedByAny == decision.gated /\ decision.token \notin expired /\ log.approvals # <<>>

\* _validate_gate
Authorised ==
  /\ decision.gated /\ decision.token \notin expired
  /\ log.approvals # <<>>
  /\ log.approvals[Len(log.approvals)] = decision.token

\* Mutant of Performed: the log is not asked what was done.
PerformedIsForgotten == {}

\* completed_ids
Performed == {log.completions[i] : i \in 1..Len(log.completions)}

Enter(x) ==
  /\ executor[x].at = "waiting" /\ lock = 0
  /\ IF shown # "completed" /\ Authorised
       THEN /\ executor' = [executor EXCEPT ![x] =
                              [at |-> "next", token |-> decision.token, done |-> Performed]]
            /\ lock' = x
       ELSE /\ executor' = [executor EXCEPT ![x].at = IF shown = "completed" THEN "over"
                                                                             ELSE "failing"]
            /\ UNCHANGED lock
  /\ UNCHANGED <<log, shown, marker, decision, expired, runner, review, cancel, receipts, up,
                 crashed>>

\* Mutant of ToDo: an executor works its list off without the ones it skips last.
ToDoButLast(x) == (1..(ActionCount - 1)) \ executor[x].done

ToDo(x) == ActionIds \ executor[x].done

IsNext(x, a) == a \in ToDo(x) /\ \A b \in ToDo(x) : a <= b

ExecutorEvents(x) ==
  CASE executor[x].at = "next"    -> IF ToDo(x) = {}
                                       THEN {<<"run/completed", executor[x].token>>}
                                       ELSE {<<"action/started", a>> : a \in {b \in ToDo(x) : IsNext(x, b)}}
    [] executor[x].at = "acted"   -> {<<"action/completed", a>> : a \in {b \in ToDo(x) : IsNext(x, b)}}
    [] executor[x].at = "failing" -> {<<"action/failed", NoToken>>}
    [] executor[x].at = "failed"  -> {<<"run/failed", NoToken>>}
    [] OTHER -> {}

ExecutorRecords(x) ==
  /\ \E e \in ExecutorEvents(x) :
       /\ Record(e[1], e[2])
       /\ executor' = [executor EXCEPT
            ![x].at = CASE e[1] = "action/started"   -> "act"
                        [] e[1] = "action/completed" -> "next"
                        [] e[1] = "action/failed"    -> "failed"
                        [] OTHER -> "over",
            ![x].done = IF e[1] = "action/completed" THEN @ \union {e[2]} ELSE @]
       /\ lock' = IF e[1] = "run/completed" THEN 0 ELSE lock
  /\ UNCHANGED <<marker, decision, expired, runner, review, cancel, receipts, up, crashed>>

\* The draft and its receipt.
Perform(x) ==
  /\ executor[x].at = "act"
  /\ \E a \in ToDo(x) :
       IsNext(x, a) /\ receipts' = [receipts EXCEPT ![a] = @ \union {executor[x].token}]
  /\ executor' = [executor EXCEPT ![x].at = "acted"]
  /\ UNCHANGED <<log, shown, marker, decision, expired, runner, review, cancel, lock, up, crashed>>

\* The hash of the next action does not match, or its draft or receipt cannot be
\* written.
ExecutorFails(x) ==
  /\ executor[x].at = "act" \/ (executor[x].at = "next" /\ ToDo(x) # {})
  /\ executor' = [executor EXCEPT ![x].at = "failing"]
  /\ lock' = 0
  /\ UNCHANGED <<log, shown, marker, decision, expired, runner, review, cancel, receipts, up,
                 crashed>>

-----------------------------------------------------------------------------
(* Cancelling *)

\* The API also terminates the runner it started; an action runner is not asked.
RequestCancel(by) ==
  /\ cancel = "none"
  /\ by = "api" => up
  /\ marker' = TRUE
  /\ cancel' = IF by = "api" THEN "askedApi" ELSE "askedCli"
  /\ IF by = "api" /\ crashed = 0 /\ runner[1].at # "over"
       THEN CutShort(RunnerEvents(1)) /\ MoveRunner(1, "over")
       ELSE UNCHANGED <<log, shown, runner>>
  /\ UNCHANGED <<decision, expired, review, executor, lock, receipts, up, crashed>>

ReadForCancel ==
  /\ cancel \in {"askedApi", "askedCli"}
  /\ cancel' = IF shown \in TerminalStates THEN "over"
               ELSE IF cancel = "askedApi" THEN "writeApi" ELSE "writeCli"
  /\ UNCHANGED <<log, shown, marker, decision, expired, runner, review, executor, lock, receipts,
                 up, crashed>>

RecordCancel ==
  /\ cancel \in {"writeApi", "writeCli"}
  /\ Record("run/cancelled", NoToken)
  /\ cancel' = "over"
  /\ UNCHANGED <<marker, decision, expired, runner, review, executor, lock, receipts, up, crashed>>

-----------------------------------------------------------------------------
(* Crash and restart *)

\* The server dies with its threads, and some of the processes it started.
Crash(deadRunners, deadExecutors) ==
  /\ up /\ crashed < MaxOutages
  /\ up' = FALSE /\ crashed' = crashed + 1
  /\ CutShort(UNION ({RunnerEvents(r) : r \in deadRunners}
                       \union {ExecutorEvents(x) : x \in deadExecutors}
                       \union {ReviewEvents(d) : d \in Reviews}))
  /\ runner' = [r \in Runners |-> IF r \in deadRunners THEN [runner[r] EXCEPT !.at = "over"]
                                                       ELSE runner[r]]
  /\ executor' = [x \in Executors |-> IF x \in deadExecutors THEN [executor[x] EXCEPT !.at = "over"]
                                                             ELSE executor[x]]
  /\ lock' = IF lock \in deadExecutors THEN 0 ELSE lock
  /\ review' = [d \in Reviews |-> IF review[d].at = "none" THEN review[d]
                                                           ELSE [review[d] EXCEPT !.at = "over"]]
  /\ cancel' = IF cancel \in {"askedApi", "writeApi"} THEN "over" ELSE cancel
  /\ UNCHANGED <<marker, decision, expired, receipts>>

Alive(f) == {p \in DOMAIN f : f[p].at \notin {"none", "over"}}

\* _recover_action_runs
Restart ==
  /\ ~up
  /\ up' = TRUE
  /\ IF shown \in {"action_queued", "executing"} THEN Launch ELSE UNCHANGED executor
  /\ UNCHANGED <<log, shown, marker, decision, expired, runner, review, cancel, lock, receipts,
                 crashed>>

-----------------------------------------------------------------------------
RunnerStep(r) == LookRound(r) \/ RunnerRecords(r) \/ (\E g \in BOOLEAN : Analyse(r, g)) \/ RunnerFails(r)
ReviewStep(d) == ReviewRecords(d) \/ ReviewLaunches(d)
ExecutorStep(x) == Enter(x) \/ ExecutorRecords(x) \/ Perform(x) \/ ExecutorFails(x)

GatedRunNext ==
  \/ \E r \in Runners : StartRunner(r) \/ RunnerStep(r)
  \/ \E d \in Reviews : GateDecision(d) \/ ReviewStep(d)
  \/ \E x \in Executors : ExecutorStep(x)
  \/ \E by \in {"api", "cli"} : RequestCancel(by)
  \/ ReadForCancel \/ RecordCancel
  \/ Expire
  \/ \E R \in SUBSET Alive(runner), X \in SUBSET Alive(executor) : Crash(R, X)
  \/ Restart

GatedRunSpec == GatedRunInit /\ [][GatedRunNext]_gatedVars

(* Processes and threads run on, and the service manager restarts the server.    *)
GatedRunFairness ==
  /\ \A r \in Runners : WF_gatedVars(RunnerStep(r))
  /\ \A d \in Reviews : WF_gatedVars(ReviewStep(d))
  /\ \A x \in Executors : WF_gatedVars(ExecutorStep(x))
  /\ WF_gatedVars(Restart)

FairGatedRun == GatedRunSpec /\ GatedRunFairness

-----------------------------------------------------------------------------
(* Properties *)

\* No action is performed but under the token of a decision that was approved.
PerformedAsApproved ==
  \A a \in ActionIds : receipts[a] \subseteq {log.approvals[i] : i \in 1..Len(log.approvals)}

\* However many approvals, restarts and action runners there are, an action is
\* completed once.
PerformedOnce ==
  \A i, j \in 1..Len(log.completions) : log.completions[i] = log.completions[j] => i = j

\* A run reported complete under a gate left a receipt of each of its actions,
\* whoever died between a receipt, its event and the projection of that.
CarriedOut == log.carriedOut \subseteq {NoToken} \/ \A a \in ActionIds : receipts[a] # {}

\* "Resume approved generic safe-draft actions after a service restart": a run
\* that was approved ends, or is paused or sent back by a later review.
ApprovedRunsEnd == shown = "action_queued" ~> shown \in TerminalStates \union {"paused", "changes_requested"}
=============================================================================
