------------------------------ MODULE ModelCalls ------------------------------
(***************************************************************************)
(* The other kind of run the worker of DependencyChain executes: an analysis, *)
(* accepted by hand, which reads its sources and asks a model.  The worker    *)
(* threads are those of process_claim and _run_analysis; the calls, their     *)
(* checkpoint and the tokens of the provider are the tables model_calls,      *)
(* checkpoints and provider_tokens, written by begin_model_call and           *)
(* finish_model_call of the scheduler in a transaction each.                 *)
(*                                                                         *)
(* A model may answer, refuse for its rate limit, or not be heard of again.   *)
(* Only the last two are tried again, until the window that the first call    *)
(* of the run opened is over.                                               *)
(*                                                                         *)
(* One provider, whose rate-limit bucket is that of all runs.  A request      *)
(* for the snapshot alone makes no call and is left out, as is the migration   *)
(* freeze, which would fail the run that meets it.                           *)
(***************************************************************************)
EXTENDS DependencyChain, Sequences

CONSTANTS
  ProviderLimit,     \* provider_capacity.max_concurrency
  MaxModelAttempts,  \* max_model_attempts of the worker
  MaxLimits          \* bound: 429 answers

ASSUME ModelCallsAssumption ==
  ProviderLimit \in Nat \ {0} /\ MaxModelAttempts \in Nat \ {0} /\ MaxLimits \in Nat

VARIABLES
  analysts,   \* live threads of analyses, see Analyst
  calls,      \* model_calls of each run: status, and what came of it outside
  tokens,     \* provider_tokens not released, by run and number of the call
  expired,    \* those whose expires_at has passed
  throttled,  \* provider_buckets.throttle_until is ahead
  waits,      \* runs put off until the throttle ends
  shut        \* runs whose retry window is over

callVars == <<analysts, calls, tokens, expired, throttled, waits, shut>>
modelVars == <<chainVars, callVars>>

CallStatus == {"running", "completed", "result_unknown", "retry_wait", "failed", "cancelled"}
Answers == {"good", "invalid", "429", "unknown"}

Analyst ==
  [job : Jobs, claim : Nat \ {0}, call : Nat,
   phase : {"claimed", "source", "ready", "calling", "limited", "finishing", "releasing"},
   outcome : {"none", "throttled"} \union CallStatus]

ModelCallsTypeOK ==
  /\ analysts \subseteq Analyst
  /\ calls \in [Jobs -> Seq([status : CallStatus, answer : {"none", "unsent"} \union Answers])]
  /\ tokens \subseteq Jobs \X Nat /\ expired \subseteq tokens
  /\ throttled \in BOOLEAN
  /\ waits \subseteq Jobs /\ shut \subseteq Jobs

ModelCallsInit ==
  /\ ChainInit
  /\ analysts = {}
  /\ calls = [j \in Jobs |-> <<>>]
  /\ tokens = {} /\ expired = {}
  /\ throttled = FALSE
  /\ waits = {} /\ shut = {}

-----------------------------------------------------------------------------
(* serve *)

Room == PoolHasRoom /\ Cardinality(threads) + Cardinality(analysts) < Cardinality(Slots)

ServeAnalysis(j, s, open) ==
  /\ j \in ManualJobs
  /\ Room
  /\ ClaimNext(j, s, open)
  /\ analysts' = analysts \union
       {[job |-> j, claim |-> claims[j] + 1, call |-> 0, phase |-> "claimed", outcome |-> "none"]}
  /\ UNCHANGED <<threads, serving, fileVars, event, tick, crashes,
                 calls, tokens, expired, throttled, waits, shut>>

ServeNoAnalysis(open) ==
  /\ Room
  /\ ServeIdle(open)
  /\ UNCHANGED callVars

\* startup_reconcile also releases the tokens of the runs it resolves.
Restart ==
  /\ StartServing
  /\ tokens' = {c \in tokens : c[1] \notin DroppedRuns}
  /\ expired' = expired \intersect tokens'
  /\ UNCHANGED <<analysts, calls, throttled, waits, shut>>

AnalystsCrash ==
  /\ WorkerCrash
  /\ analysts' = {}
  /\ UNCHANGED <<calls, tokens, expired, throttled, waits, shut>>

-----------------------------------------------------------------------------
(* process_claim, and _run_analysis up to the call *)

Turns(t, u) == analysts' = (analysts \ {t}) \union {u}
Goes(t, phase) == Turns(t, [t EXCEPT !.phase = phase])
Ends(t, outcome) == Turns(t, [t EXCEPT !.phase = "releasing", !.outcome = outcome])

\* A cancelled run is left: its lease went with the cancellation.
ReadsSource(t) ==
  /\ t.phase \in {"claimed", "source"}
  /\ IF runStatus[t.job] = "cancelled" THEN analysts' = analysts \ {t}
     ELSE Goes(t, IF t.phase = "claimed" THEN "source" ELSE "ready")
  /\ UNCHANGED <<chainVars, calls, tokens, expired, throttled, waits, shut>>

\* The heartbeat of the source and of the call.
AnalystBeats(t) ==
  /\ t.phase \in {"source", "calling"}
  /\ \E s \in Slots : Holds(t, s) /\ Heartbeat(s)
  /\ UNCHANGED <<threads, serving, fileVars, event, tick, crashes, callVars>>

\* An error in any step, which fails the run; a call under way is left as it is.
AnalystFails(t) ==
  /\ t.phase # "claimed"
  /\ t.phase = "releasing" => t.outcome # "failed"
  /\ Ends(t, "failed")
  /\ UNCHANGED <<chainVars, calls, tokens, expired, throttled, waits, shut>>

\* retry_deadline_at of the first call, or the deadline of the run, has passed.
WindowOver(j) == late[j] \/ (calls[j] # <<>> /\ j \in shut)

\* Mutant of Unknowns: the call before the last is forgotten.
UnknownsInARow(j) ==
  {n \in DOMAIN calls[j] : n = Len(calls[j]) /\ calls[j][n].status = "result_unknown"}

Unknowns(j) == {n \in DOMAIN calls[j] : calls[j][n].status = "result_unknown"}

Closed(j) ==
  \/ runStatus[j] \in {"cancelled", "completed", "failed"}
  \/ WindowOver(j)
  \/ Cardinality(Unknowns(j)) >= 2

\* The checkpoint matters while the run is running.
Checkpoint(j, done) ==
  IF runStatus[j] = "running" THEN ModelCheckpoint(j, done) ELSE UNCHANGED coordinationVars

\* begin_model_call raises; a throttled run is put off and not charged.
Refused(t) ==
  /\ t.phase = "ready"
  /\ \/ /\ \/ Closed(t.job)
           \/ ~throttled /\ Cardinality(tokens \ expired) >= ProviderLimit
        /\ Ends(t, "failed")
        /\ UNCHANGED waits
     \/ /\ ~Closed(t.job) /\ throttled
        /\ Ends(t, "throttled")
        /\ waits' = waits \union {t.job}
  /\ UNCHANGED <<chainVars, calls, tokens, expired, throttled, shut>>

BeginModelCall(t) ==
  LET j == t.job
      n == Len(calls[j]) + 1
  IN /\ t.phase = "ready"
     /\ ~Closed(j) /\ ~throttled
     /\ Cardinality(tokens \ expired) < ProviderLimit
     /\ tokens' = (tokens \ expired) \union {<<j, n>>}
     /\ expired' = {}
     /\ calls' = [calls EXCEPT ![j] = Append(@, [status |-> "running", answer |-> "none"])]
     /\ Checkpoint(j, FALSE)
     /\ Turns(t, [t EXCEPT !.phase = "calling", !.call = n])
     /\ UNCHANGED <<threads, serving, fileVars, event, tick, crashes, throttled, waits, shut>>

-----------------------------------------------------------------------------
(* _run_analysis from the call on *)

\* What the thread will make of an answer it reads now.
Outcome(j, answer) ==
  IF runStatus[j] = "cancelled" THEN "cancelled"
  ELSE CASE answer = "good"    -> "completed"
         [] answer = "429"     -> IF WindowOver(j) THEN "failed" ELSE "retry_wait"
         [] answer = "unknown" -> IF \/ Cardinality(Unknowns(j)) + 1 >= MaxModelAttempts
                                     \/ WindowOver(j)
                                  THEN "failed" ELSE "result_unknown"
         [] OTHER              -> "failed"

Limits == {c \in Jobs \X (1..(MaxLimits + 1)) :
             c[2] \in DOMAIN calls[c[1]] /\ calls[c[1]][c[2]].answer = "429"}

\* A model that times out, fails or is not heard of counts as unknown; with no
\* time left it is not asked.
CallEnds(t, answer) ==
  /\ t.phase = "calling"
  /\ answer = "unsent" => WindowOver(t.job)
  /\ answer = "429" => Cardinality(Limits) < MaxLimits
  /\ calls' = [calls EXCEPT ![t.job][t.call].answer = answer]
  /\ LET outcome == IF answer = "unsent" THEN "failed" ELSE Outcome(t.job, answer)
     IN Turns(t, [t EXCEPT !.outcome = outcome,
                           !.phase = IF answer = "429" /\ outcome # "cancelled"
                                       THEN "limited" ELSE "finishing"])
  /\ UNCHANGED <<chainVars, tokens, expired, throttled, waits, shut>>

\* record_429: runs put off until the end of an earlier throttle come back then.
RecordLimit(t) ==
  /\ t.phase = "limited"
  /\ throttled' = TRUE
  /\ waits' = {}
  /\ Goes(t, "finishing")
  /\ UNCHANGED <<chainVars, calls, tokens, expired, shut>>

\* Mutant of IsAnswer: a call that ended is taken for one that was answered.
IsAnswerAny(status) == status # "running"

IsAnswer(status) == status = "completed"

\* finish_model_call
FinishModelCall(t) ==
  LET j == t.job
      status == IF runStatus[j] = "cancelled" /\ t.outcome = "completed" THEN "cancelled"
                ELSE t.outcome
  IN /\ t.phase = "finishing"
     /\ calls' = [calls EXCEPT ![j][t.call].status = status]
     /\ tokens' = tokens \ {<<j, t.call>>}
     /\ expired' = expired \ {<<j, t.call>>}
     /\ IF t.call = Len(calls[j]) THEN Checkpoint(j, IsAnswer(status))
                                  ELSE UNCHANGED coordinationVars
     /\ Goes(t, "releasing")
     /\ UNCHANGED <<threads, serving, fileVars, event, tick, crashes, throttled, waits, shut>>

ReleasedAs(outcome) ==
  IF outcome \in {"throttled", "result_unknown", "retry_wait"} THEN "retry_wait" ELSE outcome

\* Nothing is left to release for a thread that lost its lease.
ReleaseAnalysis(t) ==
  /\ t.phase = "releasing"
  /\ \/ \E s \in Slots :
          Holds(t, s) /\ Release(s, ReleasedAs(t.outcome), FALSE, FALSE, t.outcome = "result_unknown")
     \/ (\A s \in Slots : ~Holds(t, s)) /\ UNCHANGED coordinationVars
  /\ analysts' = analysts \ {t}
  /\ UNCHANGED <<threads, serving, fileVars, event, tick, crashes,
                 calls, tokens, expired, throttled, waits, shut>>

-----------------------------------------------------------------------------
(* The control plane and the clock *)

AcceptAnalysis(j) ==
  /\ AcceptManual(j)
  /\ UNCHANGED <<threads, serving, fileVars, event, tick, crashes, callVars>>

CancelAnalysis(j) ==
  /\ j \in ManualJobs
  /\ ApiCancel(j)
  /\ UNCHANGED callVars

\* A run that was put off is due when the throttle or its window ends.
RetryIsDue(j) ==
  /\ j \in waits => ~throttled \/ WindowOver(j)
  /\ BackoffEnds(j)
  /\ waits' = waits \ {j}
  /\ UNCHANGED <<threads, serving, fileVars, event, tick, crashes,
                 analysts, calls, tokens, expired, throttled, shut>>

AnalysisTime ==
  /\ \/ \E s \in Slots : LeaseLapses(s)
     \/ \E j \in ManualJobs : DeadlinePasses(j)
  /\ UNCHANGED <<threads, serving, fileVars, event, tick, crashes, callVars>>

\* A token lasts as long as a lease and nothing renews it.
TokenExpires(c) ==
  /\ c \in tokens
  /\ expired' = expired \union {c}
  /\ UNCHANGED <<chainVars, analysts, calls, tokens, throttled, waits, shut>>

ThrottleEnds ==
  /\ throttled
  /\ throttled' = FALSE
  /\ UNCHANGED <<chainVars, analysts, calls, tokens, expired, waits, shut>>

WindowCloses(j) ==
  /\ calls[j] # <<>> /\ jobStatus[j] \notin Settled
  /\ shut' = shut \union {j}
  /\ UNCHANGED <<chainVars, analysts, calls, tokens, expired, throttled, waits>>

AnalystStep(t) ==
  \/ ReadsSource(t) \/ AnalystFails(t) \/ Refused(t) \/ BeginModelCall(t)
  \/ \E answer \in Answers \union {"unsent"} : CallEnds(t, answer)
  \/ RecordLimit(t) \/ FinishModelCall(t) \/ ReleaseAnalysis(t)

ServeAnalyses ==
  \/ \E j \in ManualJobs, s \in Slots, open \in BOOLEAN : ServeAnalysis(j, s, open)
  \/ \E open \in BOOLEAN : ServeNoAnalysis(open)

AnalysisNext ==
  \/ Restart \/ ServeAnalyses \/ AnalystsCrash
  \/ \E t \in analysts : AnalystStep(t) \/ AnalystBeats(t)
  \/ \E j \in ManualJobs : AcceptAnalysis(j) \/ CancelAnalysis(j) \/ RetryIsDue(j) \/ WindowCloses(j)
  \/ AnalysisTime
  \/ \E c \in tokens : TokenExpires(c)
  \/ ThrottleEnds

AnalysisSpec == ModelCallsInit /\ [][AnalysisNext]_modelVars

(* The worker is restarted and keeps polling, its threads go on (a model has    *)
(* its timeout), and time brings a retry or the end of a throttle.             *)
AnalysisFairness ==
  /\ WF_modelVars(Restart)
  /\ WF_modelVars(ServeAnalyses)
  /\ \A j \in ManualJobs : WF_modelVars(\E t \in analysts : t.job = j /\ AnalystStep(t))
  /\ \A j \in ManualJobs : WF_modelVars(RetryIsDue(j))
  /\ WF_modelVars(ThrottleEnds)

-----------------------------------------------------------------------------
(* Properties *)

(* An analysis is completed, by its thread or by a restart, only if the model     *)
(* answered its newest call.                                                   *)
CompletedIsAnswered ==
  \A j \in ManualJobs : runStatus[j] = "completed" =>
    /\ calls[j] # <<>>
    /\ calls[j][Len(calls[j])] = [status |-> "completed", answer |-> "good"]

(* "Permit exactly one fenced retry" of a call whose answer is not known: no run   *)
(* leaves more than two of them, whatever is limited, lost or crashes in between. *)
FewGoUnanswered ==
  \A j \in ManualJobs :
    Cardinality({n \in DOMAIN calls[j] : calls[j][n].answer \in {"none", "unknown"}}) <= 2

(* A run never has a call while an earlier one of it is still out.               *)
CallsInTurn ==
  \A j \in ManualJobs : \A n \in DOMAIN calls[j] :
    n < Len(calls[j]) => calls[j][n].status # "running"
=============================================================================
