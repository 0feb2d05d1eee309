----------------------------- MODULE GatedProofs -----------------------------
(***************************************************************************)
(* What GatedRun promises of the actions behind a gate holds for any number   *)
(* of actions, analyses, reviews, action runners and crashes.               *)
(*                                                                         *)
(* None of it is inductive by itself.  The runners that are at their actions  *)
(* hold the lock (AtWorkIsLocked), so there is one of them, and it knows what  *)
(* was completed (DoneIsPerformed): it is this that keeps it from completing   *)
(* an action again.  It works under a token that was approved (WorkIsApproved) *)
(* and leaves a receipt before it says so (CompletedIsReceipted).             *)
(***************************************************************************)
EXTENDS GatedRun, TLAPS

AtWork == {"next", "act", "acted"}
Places == AtWork \union {"none", "waiting", "failing", "failed", "over"}
Stages == {"none", "approve", "queue", "launch", "waive", "close", "changes", "pause", "over"}
Approved == {log.approvals[i] : i \in 1..Len(log.approvals)}

LogTypes(l) ==
  /\ l.approvals \in Seq(Tokens) /\ l.completions \in Seq(ActionIds)
  /\ l.carriedOut \subseteq Tokens

GatedTypes ==
  /\ LogTypes(log)
  /\ decision \in [token : Tokens, gated : BOOLEAN]
  /\ review \in [Reviews -> [at : Stages, token : Tokens]]
  /\ executor \in [Executors -> [at : Places, token : Tokens, done : SUBSET ActionIds]]
  /\ receipts \in [ActionIds -> SUBSET Tokens]

AtWorkIsLocked == \A x \in Executors : executor[x].at \in AtWork => lock = x

DoneIsPerformed == \A x \in Executors : executor[x].at \in AtWork => executor[x].done = Performed

WorkIsApproved == \A x \in Executors : executor[x].at \in AtWork => executor[x].token \in Approved

CompletedIsReceipted ==
  /\ \A a \in Performed : receipts[a] # {}
  /\ \A x \in Executors, a \in ActionIds :
       executor[x].at = "acted" /\ IsNext(x, a) => receipts[a] # {}

GatedInv ==
  /\ GatedTypes
  /\ AtWorkIsLocked /\ DoneIsPerformed /\ WorkIsApproved /\ CompletedIsReceipted
  /\ PerformedAsApproved /\ PerformedOnce /\ CarriedOut

-----------------------------------------------------------------------------
(* What an event does to the log *)

LEMMA AppendAdds ==
  ASSUME NEW S, NEW s \in Seq(S), NEW e \in S
  PROVE  LET t == Append(s, e) IN
         /\ t \in Seq(S)
         /\ {t[i] : i \in 1..Len(t)} = {s[i] : i \in 1..Len(s)} \union {e}
<1>1. /\ Append(s, e) \in Seq(S) /\ Len(s) \in Nat /\ Len(Append(s, e)) = Len(s) + 1
      /\ Append(s, e)[Len(s) + 1] = e
      /\ \A i \in 1..Len(s) : Append(s, e)[i] = s[i]
  OBVIOUS
<1>2. 1..(Len(s) + 1) = (1..Len(s)) \union {Len(s) + 1}
  BY <1>1
<1> QED BY <1>1, <1>2

LEMMA AppendOnce ==
  ASSUME NEW S, NEW s \in Seq(S), NEW e \in S,
         e \notin {s[i] : i \in 1..Len(s)},
         \A i, j \in 1..Len(s) : s[i] = s[j] => i = j
  PROVE  \A i, j \in 1..Len(Append(s, e)) : Append(s, e)[i] = Append(s, e)[j] => i = j
<1>1. /\ Len(s) \in Nat /\ Len(Append(s, e)) = Len(s) + 1
      /\ Append(s, e)[Len(s) + 1] = e
      /\ \A i \in 1..Len(s) : Append(s, e)[i] = s[i] /\ s[i] # e
  OBVIOUS
<1> QED BY <1>1

\* Events that end no action and report no gated decision carried out.
Plain(type, ref) ==
  /\ type # "action/completed"
  /\ type = "run/completed" => ref = NoToken
  /\ type = "gate/approved" => ref \in Tokens

\* The log has seen plain events only.
Grown ==
  /\ LogTypes(log') /\ log'.completions = log.completions
  /\ log'.carriedOut \subseteq log.carriedOut \union {NoToken}
  /\ Approved \subseteq Approved'

LEMMA PlainEventGrows ==
  ASSUME LogTypes(log), NEW type, NEW ref, Plain(type, ref), log' = Logged(type, ref)
  PROVE  Grown
<1>1. /\ log'.completions = log.completions
      /\ log'.carriedOut = log.carriedOut \union (IF type = "run/completed" THEN {ref} ELSE {})
      /\ log'.approvals = IF type = "gate/approved" THEN Append(log.approvals, ref)
                                                    ELSE log.approvals
  BY DEF Logged, Plain
<1>2. CASE type = "gate/approved"
  <2>1. ref \in Tokens /\ log.approvals \in Seq(Tokens)
    BY <1>2 DEF Plain, LogTypes
  <2>2. log'.approvals \in Seq(Tokens) /\ Approved' = Approved \union {ref}
    BY <1>1, <1>2, <2>1, AppendAdds DEF Approved
  <2> QED BY <1>1, <1>2, <2>2 DEF Grown, LogTypes, Tokens
<1>3. CASE type # "gate/approved"
  BY <1>1, <1>3 DEF Grown, LogTypes, Plain, Tokens, Approved
<1> QED BY <1>2, <1>3

LEMMA Idle == ASSUME LogTypes(log), UNCHANGED log PROVE Grown
BY DEF Grown, LogTypes, Approved

-----------------------------------------------------------------------------
(* Steps that leave the action runners alone, or start, stop or kill them *)

\* An action runner at work was so before, with what it knows.
NoneTakesUp ==
  \A x \in Executors : executor'[x].at \in AtWork =>
    executor'[x] = executor[x] /\ (lock = x => lock' = x)

LEMMA Undisturbed ==
  ASSUME GatedInv, GatedTypes', Grown, NoneTakesUp, UNCHANGED receipts
  PROVE  GatedInv'
<1>1. Performed' = Performed
  BY DEF Grown, Performed
<1>2. AtWorkIsLocked' /\ DoneIsPerformed' /\ WorkIsApproved'
  BY <1>1 DEF GatedInv, AtWorkIsLocked, DoneIsPerformed, WorkIsApproved, NoneTakesUp, Grown
<1>3. CompletedIsReceipted'
  BY <1>1 DEF GatedInv, CompletedIsReceipted, NoneTakesUp, IsNext, ToDo, AtWork
<1>4. PerformedAsApproved'
  BY DEF GatedInv, PerformedAsApproved, Grown, Approved
<1>5. PerformedOnce'
  BY DEF GatedInv, PerformedOnce, Grown
<1>6. CarriedOut'
  BY DEF GatedInv, CarriedOut, Grown
<1> QED BY <1>2, <1>3, <1>4, <1>5, <1>6 DEF GatedInv

LEMMA LeftAlone ==
  ASSUME GatedInv, Grown, UNCHANGED <<executor, lock, receipts>>,
         decision' \in [token : Tokens, gated : BOOLEAN],
         review' \in [Reviews -> [at : Stages, token : Tokens]]
  PROVE  GatedInv'
<1>1. GatedTypes'
  BY DEF GatedInv, GatedTypes, Grown
<1>2. NoneTakesUp
  BY DEF NoneTakesUp
<1> QED BY <1>1, <1>2, Undisturbed

LEMMA LaunchTakesNoneUp ==
  ASSUME GatedTypes, Launch, UNCHANGED lock
  PROVE  /\ NoneTakesUp
         /\ executor' \in [Executors -> [at : Places, token : Tokens, done : SUBSET ActionIds]]
BY DEF Launch, NoneTakesUp, GatedTypes, Places, AtWork

LEMMA RunnerEventsArePlain ==
  ASSUME NEW r \in Runners, NEW e \in RunnerEvents(r)
  PROVE  Plain(e[1], e[2])
<1>1. e[2] = NoToken /\ e[1] \notin {"action/completed", "gate/approved"}
  BY DEF RunnerEvents
<1> QED BY <1>1 DEF Plain

LEMMA ReviewEventsArePlain ==
  ASSUME GatedTypes, NEW d \in Reviews, NEW e \in ReviewEvents(d)
  PROVE  Plain(e[1], e[2])
<1>1. review[d].token \in Tokens
  BY DEF GatedTypes
<1>2. e[1] \notin {"action/completed"} /\ (e[1] = "run/completed" => e[2] = NoToken)
  BY DEF ReviewEvents
<1>3. e[1] = "gate/approved" => e[2] \in {review[d].token, NoToken}
  BY DEF ReviewEvents
<1> QED BY <1>1, <1>2, <1>3 DEF Plain, Tokens

LEMMA RunnerStepsKeepIt ==
  ASSUME GatedInv, NEW r \in Runners, StartRunner(r) \/ RunnerStep(r)
  PROVE  GatedInv'
<1> USE DEF GatedInv, GatedTypes
<1>1. CASE StartRunner(r) \/ LookRound(r) \/ RunnerFails(r)
  BY <1>1, Idle, LeftAlone DEF StartRunner, LookRound, RunnerFails
<1>2. CASE RunnerRecords(r)
  <2>1. Grown
    BY <1>2, RunnerEventsArePlain, PlainEventGrows DEF RunnerRecords, Record
  <2> QED BY <1>2, <2>1, LeftAlone DEF RunnerRecords
<1>3. ASSUME NEW g \in BOOLEAN, Analyse(r, g) PROVE GatedInv'
  <2>1. decision' \in [token : Tokens, gated : BOOLEAN]
    BY <1>3 DEF Analyse, Tokens
  <2> QED BY <1>3, <2>1, Idle, LeftAlone DEF Analyse
<1> QED BY <1>1, <1>2, <1>3 DEF RunnerStep

LEMMA ReviewStepsKeepIt ==
  ASSUME GatedInv, NEW d \in Reviews, GateDecision(d) \/ ReviewStep(d)
  PROVE  GatedInv'
<1> USE DEF GatedInv, GatedTypes
<1>1. CASE GateDecision(d)
  <2>1. review' \in [Reviews -> [at : Stages, token : Tokens]]
    <3>1. PICK place \in {IF decision.gated THEN "approve" ELSE "waive", "changes", "pause"} :
            review' = [review EXCEPT ![d] = [at |-> place, token |-> decision.token]]
      BY <1>1 DEF GateDecision
    <3>2. place \in Stages /\ decision.token \in Tokens
      BY <3>1 DEF Stages
    <3> QED BY <3>1, <3>2
  <2> QED BY <1>1, <2>1, Idle, LeftAlone DEF GateDecision
<1>2. CASE ReviewRecords(d)
  <2>1. Grown
    BY <1>2, ReviewEventsArePlain, PlainEventGrows DEF ReviewRecords, Record
  <2>2. review' \in [Reviews -> [at : Stages, token : Tokens]]
    BY <1>2 DEF ReviewRecords, Stages
  <2> QED BY <1>2, <2>1, <2>2, LeftAlone DEF ReviewRecords
<1>3. CASE ReviewLaunches(d)
  <2>1. /\ NoneTakesUp
        /\ executor' \in [Executors -> [at : Places, token : Tokens, done : SUBSET ActionIds]]
    BY <1>3, LaunchTakesNoneUp DEF ReviewLaunches
  <2>2. review' \in [Reviews -> [at : Stages, token : Tokens]]
    BY <1>3 DEF ReviewLaunches, Stages
  <2>3. Grown
    BY <1>3, Idle DEF ReviewLaunches
  <2>4. GatedTypes'
    BY <1>3, <2>1, <2>2, <2>3 DEF ReviewLaunches, Grown
  <2> QED BY <1>3, <2>1, <2>3, <2>4, Undisturbed DEF ReviewLaunches
<1> QED BY <1>1, <1>2, <1>3 DEF ReviewStep

LEMMA CancellingKeepsIt ==
  ASSUME GatedInv, (\E by \in {"api", "cli"} : RequestCancel(by)) \/ ReadForCancel \/ RecordCancel
  PROVE  GatedInv'
<1> USE DEF GatedInv, GatedTypes
<1>1. ASSUME NEW by \in {"api", "cli"}, RequestCancel(by) PROVE GatedInv'
  <2>1. Grown
    BY <1>1, Idle, GatedRunAssumption, RunnerEventsArePlain, PlainEventGrows
    DEF RequestCancel, CutShort
  <2> QED BY <1>1, <2>1, LeftAlone DEF RequestCancel
<1>2. CASE ReadForCancel
  BY <1>2, Idle, LeftAlone DEF ReadForCancel
<1>3. CASE RecordCancel
  <2>1. Plain("run/cancelled", NoToken)
    BY DEF Plain
  <2>2. Grown
    BY <1>3, <2>1, PlainEventGrows DEF RecordCancel, Record
  <2> QED BY <1>3, <2>2, LeftAlone DEF RecordCancel
<1> QED BY <1>1, <1>2, <1>3

LEMMA ClockAndRestartKeepIt ==
  ASSUME GatedInv, Expire \/ Restart
  PROVE  GatedInv'
<1> USE DEF GatedInv, GatedTypes
<1>1. CASE Expire
  BY <1>1, Idle, LeftAlone DEF Expire
<1>2. CASE Restart
  <2>1. /\ NoneTakesUp
        /\ executor' \in [Executors -> [at : Places, token : Tokens, done : SUBSET ActionIds]]
    BY <1>2, LaunchTakesNoneUp DEF Restart, NoneTakesUp
  <2>2. Grown
    BY <1>2, Idle DEF Restart
  <2>3. GatedTypes'
    BY <1>2, <2>1, <2>2 DEF Restart, Grown
  <2> QED BY <1>2, <2>1, <2>2, <2>3, Undisturbed DEF Restart
<1> QED BY <1>1, <1>2

-----------------------------------------------------------------------------
(* The steps of an action runner *)

LEMMA OneAtWork ==
  ASSUME GatedInv, NEW x \in Executors, NEW y \in Executors,
         executor[x].at \in AtWork, executor[y].at \in AtWork
  PROVE  x = y
BY DEF GatedInv, AtWorkIsLocked

LEMMA EnterKeepsIt ==
  ASSUME GatedInv, NEW x \in Executors, Enter(x)
  PROVE  GatedInv'
<1>1. /\ executor[x].at = "waiting" /\ lock = 0
      /\ UNCHANGED <<log, decision, review, receipts>>
  BY DEF Enter
<1>2. Grown
  BY <1>1, Idle DEF GatedInv, GatedTypes
<1>3. Performed \in SUBSET ActionIds
  BY DEF GatedInv, GatedTypes, LogTypes, Performed
<1>4. CASE ~(shown # "completed" /\ Authorised)
  <2>1. /\ executor' = [executor EXCEPT ![x].at = IF shown = "completed" THEN "over" ELSE "failing"]
        /\ lock' = lock
    BY <1>4 DEF Enter
  <2>2. executor' \in [Executors -> [at : Places, token : Tokens, done : SUBSET ActionIds]]
    BY <2>1 DEF GatedInv, GatedTypes, Places
  <2>3. GatedTypes'
    BY <1>1, <1>2, <2>2 DEF GatedInv, GatedTypes, Grown
  <2>4. NoneTakesUp
    BY <2>1, <2>2 DEF NoneTakesUp, GatedInv, GatedTypes, AtWork
  <2> QED BY <1>1, <1>2, <2>3, <2>4, Undisturbed
<1>5. CASE shown # "completed" /\ Authorised
  <2> DEFINE entered == [at |-> "next", token |-> decision.token, done |-> Performed]
  <2>1. executor' = [executor EXCEPT ![x] = entered] /\ lock' = x
    BY <1>5 DEF Enter
  <2>2. decision.token \in Tokens /\ entered \in [at : Places, token : Tokens, done : SUBSET ActionIds]
    BY <1>3 DEF GatedInv, GatedTypes, Places, AtWork
  <2>3. /\ executor' \in [Executors -> [at : Places, token : Tokens, done : SUBSET ActionIds]]
        /\ executor'[x] = entered
        /\ \A y \in Executors \ {x} : executor'[y] = executor[y]
    BY <2>1, <2>2 DEF GatedInv, GatedTypes
  <2>4. \A y \in Executors \ {x} : executor'[y].at \notin AtWork
    BY <1>1, <2>3, GatedRunAssumption DEF GatedInv, AtWorkIsLocked
  <2>5. decision.token \in Approved
    <3>1. /\ log.approvals \in Seq(Tokens) /\ log.approvals # <<>>
          /\ log.approvals[Len(log.approvals)] = decision.token
      BY <1>5 DEF Authorised, GatedInv, GatedTypes, LogTypes
    <3>2. Len(log.approvals) \in 1..Len(log.approvals)
      BY <3>1
    <3> QED BY <3>1, <3>2 DEF Approved
  <2>6. GatedTypes'
    BY <1>1, <1>2, <2>3 DEF GatedInv, GatedTypes, Grown
  <2>7. Performed' = Performed /\ Approved' = Approved
    BY <1>1 DEF Performed, Approved
  <2>8. AtWorkIsLocked'
    BY <2>1, <2>4 DEF AtWorkIsLocked
  <2>9. DoneIsPerformed' /\ WorkIsApproved'
    BY <2>3, <2>4, <2>5, <2>7 DEF DoneIsPerformed, WorkIsApproved
  <2>10. CompletedIsReceipted'
    BY <1>1, <2>3, <2>4, <2>7 DEF GatedInv, CompletedIsReceipted, AtWork
  <2>11. PerformedAsApproved' /\ PerformedOnce' /\ CarriedOut'
    BY <1>1 DEF GatedInv, PerformedAsApproved, PerformedOnce, CarriedOut
  <2> QED BY <2>6, <2>8, <2>9, <2>10, <2>11 DEF GatedInv
<1> QED BY <1>4, <1>5

LEMMA PerformKeepsIt ==
  ASSUME GatedInv, NEW x \in Executors, Perform(x)
  PROVE  GatedInv'
<1>1. PICK a \in ToDo(x) :
        IsNext(x, a) /\ receipts' = [receipts EXCEPT ![a] = @ \union {executor[x].token}]
  BY DEF Perform
<1>2. /\ executor[x].at = "act" /\ executor' = [executor EXCEPT ![x].at = "acted"]
      /\ UNCHANGED <<log, decision, review, lock>>
  BY DEF Perform
<1>3. /\ a \in ActionIds /\ ActionIds \subseteq Int
      /\ executor[x].token \in Tokens /\ executor[x].token \in Approved
  BY <1>2, GatedRunAssumption DEF ToDo, ActionIds, GatedInv, GatedTypes, WorkIsApproved, AtWork
<1>4. /\ executor' \in [Executors -> [at : Places, token : Tokens, done : SUBSET ActionIds]]
      /\ \A y \in Executors : /\ executor'[y].token = executor[y].token
                              /\ executor'[y].done = executor[y].done
                              /\ executor'[y].at = IF y = x THEN "acted" ELSE executor[y].at
  BY <1>2 DEF GatedInv, GatedTypes, Places, AtWork
<1>5. /\ receipts' \in [ActionIds -> SUBSET Tokens]
      /\ \A b \in ActionIds : receipts[b] \subseteq receipts'[b]
      /\ \A b \in ActionIds : receipts'[b] \subseteq receipts[b] \union {executor[x].token}
      /\ receipts'[a] # {}
  BY <1>1, <1>3 DEF GatedInv, GatedTypes
<1>6. GatedTypes'
  BY <1>2, <1>4, <1>5 DEF GatedInv, GatedTypes, LogTypes
<1>7. Performed' = Performed /\ Approved' = Approved /\ Performed \subseteq ActionIds
  BY <1>2 DEF Performed, Approved, GatedInv, GatedTypes, LogTypes
<1>8. AtWorkIsLocked' /\ DoneIsPerformed' /\ WorkIsApproved'
  BY <1>2, <1>4, <1>7 DEF GatedInv, AtWorkIsLocked, DoneIsPerformed, WorkIsApproved, AtWork
<1>9. CompletedIsReceipted'
  <2>1. \A b \in Performed' : receipts'[b] # {}
    BY <1>5, <1>7 DEF GatedInv, CompletedIsReceipted
  <2>2. ASSUME NEW y \in Executors, NEW b \in ActionIds, executor'[y].at = "acted", IsNext(y, b)'
        PROVE  receipts'[b] # {}
    <3>1. IsNext(y, b)
      BY <1>4, <2>2 DEF IsNext, ToDo
    <3>2. CASE y = x
      <4>1. a <= b /\ b <= a
        BY <1>1, <3>1, <3>2 DEF IsNext
      <4>2. a = b
        BY <1>3, <4>1
      <4> QED BY <1>5, <4>2
    <3>3. CASE y # x
      BY <1>4, <1>5, <2>2, <3>1, <3>3 DEF GatedInv, CompletedIsReceipted
    <3> QED BY <3>2, <3>3
  <2> QED BY <2>1, <2>2 DEF CompletedIsReceipted
<1>10. PerformedAsApproved'
  BY <1>3, <1>5, <1>7 DEF GatedInv, PerformedAsApproved, Approved
<1>11. PerformedOnce' /\ CarriedOut'
  BY <1>2, <1>5 DEF GatedInv, PerformedOnce, CarriedOut
<1> QED BY <1>6, <1>8, <1>9, <1>10, <1>11 DEF GatedInv

LEMMA ExecutorFailsKeepsIt ==
  ASSUME GatedInv, NEW x \in Executors, ExecutorFails(x)
  PROVE  GatedInv'
<1>1. /\ executor[x].at \in {"act", "next"} /\ executor' = [executor EXCEPT ![x].at = "failing"] /\ lock' = 0
      /\ UNCHANGED <<log, decision, review, receipts>>
  BY DEF ExecutorFails
<1>2. /\ executor' \in [Executors -> [at : Places, token : Tokens, done : SUBSET ActionIds]]
      /\ executor'[x].at = "failing"
      /\ \A y \in Executors \ {x} : executor'[y] = executor[y]
  BY <1>1 DEF GatedInv, GatedTypes, Places, AtWork
<1>3. NoneTakesUp
  BY <1>1, <1>2 DEF NoneTakesUp, GatedInv, AtWorkIsLocked, AtWork
<1>4. Grown
  BY <1>1, Idle DEF GatedInv, GatedTypes
<1>5. GatedTypes'
  BY <1>1, <1>2, <1>4 DEF GatedInv, GatedTypes, Grown
<1> QED BY <1>1, <1>3, <1>4, <1>5, Undisturbed

\* What an event of an action runner leaves true of the log, and what it adds.
LogIsRight ==
  /\ LogTypes(log') /\ Approved \subseteq Approved'
  /\ PerformedAsApproved' /\ PerformedOnce' /\ CarriedOut'
  /\ \A a \in Performed' : receipts'[a] # {}

LEMMA ExecutorEventIsRight ==
  ASSUME GatedInv, NEW x \in Executors, NEW e \in ExecutorEvents(x),
         log' = Logged(e[1], e[2]), UNCHANGED receipts
  PROVE  /\ LogIsRight
         /\ Performed' = IF e[1] = "action/completed" THEN Performed \union {e[2]} ELSE Performed
         /\ e[1] \in {"action/started", "action/completed", "run/completed"} => executor[x].at \in AtWork
<1>1. /\ log'.approvals = IF e[1] = "gate/approved" THEN Append(log.approvals, e[2])
                                                   ELSE log.approvals
      /\ log'.completions = IF e[1] = "action/completed" THEN Append(log.completions, e[2])
                                                        ELSE log.completions
      /\ log'.carriedOut = log.carriedOut \union (IF e[1] = "run/completed" THEN {e[2]} ELSE {})
  BY DEF Logged
<1>2. e[1] # "gate/approved"
  BY DEF ExecutorEvents
<1>3. e[1] \in {"action/started", "action/completed", "run/completed"} => executor[x].at \in AtWork
  BY DEF ExecutorEvents, AtWork
<1>4. /\ LogTypes(log) /\ log.completions \in Seq(ActionIds) /\ log.carriedOut \subseteq Tokens
      /\ executor[x] \in [at : Places, token : Tokens, done : SUBSET ActionIds]
  BY DEF GatedInv, GatedTypes, LogTypes
<1>5. Approved' = Approved /\ PerformedAsApproved'
  BY <1>1, <1>2 DEF GatedInv, PerformedAsApproved, Approved
<1>6. CASE e[1] = "action/completed"
  <2>1. executor[x].at = "acted" /\ IsNext(x, e[2]) /\ e[2] \in ToDo(x)
    BY <1>6 DEF ExecutorEvents, IsNext
  <2>2. e[2] \in ActionIds /\ e[2] \notin Performed
    BY <2>1 DEF ToDo, GatedInv, DoneIsPerformed, AtWork
  <2>3. log'.completions \in Seq(ActionIds) /\ Performed' = Performed \union {e[2]}
    BY <1>1, <1>4, <1>6, <2>2, AppendAdds DEF Performed
  <2>4. PerformedOnce'
    BY <1>1, <1>4, <1>6, <2>2, AppendOnce DEF GatedInv, PerformedOnce, Performed
  <2>5. receipts[e[2]] # {}
    BY <2>1, <2>2 DEF GatedInv, CompletedIsReceipted
  <2>6. \A a \in Performed' : receipts'[a] # {}
    BY <2>3, <2>5 DEF GatedInv, CompletedIsReceipted
  <2>7. LogTypes(log') /\ CarriedOut'
    BY <1>1, <1>4, <1>6, <2>3 DEF LogTypes, GatedInv, CarriedOut
  <2> QED BY <1>3, <1>5, <1>6, <2>3, <2>4, <2>6, <2>7 DEF LogIsRight
<1>7. CASE e[1] # "action/completed"
  <2>1. Performed' = Performed /\ PerformedOnce' /\ (\A a \in Performed' : receipts'[a] # {})
    BY <1>1, <1>7 DEF Performed, GatedInv, PerformedOnce, CompletedIsReceipted
  <2>2. CASE e[1] = "run/completed"
    <3>1. executor[x].at = "next" /\ ToDo(x) = {} /\ e[2] = executor[x].token
      BY <2>2 DEF ExecutorEvents
    <3>2. ActionIds \subseteq Performed
      BY <3>1 DEF ToDo, GatedInv, DoneIsPerformed, AtWork
    <3>3. CarriedOut'
      BY <3>2 DEF CarriedOut, GatedInv, CompletedIsReceipted
    <3>4. LogTypes(log')
      BY <1>1, <1>2, <1>4, <1>7, <3>1 DEF LogTypes
    <3> QED BY <1>3, <1>5, <1>7, <2>1, <3>3, <3>4 DEF LogIsRight
  <2>3. CASE e[1] # "run/completed"
    <3>1. LogTypes(log') /\ CarriedOut'
      BY <1>1, <1>2, <1>4, <1>7, <2>3 DEF LogTypes, GatedInv, CarriedOut
    <3> QED BY <1>3, <1>5, <1>7, <2>1, <3>1 DEF LogIsRight
  <2> QED BY <2>2, <2>3
<1> QED BY <1>6, <1>7

LEMMA ExecutorRecordsKeepsIt ==
  ASSUME GatedInv, NEW x \in Executors, ExecutorRecords(x)
  PROVE  GatedInv'
<1>1. PICK e \in ExecutorEvents(x) :
        /\ Record(e[1], e[2])
        /\ executor' = [executor EXCEPT
             ![x].at = CASE e[1] = "action/started"   -> "act"
                         [] e[1] = "action/completed" -> "next"
                         [] e[1] = "action/failed"    -> "failed"
                         [] OTHER -> "over",
             ![x].done = IF e[1] = "action/completed" THEN @ \union {e[2]} ELSE @]
        /\ lock' = IF e[1] = "run/completed" THEN 0 ELSE lock
  BY DEF ExecutorRecords
<1>2. UNCHANGED <<decision, review, receipts>>
  BY DEF ExecutorRecords
<1>3. /\ LogIsRight
      /\ Performed' = IF e[1] = "action/completed" THEN Performed \union {e[2]} ELSE Performed
      /\ e[1] \in {"action/started", "action/completed", "run/completed"} => executor[x].at \in AtWork
  BY <1>1, <1>2, ExecutorEventIsRight DEF Record
<1>4. e[1] = "action/completed" => e[2] \in ActionIds
  BY DEF ExecutorEvents, IsNext, ToDo
<1> DEFINE place == CASE e[1] = "action/started"   -> "act"
                      [] e[1] = "action/completed" -> "next"
                      [] e[1] = "action/failed"    -> "failed"
                      [] OTHER -> "over"
<1>5. /\ executor' \in [Executors -> [at : Places, token : Tokens, done : SUBSET ActionIds]]
      /\ \A y \in Executors \ {x} : executor'[y] = executor[y]
      /\ executor'[x].at = place /\ executor'[x].token = executor[x].token
      /\ executor'[x].done = IF e[1] = "action/completed" THEN executor[x].done \union {e[2]}
                                                         ELSE executor[x].done
  BY <1>1, <1>4 DEF GatedInv, GatedTypes, Places, AtWork
<1>6. /\ executor'[x].at \in AtWork => /\ e[1] \in {"action/started", "action/completed"}
                                       /\ executor[x].at \in AtWork
      /\ executor'[x].at # "acted"
  BY <1>3, <1>5 DEF AtWork
<1>7. e[1] \in {"action/completed", "run/completed"} =>
        \A y \in Executors \ {x} : executor[y].at \notin AtWork
  BY <1>3, OneAtWork
<1>8. GatedTypes'
  BY <1>2, <1>3, <1>5 DEF GatedInv, GatedTypes, LogIsRight
<1>9. AtWorkIsLocked'
  BY <1>1, <1>5, <1>6, <1>7 DEF GatedInv, AtWorkIsLocked
<1>10. DoneIsPerformed' /\ WorkIsApproved'
  BY <1>3, <1>5, <1>6, <1>7 DEF GatedInv, DoneIsPerformed, WorkIsApproved, LogIsRight
<1>11. CompletedIsReceipted'
  <2>1. ASSUME NEW y \in Executors, NEW b \in ActionIds, executor'[y].at = "acted", IsNext(y, b)'
        PROVE  receipts'[b] # {}
    <3>1. y # x /\ executor[y].at = "acted" /\ executor'[y] = executor[y]
      BY <1>5, <1>6, <2>1
    <3>2. IsNext(y, b)
      BY <2>1, <3>1 DEF IsNext, ToDo
    <3> QED BY <1>2, <3>1, <3>2 DEF GatedInv, CompletedIsReceipted
  <2> QED BY <1>3, <2>1 DEF CompletedIsReceipted, LogIsRight
<1> QED BY <1>3, <1>8, <1>9, <1>10, <1>11 DEF GatedInv, LogIsRight

LEMMA CrashKeepsIt ==
  ASSUME GatedInv, NEW R \in SUBSET Alive(runner), NEW X \in SUBSET Alive(executor), Crash(R, X),
         DOMAIN runner = Runners
  PROVE  GatedInv'
<1>1. /\ executor' = [x \in Executors |-> IF x \in X THEN [executor[x] EXCEPT !.at = "over"]
                                                     ELSE executor[x]]
      /\ review' = [d \in Reviews |-> IF review[d].at = "none" THEN review[d]
                                                           ELSE [review[d] EXCEPT !.at = "over"]]
      /\ lock' = IF lock \in X THEN 0 ELSE lock
      /\ UNCHANGED <<decision, receipts>>
      /\ CutShort(UNION ({RunnerEvents(r) : r \in R} \union {ExecutorEvents(x) : x \in X}
                          \union {ReviewEvents(d) : d \in Reviews}))
  BY DEF Crash
<1>2. R \subseteq Runners /\ X \subseteq Executors
  BY DEF Alive, GatedInv, GatedTypes
<1>3. /\ executor' \in [Executors -> [at : Places, token : Tokens, done : SUBSET ActionIds]]
      /\ \A x \in Executors : executor'[x].at \in AtWork => x \notin X /\ executor'[x] = executor[x]
  BY <1>1 DEF GatedInv, GatedTypes, Places, AtWork
<1>4. review' \in [Reviews -> [at : Stages, token : Tokens]]
  BY <1>1 DEF GatedInv, GatedTypes, Stages
<1>5. NoneTakesUp
  BY <1>1, <1>3 DEF NoneTakesUp
<1>6. CASE Grown
  <2>1. GatedTypes'
    BY <1>1, <1>3, <1>4, <1>6 DEF GatedInv, GatedTypes, Grown
  <2> QED BY <1>1, <1>5, <1>6, <2>1, Undisturbed
<1>7. ASSUME NEW x \in X, NEW e \in ExecutorEvents(x), log' = Logged(e[1], e[2])
      PROVE  GatedInv'
  <2>1. /\ LogIsRight
        /\ Performed' = IF e[1] = "action/completed" THEN Performed \union {e[2]} ELSE Performed
        /\ e[1] \in {"action/started", "action/completed", "run/completed"} => executor[x].at \in AtWork
    BY <1>1, <1>2, <1>7, ExecutorEventIsRight
  <2>2. GatedTypes'
    BY <1>1, <1>3, <1>4, <2>1 DEF GatedInv, GatedTypes, LogIsRight
  <2>3. \A y \in Executors : executor'[y].at \in AtWork => Performed' = Performed
    BY <1>2, <1>3, <2>1, OneAtWork
  <2>4. AtWorkIsLocked' /\ DoneIsPerformed' /\ WorkIsApproved'
    BY <1>3, <1>5, <2>1, <2>3
    DEF GatedInv, AtWorkIsLocked, DoneIsPerformed, WorkIsApproved, NoneTakesUp, LogIsRight
  <2>5. CompletedIsReceipted'
    BY <1>1, <1>3, <2>1 DEF GatedInv, CompletedIsReceipted, LogIsRight, IsNext, ToDo, AtWork
  <2> QED BY <2>1, <2>2, <2>4, <2>5 DEF GatedInv, LogIsRight
<1>8. CASE UNCHANGED log
  BY <1>6, <1>8, Idle DEF GatedInv, GatedTypes
<1>9. ASSUME NEW e, Plain(e[1], e[2]), log' = Logged(e[1], e[2]) PROVE GatedInv'
  BY <1>6, <1>9, PlainEventGrows DEF GatedInv, GatedTypes
<1>10. ASSUME NEW r \in R, NEW e \in RunnerEvents(r), log' = Logged(e[1], e[2]) PROVE GatedInv'
  BY <1>2, <1>9, <1>10, RunnerEventsArePlain
<1>11. ASSUME NEW d \in Reviews, NEW e \in ReviewEvents(d), log' = Logged(e[1], e[2]) PROVE GatedInv'
  BY <1>9, <1>11, ReviewEventsArePlain DEF GatedInv
<1> QED BY <1>1, <1>7, <1>8, <1>10, <1>11 DEF CutShort

-----------------------------------------------------------------------------
(* The theorems *)

RunnersStay == DOMAIN runner = Runners

LEMMA RunnersAreKept ==
  ASSUME DOMAIN runner = Runners, [GatedRunNext]_gatedVars
  PROVE  DOMAIN runner' = Runners
BY DEF GatedRunNext, gatedVars, RunnerStep, ReviewStep, ExecutorStep, StartRunner, LookRound,
       RunnerRecords, Analyse, RunnerFails, MoveRunner, GateDecision, ReviewRecords, ReviewLaunches,
       Enter, ExecutorRecords, Perform, ExecutorFails, RequestCancel, ReadForCancel, RecordCancel, Expire, Crash,
       Restart

\* The invariant of the run, with the runners it is about: no step disturbs it.
THEOREM GatedInvariant == GatedRunSpec => [](GatedInv /\ RunnersStay)
<1>1. GatedRunInit => GatedInv /\ RunnersStay
  <2> SUFFICES ASSUME GatedRunInit PROVE GatedInv /\ RunnersStay
    OBVIOUS
  <2>1. /\ log = [approvals |-> <<>>, completions |-> <<>>, carriedOut |-> {}]
        /\ \A x \in Executors : executor[x].at = "none"
        /\ Performed = {} /\ receipts = [a \in ActionIds |-> {}]
    BY DEF GatedRunInit, Performed
  <2>2. GatedTypes
    BY <2>1 DEF GatedRunInit, GatedTypes, LogTypes, Tokens, Stages, Places, AtWork
  <2>3. PerformedAsApproved /\ PerformedOnce /\ CarriedOut
    BY <2>1 DEF PerformedAsApproved, PerformedOnce, CarriedOut
  <2>4. AtWorkIsLocked /\ DoneIsPerformed /\ WorkIsApproved /\ CompletedIsReceipted
    BY <2>1 DEF AtWorkIsLocked, DoneIsPerformed, WorkIsApproved, CompletedIsReceipted, AtWork
  <2> QED BY <2>2, <2>3, <2>4 DEF GatedInv, GatedRunInit, RunnersStay
<1>2. GatedInv /\ RunnersStay /\ [GatedRunNext]_gatedVars
        => GatedInv' /\ RunnersStay'
  <2> SUFFICES ASSUME GatedInv, RunnersStay, [GatedRunNext]_gatedVars
               PROVE  GatedInv'
    BY RunnersAreKept DEF RunnersStay
  <2>1. CASE UNCHANGED gatedVars
    BY <2>1, Idle, LeftAlone DEF gatedVars, GatedInv, GatedTypes
  <2>2. ASSUME NEW x \in Executors, ExecutorStep(x) PROVE GatedInv'
    BY <2>2, EnterKeepsIt, ExecutorRecordsKeepsIt, PerformKeepsIt, ExecutorFailsKeepsIt
    DEF ExecutorStep
  <2> QED BY <2>1, <2>2, RunnerStepsKeepIt, ReviewStepsKeepIt, CancellingKeepsIt,
             ClockAndRestartKeepIt, CrashKeepsIt DEF GatedRunNext, RunnersStay
<1> QED BY <1>1, <1>2, PTL DEF GatedRunSpec

\* An action leaves no receipt but under a token that was approved, however the
\* reviews, the analyses that replace the decision and the action runners
\* interleave, and whatever a crash leaves of the log (_validate_gate).
THEOREM ActionsAreApproved == GatedRunSpec => []PerformedAsApproved
<1>1. GatedInv => PerformedAsApproved
  BY DEF GatedInv
<1> QED BY <1>1, GatedInvariant, PTL

\* An action is completed once, however many action runners were launched: the
\* lock and the log they read under it see to that (execute_actions).
THEOREM ActionsAreCompletedOnce == GatedRunSpec => []PerformedOnce
<1>1. GatedInv => PerformedOnce
  BY DEF GatedInv
<1> QED BY <1>1, GatedInvariant, PTL

\* A run reported complete under a gate has a receipt of each of its actions.
THEOREM CompleteMeansCarriedOut == GatedRunSpec => []CarriedOut
<1>1. GatedInv => CarriedOut
  BY DEF GatedInv
<1> QED BY <1>1, GatedInvariant, PTL
=============================================================================
