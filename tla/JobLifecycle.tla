---------------------------- MODULE JobLifecycle ----------------------------
(***************************************************************************)
(* What the coordination layer promises about jobs, with no slot, lease,   *)
(* occurrence or clock in sight: a job is submitted once, waits, executes  *)
(* in a bounded number of slots, may wait again for a bounded number of    *)
(* retries, and settles once and for all.  Jobs that share a concurrency   *)
(* key never execute together.  Module Coordination is shown to implement  *)
(* this specification.                                                     *)
(***************************************************************************)
EXTENDS Integers, FiniteSets

CONSTANTS
  Jobs,           \* every job that may be submitted
  ScheduledJobs,  \* those the calendar creates
  Key,            \* concurrency key of a scheduled job
  NoKey,          \* the key of a scheduled job that excludes nobody
  MaxAttempts,    \* retries a scheduled job may consume
  Capacity        \* number of execution slots

VARIABLES
  state,          \* absent, waiting, active or settled, for each job
  starts          \* how many times each job began to execute

vars == <<state, starts>>

Edges ==
  { <<"absent", "waiting">>, <<"waiting", "active">>, <<"waiting", "settled">>,
    <<"active", "waiting">>, <<"active", "settled">> }

Active == {j \in Jobs : state[j] = "active"}

(* Two jobs of one key are never active together.                          *)
Exclusive ==
  \A i, j \in Active \cap ScheduledJobs :
    i # j /\ Key[i] = Key[j] => Key[i] = NoKey

WithinCapacity == Cardinality(Active) <= Capacity

(* The first execution and one more for each retry.                        *)
WithinBudget == \A j \in ScheduledJobs : starts[j] <= MaxAttempts[j] + 1

Init ==
  /\ state = [j \in Jobs |-> "absent"]
  /\ starts = [j \in Jobs |-> 0]

Starts(j) == state[j] = "waiting" /\ state'[j] = "active"

(* Several jobs may move in one step (a sweep settles many, and a claim     *)
(* then starts one), each along an edge; at most one of them starts.        *)
Next ==
  /\ \A j \in Jobs : state'[j] = state[j] \/ <<state[j], state'[j]>> \in Edges
  /\ \A i, j \in Jobs : Starts(i) /\ Starts(j) => i = j
  /\ \A j \in Jobs : starts'[j] = IF Starts(j) THEN starts[j] + 1 ELSE starts[j]
  /\ Exclusive'
  /\ WithinCapacity'
  /\ WithinBudget'

Spec == Init /\ [][Next]_vars
=============================================================================
