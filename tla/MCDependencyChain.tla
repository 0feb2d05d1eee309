-------------------------- MODULE MCDependencyChain --------------------------
(* Instances of DependencyChain for TLC: one weekly sync with a retry, and    *)
(* the planner each of its two attempts may create.                           *)
EXTENDS DependencyChain

CONSTANTS sync, plan1, plan2

MCKey == [j \in ScheduledJobs |-> "source-sync"]
MCRank == [j \in Jobs |-> 1]
MCMaxAttempts == [j \in ScheduledJobs |-> IF j = sync THEN 1 ELSE 0]
MCFeeder == [p \in {plan1, plan2} |-> sync]
MCTry == [p \in {plan1, plan2} |-> IF p = plan1 THEN 1 ELSE 2]
=============================================================================
