--------------------------- MODULE MCCoordination ---------------------------
(* Instances of Coordination for TLC.                                        *)
EXTENDS Coordination, TLC

CONSTANTS a, b, m

(* The key a scheduled job runs under, its rank, and its retry budget.        *)
MCKey == [j \in ScheduledJobs |-> "source"]
MCRank == [j \in Jobs |-> IF j = a THEN 2 ELSE 1]
MCMaxAttempts == [j \in ScheduledJobs |-> IF j = a THEN 1 ELSE 0]

(* Bound: at most one of the two gates is closed at a time.                   *)
OneGate == frozen => admission

SlotSymmetry == Permutations(Slots)
=============================================================================
