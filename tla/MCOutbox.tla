------------------------------ MODULE MCOutbox ------------------------------
(* An instance of Outbox for TLC: a vector item and a semantic item of one     *)
(* revision, and a concept item, in one provider bucket.                      *)
EXTENDS Outbox

CONSTANTS vec, sem, con, r1, r2, oneapi

MCKind == [i \in Items |-> IF i = con THEN "concept" ELSE "resource"]
MCMode == [i \in Items |-> IF i = vec THEN "vectors_only" ELSE "semantic_and_vectors"]
MCRevision == [i \in Items |-> IF i = con THEN r2 ELSE r1]
MCBucket == [i \in Items |-> oneapi]

(* Bound: four dispatches in all, one of the vector item, two of another.      *)
FourDispatches ==
  /\ dispatched[vec] <= 1
  /\ dispatched[vec] + dispatched[sem] + dispatched[con] <= 4
=============================================================================
