------------------------- MODULE MCResourceDelivery -------------------------
(* Instances of ResourceDelivery for TLC: one item, delivered by overlapping   *)
(* senders, under a breaker that opens at the first 429.                      *)
EXTENDS ResourceDelivery

CONSTANTS doc, r1, oneapi

MCResource == [i \in Items |-> "resource"]
MCMode == [i \in Items |-> "vectors_only"]
MCRevision == [i \in Items |-> r1]
MCBucket == [i \in Items |-> oneapi]
=============================================================================
