---------------------------- MODULE RemoteWrite ----------------------------
(***************************************************************************)
(* What publishing through the outbox promises, with no lease, breaker,    *)
(* ledger or sender in sight: an item is owed until it is delivered or      *)
(* dropped, once and for all; it is delivered only when the remote service  *)
(* has taken it; and it is sent a bounded number of times, however many     *)
(* senders crash or overlap.  Module ResourceDelivery implements this.      *)
(***************************************************************************)
EXTENDS Integers

CONSTANTS
  Items,     \* what may be published
  MaxSends   \* requests per item

VARIABLES
  fate,      \* none, owed, delivered or dropped
  sent,      \* requests made for each item
  taken      \* items the remote service has taken

vars == <<fate, sent, taken>>

Init ==
  /\ fate = [i \in Items |-> "none"]
  /\ sent = [i \in Items |-> 0]
  /\ taken = {}

Submit(i) ==
  /\ fate[i] = "none"
  /\ fate' = [fate EXCEPT ![i] = "owed"]
  /\ UNCHANGED <<sent, taken>>

(* A slow sender may still send what was given up meanwhile.                *)
Send(i) ==
  /\ fate[i] # "none" /\ sent[i] < MaxSends
  /\ sent' = [sent EXCEPT ![i] = @ + 1]
  /\ UNCHANGED <<fate, taken>>

Take(i) ==
  /\ sent[i] > 0
  /\ taken' = taken \union {i}
  /\ UNCHANGED <<fate, sent>>

Deliver(i) ==
  /\ fate[i] = "owed" /\ i \in taken
  /\ fate' = [fate EXCEPT ![i] = "delivered"]
  /\ UNCHANGED <<sent, taken>>

Drop(is) ==
  /\ \A i \in is : fate[i] = "owed"
  /\ fate' = [i \in Items |-> IF i \in is THEN "dropped" ELSE fate[i]]
  /\ UNCHANGED <<sent, taken>>

Next ==
  \/ \E i \in Items : Submit(i) \/ Send(i) \/ Take(i) \/ Deliver(i)
  \/ \E is \in SUBSET Items : Drop(is)

Spec == Init /\ [][Next]_vars
=============================================================================
