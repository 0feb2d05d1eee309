----------------------------- MODULE MCEffects -----------------------------
(* What cannot be taken back once done, for TLC: the requests of                 *)
(* ResourceDelivery to the service, the removals of Retention from the disk and    *)
(* the actions of GatedRun.  They share no row and no file, so a behaviour shows   *)
(* one of them.                                                               *)
(*                                                                         *)
(* The item of MCResourceDelivery; a snapshot and a log that is rewritten once,   *)
(* under two plans whose reclaimers may overlap once the lease lapses; a run that   *)
(* two runners analyse, behind one review and over a restart of the server.       *)
EXTENDS MCResourceDelivery, Retention, GatedRun

VARIABLE effect

EffectsInit ==
  DeliveryInit /\ RetentionInit /\ GatedRunInit /\ effect \in {"request", "removal", "action"}

EffectsNext ==
  \/ effect = "request" /\ DeliveryNext /\ UNCHANGED <<retentionVars, gatedVars, effect>>
  \/ effect = "removal" /\ RetentionNext /\ UNCHANGED <<deliveryVars, gatedVars, effect>>
  \/ effect = "action" /\ GatedRunNext /\ UNCHANGED <<deliveryVars, retentionVars, effect>>

EffectsSpec == EffectsInit /\ [][EffectsNext]_<<deliveryVars, retentionVars, gatedVars, effect>>
=============================================================================
