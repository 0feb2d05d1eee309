------------------------------ MODULE MCMirrors ------------------------------
(* What follows something that changes without it, for TLC: the note mirrored by  *)
(* MemoryDelivery and the alerts of Attention.  They share no row, so a behaviour   *)
(* shows one of them.                                                          *)
(*                                                                         *)
(* A note that says one thing or another, with one writer; a module and the        *)
(* registry, one of which fails, recovers and fails again.                       *)
EXTENDS MCMemoryDelivery, Attention

CONSTANT module

VARIABLE mirror

MirrorsInit ==
  /\ MemoryInit /\ AttentionInit
  /\ mirror \in {"note", "alert"}
  /\ mirror = "alert" => file = NoText

MirrorsNext ==
  \/ mirror = "note" /\ MemoryNext /\ UNCHANGED <<attentionVars, mirror>>
  \/ mirror = "alert" /\ AttentionNext /\ UNCHANGED <<memoryVars, mirror>>

MirrorsSpec == MirrorsInit /\ [][MirrorsNext]_<<memoryVars, attentionVars, mirror>>
=============================================================================
