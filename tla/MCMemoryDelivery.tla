-------------------------- MODULE MCMemoryDelivery --------------------------
(* Instances of MemoryDelivery for TLC: a note that says one thing or another,    *)
(* mirrored by one writer.                                                     *)
EXTENDS MemoryDelivery

CONSTANTS a, b, w1
=============================================================================
