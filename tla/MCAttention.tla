----------------------------- MODULE MCAttention -----------------------------
(* Instance of Attention for TLC: one module whose health fails, is well again     *)
(* and fails again, with the same reason and so the same fingerprint.              *)
EXTENDS Attention

CONSTANT module
=============================================================================
