----------------------------- MODULE MCGatedRun -----------------------------
(* Instance of GatedRun for TLC: one runner, one review, one restart.            *)
EXTENDS GatedRun

=============================================================================
