------------------------------ MODULE MCHostRun ------------------------------
(* HostRun on a few operations, items and lines. *)
EXTENDS HostRun
=============================================================================
