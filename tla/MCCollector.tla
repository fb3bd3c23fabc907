---------------------------- MODULE MCCollector ----------------------------
(* CycleCollector on small heaps; an object is a model value. *)
EXTENDS CycleCollector, TLC
=============================================================================
