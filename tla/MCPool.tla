------------------------------- MODULE MCPool --------------------------------
(* PoolExecutor on a small set of tasks; a task is a model value. *)
EXTENDS PoolExecutor, TLC
==============================================================================
