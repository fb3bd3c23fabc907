------------------------------ MODULE MCSerial -------------------------------
(* SerialExecutor on a small set of tasks; a task is a model value. *)
EXTENDS SerialExecutor, TLC
=============================================================================
