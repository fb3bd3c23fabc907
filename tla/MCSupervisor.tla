---------------------------- MODULE MCSupervisor ----------------------------
(* Supervisor on a few slots and requests; a slot is a model value. *)
EXTENDS Supervisor, TLC

\* The slots are interchangeable: dispatch may take any free one.
Symmetry == Permutations(Slots)
=============================================================================
