----------------------------- MODULE MCPackStore -----------------------------
(* PackStore on two processes and two keys. *)
EXTENDS PackStore, TLC

\* A batch may hold a key twice, and then a dead frame.
One == {<<1>>}
Some == {<<1>>, <<1, 2, 1>>}

Symmetry == Permutations(Procs)
=============================================================================
