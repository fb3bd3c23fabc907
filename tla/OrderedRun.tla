------------------------------ MODULE OrderedRun -----------------------------
(***************************************************************************)
(* What every executor of hd_sched promises of a run, whatever picks the   *)
(* next task: a task begins at most once, and only when every task it was  *)
(* declared to wait for has ended; and once it has begun, nothing more can *)
(* be put before it.  crates/hd_sched/DESIGN.md 6.1 and 6.2 rest on it: a  *)
(* task reads the result slots of its dependencies without a lock.         *)
(***************************************************************************)
CONSTANT Tasks

VARIABLES after,   \* after[t]: the tasks t was declared to wait for
          begun,   \* the tasks whose body has been entered
          ended    \* the tasks whose body has returned

vars == <<after, begun, ended>>

Init == /\ after = [t \in Tasks |-> {}]
        /\ begun = {}
        /\ ended = {}

Declare(t, deps) == /\ t \notin begun
                    /\ after' = [after EXCEPT ![t] = @ \cup deps]
                    /\ UNCHANGED <<begun, ended>>

Begin(t) == /\ t \notin begun
            /\ after[t] \subseteq ended
            /\ begun' = begun \cup {t}
            /\ UNCHANGED <<after, ended>>

End(t) == /\ t \in begun \ ended
          /\ ended' = ended \cup {t}
          /\ UNCHANGED <<after, begun>>

Next == \E t \in Tasks : \/ \E deps \in SUBSET Tasks : Declare(t, deps)
                         \/ Begin(t)
                         \/ End(t)

Spec == Init /\ [][Next]_vars
=============================================================================
