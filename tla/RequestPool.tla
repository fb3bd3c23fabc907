----------------------------- MODULE RequestPool -----------------------------
(***************************************************************************)
(* What a supervised server promises the platform that hands it requests   *)
(* (Supervisor implements it): every request is told one outcome, which    *)
(* never changes; the guest runs an admitted request at most once and a    *)
(* refused one never; it answers only a request it ran; and once the end   *)
(* is announced no request is open and no guest code runs.                 *)
(***************************************************************************)
CONSTANTS Requests, Refusals, Losses   \* how a request may be told it failed

VARIABLES outcome,    \* "none", "pending", or what the request was told
          admitted,   \* the requests handed to a guest
          ran,        \* the requests whose handler a guest has entered
          ended       \* the end was announced

Init == /\ outcome = [i \in Requests |-> "none"]
        /\ admitted = {}
        /\ ran = {}
        /\ ended = FALSE

Tell(i, o) == outcome' = [outcome EXCEPT ![i] = o]

Refuse(i) == /\ outcome[i] = "none"
             /\ \E o \in Refusals : Tell(i, o)
             /\ UNCHANGED <<admitted, ran, ended>>

Admit(i) == /\ outcome[i] = "none" /\ ~ ended
            /\ Tell(i, "pending")
            /\ admitted' = admitted \union {i}
            /\ UNCHANGED <<ran, ended>>

Run(i) == /\ i \in admitted \ ran /\ ~ ended
          /\ ran' = ran \union {i}
          /\ UNCHANGED <<outcome, admitted, ended>>

Answer(i) == /\ outcome[i] = "pending" /\ i \in ran
             /\ Tell(i, "answered")
             /\ UNCHANGED <<admitted, ran, ended>>

\* One fault may lose several requests.
Lose(S) == /\ \A i \in S : outcome[i] = "pending"
           /\ outcome' \in [Requests -> Losses \union {outcome[i] : i \in Requests}]
           /\ \A i \in Requests : IF i \in S THEN outcome'[i] \in Losses
                                             ELSE outcome'[i] = outcome[i]
           /\ UNCHANGED <<admitted, ran, ended>>

End == /\ \A i \in Requests : outcome[i] # "pending"
       /\ ended' = TRUE
       /\ UNCHANGED <<outcome, admitted, ran>>

Next == \/ \E i \in Requests : Refuse(i) \/ Admit(i) \/ Run(i) \/ Answer(i)
        \/ \E S \in SUBSET Requests : Lose(S)
        \/ End

Spec == Init /\ [][Next]_<<outcome, admitted, ran, ended>>
=============================================================================
