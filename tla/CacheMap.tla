------------------------------ MODULE CacheMap ------------------------------
(***************************************************************************)
(* What the disk cache promises the commands that share it (PackStore      *)
(* implements it).  The cache is a map from keys to frames.  A publish     *)
(* puts its whole batch there in one step, and takes nothing away.  Only a *)
(* collection that found more than its cap, or a disk that lost data,      *)
(* takes entries away.  A command answers from what it saw of the map: an  *)
(* answer may be missing, it is never another frame, or part of one.       *)
(***************************************************************************)
EXTENDS Naturals, Sequences

CONSTANTS Procs, Keys, Packs, Miss,
          Batches,    \* what a command may publish at once
          TooMuch(_)  \* whether entries for a set of keys exceed the cap

VARIABLES
  store,     \* the frame of each key, or Miss
  views,     \* what a command answers; follows store until its first question
  asked,     \* the batch a command is publishing, <<>> when it is not
  origin,    \* the name under which it will be published
  mayForget, \* the command collects, and found more than the cap
  faults     \* how often the disk lost something

vars == <<store, views, asked, origin, mayForget, faults>>

Frame(b, o, k) == LET last == CHOOSE n \in DOMAIN b :
                                 /\ b[n] = k
                                 /\ \A m \in DOMAIN b : b[m] = k => m <= n
                  IN  [key |-> k, pack |-> o, at |-> last]

\* f holds nothing that g does not hold.
Within(f, g) == \A k \in Keys : f[k] # Miss => f[k] = g[k]

\* The answers after a step: a command keeps its own or takes the map's, and
\* may lose some of either.
Views == \/ UNCHANGED views
         \/ \A p \in Procs : Within(views'[p], views[p]) \/ Within(views'[p], store')

Init == /\ store = [k \in Keys |-> Miss]
        /\ views = [p \in Procs |-> store]
        /\ asked = [p \in Procs |-> <<>>]
        /\ origin = [p \in Procs |-> 0]
        /\ mayForget = [p \in Procs |-> FALSE]
        /\ faults = 0

Ask(p) == /\ asked[p] = <<>>
          /\ \E b \in Batches, o \in Packs :
               /\ \A q \in Procs : origin[q] # o
               /\ \A k \in Keys : store[k] # Miss => store[k].pack # o
               /\ asked' = [asked EXCEPT ![p] = b]
               /\ origin' = [origin EXCEPT ![p] = o]
          /\ UNCHANGED <<store, mayForget, faults>>

Answered(p) == /\ asked[p] # <<>>
               /\ asked' = [asked EXCEPT ![p] = <<>>]
               /\ origin' = [origin EXCEPT ![p] = 0]
               /\ UNCHANGED <<mayForget, faults>>

Publish(p) == /\ Answered(p)
              /\ store' = [k \in Keys |-> IF \E n \in DOMAIN asked[p] : asked[p][n] = k
                                          THEN Frame(asked[p], origin[p], k)
                                          ELSE store[k]]

GiveUp(p) == /\ Answered(p)
             /\ UNCHANGED store

Collect(p) == /\ TooMuch({k \in Keys : store[k] # Miss})
              /\ mayForget' = [mayForget EXCEPT ![p] = TRUE]
              /\ UNCHANGED <<store, asked, origin, faults>>

Collected(p) == /\ mayForget' = [mayForget EXCEPT ![p] = FALSE]
                /\ UNCHANGED <<store, asked, origin, faults>>

Forget(p) == /\ mayForget[p]
             /\ Within(store', store)
             /\ UNCHANGED <<asked, origin, mayForget, faults>>

Lose == /\ faults' = faults + 1
        /\ UNCHANGED <<asked, origin, mayForget>>
        /\ Within(store', store)

Read == UNCHANGED <<faults, asked, origin, mayForget, store>>

Next == /\ Views
        /\ \/ Read \/ Lose
           \/ \E p \in Procs : \/ Ask(p) \/ Publish(p) \/ GiveUp(p)
                              \/ Collect(p) \/ Forget(p) \/ Collected(p)

Spec == Init /\ [][Next]_vars
=============================================================================
