------------------------ MODULE TransactionalStore ------------------------
(***************************************************************************)
(* What the engine promises its callers: an update gives a set of          *)
(* fragments a new version and reads see all of it at once, a commit makes *)
(* exactly the current view durable, and a power failure falls back to the *)
(* last commit, never to a mixture and never to anything not written.      *)
(***************************************************************************)
EXTENDS Integers

CONSTANTS Frags, Ids   \* fragments; versions, ordered by age

VARIABLES durable, view

Init == view = durable

Update(F, n) ==
  /\ \A f \in Frags : view[f].id < n
  /\ view' = [f \in Frags |-> IF f \in F THEN [frag |-> f, id |-> n] ELSE view[f]]
  /\ UNCHANGED durable

Commit == durable' = view /\ UNCHANGED view

FallBack == view' = durable /\ UNCHANGED durable

Next == (\E F \in SUBSET Frags, n \in Ids : Update(F, n)) \/ Commit \/ FallBack

Spec == Init /\ [][Next]_<<durable, view>>
=============================================================================
