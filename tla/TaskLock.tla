------------------------------ MODULE TaskLock ------------------------------
(***************************************************************************)
(* What the guard of /kroger/add-to-cart promises in src/Downloads/app.py  *)
(* and src/Downloads/f22/loo.py: a lock on the account that a task gets    *)
(* only if no task holds it, unless it has been undermined while held, and *)
(* that is as good as new when it is next taken with no holder left.       *)
(***************************************************************************)
CONSTANT Job

VARIABLES
  holders,     \* the tasks that can act on the account
  undermined   \* the lock was made to look free while held

vars == <<holders, undermined>>

Init == holders = {} /\ undermined = FALSE

Take(j) == j \notin holders /\ holders' = holders \cup {j}

Acquire(j) ==
  /\ undermined \/ holders = {}
  /\ Take(j)
  /\ undermined' = (undermined /\ holders # {})

Release(j) ==
  /\ j \in holders
  /\ holders' = holders \ {j}
  /\ UNCHANGED undermined

Undermine ==
  /\ holders # {}
  /\ undermined' = TRUE
  /\ UNCHANGED holders

(* A task that does not ask; it is then as if the lock had been undermined. *)
Barge(j) ==
  /\ Take(j)
  /\ undermined' = (undermined \/ holders # {})

Next == Undermine \/ \E j \in Job : Acquire(j) \/ Release(j)

(* The same with tasks that do not ask. *)
BargingNext == Next \/ \E j \in Job : Barge(j)

Spec == Init /\ [][Next]_vars
=============================================================================
