----------------------------- MODULE ShotSweep ------------------------------
(***************************************************************************)
(* What a purge of webcam shots is, without times, cursors, batches,        *)
(* objects and messages: it reaches shots one by one, none of them twice,   *)
(* and completes when it has reached all that were there at its start.      *)
(* ShotPurger implements it.                                                *)
(***************************************************************************)
CONSTANT Ids

VARIABLES
  rows,     \* the shots there are
  status,   \* what the job is doing, or how it has ended
  due,      \* the shots it has to reach
  reached,  \* those it has reached, later ones among them
  lost      \* those of them that it could not delete

sweepVars == <<rows, status, due, reached, lost>>

SweepInit ==
  rows \subseteq Ids /\ status = "idle" /\ due = {} /\ reached = {} /\ lost = {}

\* The others.  A shot that is gone does not come back.
Arrive(id) ==
  /\ id \notin rows \union due \union reached
  /\ rows' = rows \union {id}
  /\ UNCHANGED <<status, due, reached, lost>>

Remove == rows' \subseteq rows /\ UNCHANGED <<status, due, reached, lost>>

Start ==
  /\ status # "running" /\ status' = "running"
  /\ due' \subseteq rows /\ reached' = {} /\ lost' = {}
  /\ UNCHANGED rows

Reach(id) ==
  /\ status = "running"
  /\ id \notin reached /\ reached' = reached \union {id}
  /\ \/ rows' = rows \ {id} /\ UNCHANGED lost
     \/ lost' = lost \union {id} /\ UNCHANGED rows
  /\ UNCHANGED <<status, due>>

Finish ==
  /\ status = "running" /\ status' = "completed"
  /\ due \intersect rows \subseteq reached
  /\ UNCHANGED <<rows, due, reached, lost>>

\* A job that ends early forgets some of what it has done, or all of it.
Abort ==
  /\ status' \in {"idle", "failed"}
  /\ due' \subseteq due /\ reached' \subseteq reached /\ lost' \subseteq lost
  /\ UNCHANGED rows

SweepNext ==
  \/ \E id \in Ids : Arrive(id) \/ Reach(id)
  \/ Remove \/ Start \/ Finish \/ Abort

SweepSpec == SweepInit /\ [][SweepNext]_sweepVars
=============================================================================
