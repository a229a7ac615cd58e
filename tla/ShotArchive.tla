---------------------------- MODULE ShotArchive -----------------------------
(***************************************************************************)
(* What the upload of webcam shots promises, without requests, keys,        *)
(* objects and tasks: a set of images that are kept, of which viewers are   *)
(* served what they were sent.  ShotUpload implements it.                   *)
(*                                                                          *)
(* A purge that fails leaves images that are kept and not served.  Across a *)
(* restart of the runtime the code promises less: images are kept, and any  *)
(* of them may no longer be what is served.                                 *)
(***************************************************************************)
CONSTANT Images

VARIABLES
  kept,      \* the images that have a row
  told,      \* those whose sender was told that they are kept
  served,    \* those whose row leads to the image itself
  leaving,   \* the image that a purge has withdrawn and not yet deleted
  restarted  \* the runtime has been started again

archiveVars == <<kept, told, served, leaving, restarted>>

ArchiveInit ==
  kept = {} /\ told = {} /\ served = {} /\ leaving = {} /\ restarted = FALSE

\* An image is recorded once, and can be seen from then on.
Keep(i) ==
  /\ i \notin kept
  /\ kept' = kept \union {i} /\ told' = told \union {i}
  /\ served' = served \union {i} \/ (restarted /\ UNCHANGED served)
  /\ UNCHANGED <<leaving, restarted>>

\* A sender that sends it again is told so.
Confirm(i) ==
  /\ i \in kept
  /\ told' = told \union {i}
  /\ UNCHANGED <<kept, served, leaving, restarted>>

\* An image that is about to be purged is gone before its row is, never two of
\* them.
Withdraw(i) ==
  /\ i \in kept /\ leaving = {}
  /\ served' = served \ {i} /\ leaving' = {i}
  /\ UNCHANGED <<kept, told, restarted>>

Delete(i) ==
  /\ i \in kept
  /\ kept' = kept \ {i} /\ told' = told \ {i}
  /\ served' = served \ {i} /\ leaving' = leaving \ {i}
  /\ UNCHANGED restarted

\* The purge could not delete the image: it is kept, and no longer served.
Abandon == leaving' = {} /\ UNCHANGED <<kept, told, served, restarted>>

Interrupt ==
  restarted' = TRUE /\ leaving' = {} /\ UNCHANGED <<kept, told, served>>

\* An object of an earlier runtime may be stored over.
Doubt ==
  /\ restarted
  /\ served' \subseteq served /\ leaving' \subseteq leaving
  /\ UNCHANGED <<kept, told, restarted>>

ArchiveNext ==
  \/ \E i \in Images : Keep(i) \/ Confirm(i) \/ Withdraw(i) \/ Delete(i)
  \/ Abandon
  \/ Interrupt
  \/ Doubt

ArchiveSpec == ArchiveInit /\ [][ArchiveNext]_archiveVars
=============================================================================
