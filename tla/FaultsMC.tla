------------------------------ MODULE FaultsMC ------------------------------
(***************************************************************************)
(* Instances of Faults for TLC.                                             *)
(***************************************************************************)
EXTENDS Faults, TLC

\* A reading that arrives at once, one that is past the threshold when it
\* arrives, and one whose sender's clock is ahead.
FreshOnly == {0}
AheadFreshAndOld == {-MaxAhead, 0, Threshold + 1}

\* Identifiers, pages and tasks are interchangeable.  (Safety only.)
Symmetry == Permutations(FaultId) \union Permutations(Admins)
              \union Permutations(ClearTasks)
=============================================================================
