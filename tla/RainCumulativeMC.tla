------------------------- MODULE RainCumulativeMC -------------------------
(***************************************************************************)
(* Instances of RainCumulative for TLC.                                     *)
(***************************************************************************)
EXTENDS RainCumulative, TLC

\* Requests are interchangeable.
Symmetry == Permutations(Requests)
=============================================================================
