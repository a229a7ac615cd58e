---------------------------- MODULE WarmCacheMC ----------------------------
(***************************************************************************)
(* Instances of WarmCache for TLC.                                          *)
(***************************************************************************)
EXTENDS WarmCache, TLC

\* Tasks and requests are interchangeable.  (Safety only.)
Symmetry == Permutations(Tasks) \union Permutations(Readers)
=============================================================================
