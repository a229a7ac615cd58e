---------------------------- MODULE ShotUploadMC ----------------------------
(***************************************************************************)
(* Instances of ShotUpload for TLC.                                         *)
(***************************************************************************)
EXTENDS ShotUpload, TLC

Symmetry == Permutations(Images) \union Permutations(Uploads)
=============================================================================
