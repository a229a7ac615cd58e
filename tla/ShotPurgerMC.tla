---------------------------- MODULE ShotPurgerMC ----------------------------
(***************************************************************************)
(* Instances of ShotPurger for TLC.                                         *)
(***************************************************************************)
EXTENDS ShotPurger, TLC
=============================================================================
