----------------------------- MODULE RadarPageMC -----------------------------
(***************************************************************************)
(* The periods of RadarPage for TLC: one product has twice the period of   *)
(* the default one, so that their grids differ.                            *)
(***************************************************************************)
EXTENDS RadarPage
MCPeriod == [p \in Product |-> IF p = DefaultProduct THEN 1 ELSE 2]
=============================================================================
