----------------------------- MODULE ChartPageMC ------------------------------
(***************************************************************************)
(* The stations of ChartPage for TLC.  A station of its own page: one      *)
(* whose two sensors share a type of message, one whose charts are of two  *)
(* kinds.  Stations to compare: one with sensors of two types, two with a  *)
(* sensor of the same type each, and two of which only one has a sensor of *)
(* a type.                                                                 *)
(***************************************************************************)
EXTENDS ChartPage
CONSTANTS s1, s2
Of(first, second) == [s \in Source |-> IF s = s1 THEN first ELSE second]
MCSites == {Of("humidity", "pressure"), Of("wind", "rain")}
MCNetworks ==
  {[site |-> Of("temperature", "humidity"), station |-> Of(1, 1)],
   [site |-> Of("temperature", "temperature"), station |-> Of(1, 2)],
   [site |-> Of("temperature", "humidity"), station |-> Of(1, 2)]}
MCMaxReadings == [installation |-> 3, compare |-> 2]
=============================================================================
