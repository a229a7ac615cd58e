---------------------------- MODULE FormInputsMC -----------------------------
(***************************************************************************)
(* The values of FormInputs for TLC.  The clock is put back between the    *)
(* instants 1 and 2, which have the same text, and the server's text of 3  *)
(* is in the hour the viewer's clock skips.                                *)
(***************************************************************************)
EXTENDS FormInputs
CONSTANTS x1, x2, x3, raw, clean, none
MCShown == <<x1, x1, x2, x3>>
MCParsed == [x \in DateText |-> CASE x = x1 -> 1 [] x = x2 -> 3 [] x = x3 -> 4]
MCUtcText == <<x2, x3, NotADate, x1>>
MCClean == [c \in Content |-> IF c = raw THEN clean ELSE c]
=============================================================================
