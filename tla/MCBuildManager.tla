--------------------------- MODULE MCBuildManager ---------------------------
(* Small instances of BuildManager for TLC.                                *)
EXTENDS BuildManager

CONSTANTS v1, v2

(* As TestBuildManager asks: lists that overlap. *)
TwoLists == {<<v1>>, <<v2, v1>>}
=============================================================================
