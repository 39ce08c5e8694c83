---------------------------- MODULE MCSiadBuild ----------------------------
(* Small instances of SiadBuild for TLC.                                   *)
EXTENDS SiadBuild

(* v1.4.0 is the first of three releases, v1.5.5 the second; the pages may *)
(* list a tag twice, in any order.                                         *)
ThreeNums    == 1 .. 3
SomeTagLists == {<<>>, <<1>>, <<3, 1>>, <<1, 3>>, <<2, 1>>, <<3, 2>>, <<3, 3>>, <<1, 1>>}
SomePatches  == {{}, {2}, {1, 3}}
SomeMinima   == 1 .. 3
SomeExclusions == {{}, {[num |-> 2, patch |-> FALSE]}, {[num |-> 3, patch |-> TRUE]}}
=============================================================================
