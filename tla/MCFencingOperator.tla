------------------------- MODULE MCFencingOperator -------------------------
(***************************************************************************)
(* Values for the constants of FencingOperator, small enough for TLC.      *)
(***************************************************************************)
EXTENDS FencingOperator

CONSTANTS r1, r2, j1, n1, n2, c1, m1, p1

Single     == [labels |-> 0, nodes |-> Nodes, methods |-> <<m1>>]
JustSingle == {Single}
OneMap     == [c \in ConfigMaps |-> Single]
AllPairs   == Methods \X Nodes
=============================================================================
