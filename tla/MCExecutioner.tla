---------------------------- MODULE MCExecutioner ----------------------------
(***************************************************************************)
(* Values for the constants of Executioner, small enough for TLC.          *)
(***************************************************************************)
EXTENDS Executioner, TLC

CONSTANTS r1, r2, j1, j2, n1, n2, c1, c2, m1, m2

AllPairs == Methods \X Nodes

(* A general configuration with two methods, and one for other nodes. *)
General  == [labels |-> 0, nodes |-> Nodes, methods |-> <<m1, m2>>]
Foreign  == [labels |-> 1, nodes |-> {}, methods |-> <<m2>>]

Single   == [labels |-> 0, nodes |-> Nodes, methods |-> <<m1>>]

Empty    == [labels |-> 2, nodes |-> Nodes, methods |-> <<>>]

GeneralOrEmpty == {General, Empty}
SingleMap == [c \in ConfigMaps |-> Single]
JustSingle == {Single}
OneMap == [c \in ConfigMaps |-> General]
TwoMaps == (c1 :> General) @@ (c2 :> Foreign)
AllContents == {General, Foreign}
JustGeneral == {General}
AllEdits == {General, Empty, Bad, NoKey, None}
JustBad == {Bad}
JobSymmetry == Permutations(Jobs)
=============================================================================
