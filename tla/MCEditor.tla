------------------------------ MODULE MCEditor ------------------------------
(* Two nodes, two lists of states and two of displays: a  *)
(* node between another node and a head has two different neighbours.       *)
EXTENDS Editor

CONSTANTS n1, n2

NodeSet == {n1, n2}
===============================================================================
