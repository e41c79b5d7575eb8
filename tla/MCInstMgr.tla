------------------------------- MODULE MCInstMgr -------------------------------
(* Small instances of InstMgr.  Addresses are interchangeable.             *)
EXTENDS InstMgr, TLC

Symmetry == Permutations(Instances) \cup Permutations(Nodes)
================================================================================
