---------------------------- MODULE MCRedBlackTree ----------------------------
(***************************************************************************)
(* Seven nodes with distances that force every case of the repairs.        *)
(***************************************************************************)
EXTENDS RedBlackTree

Nodes == 1..7
Distances == [n \in Nodes |-> CASE n = 1 -> {} [] n \in {2, 3} -> {2, 5} [] OTHER -> {n}]
=============================================================================
