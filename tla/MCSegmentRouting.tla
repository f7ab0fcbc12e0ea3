--------------------------- MODULE MCSegmentRouting ---------------------------
(***************************************************************************)
(* Four routers: the way 1-2-3-4 is the shortest to router 4, and router 2 *)
(* has a longer link to it.  SIDs are given to two loopback addresses and  *)
(* to the subnet of the link between routers 3 and 4.                      *)
(***************************************************************************)
EXTENDS SegmentRouting

Nodes == 1..4
Links == (({1, 2} :> 1) @@ ({2, 3} :> 1) @@ ({3, 4} :> 1) @@ ({2, 4} :> 5))
Egresses == {4}
Changing == {<<3, 4>>, <<4, 3>>}
Switched == {4}
Names == {"lsp"}
Addresses == (({3} :> 3) @@ ({4} :> 4) @@ ({3, 4} :> 34))
Indices == {8, 9}
Blocks == {101}
Sizes == {9}
Moved == {3}
=============================================================================
