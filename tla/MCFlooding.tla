----------------------------- MODULE MCFlooding -----------------------------
(***************************************************************************)
(* A LAN of ra, rb and rc; rd has links to rb and rc and a neighbour rf    *)
(* of its own; an LSP from rf to ra may be added.  Link i is the pair of   *)
(* directed edges 2i-1 and 2i.                                             *)
(***************************************************************************)
EXTENDS Flooding

CONSTANTS ra, rb, rc, rd, rf, lan

Nodes == {ra, rb, rc, rd, rf, lan}
Links == <<<<ra, lan>>, <<rb, lan>>, <<rc, lan>>, <<rb, rd>>, <<rc, rd>>, <<rd, rf>>>>
LspEdge == 13
Edges == 1..LspEdge
EdgeSrc == [e \in Edges |->
  IF e = LspEdge THEN rf ELSE Links[(e + 1) \div 2][IF e % 2 = 1 THEN 1 ELSE 2]]
EdgeDst == [e \in Edges |->
  IF e = LspEdge THEN ra ELSE Links[(e + 1) \div 2][IF e % 2 = 1 THEN 2 ELSE 1]]
Pseudonodes == {lan}
Lsps == {LspEdge}
=============================================================================
