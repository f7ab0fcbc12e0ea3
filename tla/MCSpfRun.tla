------------------------------ MODULE MCSpfRun ------------------------------
(***************************************************************************)
(* Small networks for SpfRun.  A network is a sequence of links <<x, y>>;  *)
(* link i is the pair of directed edges 2i-1 (x to y) and 2i (y to x), as  *)
(* insert_edge_between_2_nodes creates them.  Edges out of a pseudonode    *)
(* have metric 0 (mark_node_pseudonode).                                   *)
(***************************************************************************)
EXTENDS SpfRunInvariant, TLC

CONSTANTS ra, rb, rc, rd, rf, rg, lan  \* routers, and a pseudonode

EdgesOf(links) == 1..(2 * Len(links))
LinkOf(e) == (e + 1) \div 2
SrcOf(links) == [e \in EdgesOf(links) |-> links[LinkOf(e)][IF e % 2 = 1 THEN 1 ELSE 2]]
DstOf(links) == [e \in EdgesOf(links) |-> links[LinkOf(e)][IF e % 2 = 1 THEN 2 ELSE 1]]

\* Link i has metric m[i] in both directions and is up unless it is in down.
Network(m, down, over, n) ==
  [metric |-> [e \in Edge |-> IF Src[e] \in Pseudo THEN 0 ELSE m[LinkOf(e)]],
   status |-> [e \in Edge |-> LinkOf(e) \notin down],
   overload |-> over, cmds |-> n]
Plain(m) == Network(m, {}, {}, 1)

None == {}
NoPhys == <<>>

\* Equal-cost paths between four routers, crossed by the link rb-rc.
Square == <<<<ra, rb>>, <<ra, rc>>, <<rb, rd>>, <<rc, rd>>, <<rb, rc>>>>
SquareNodes == {ra, rb, rc, rd}
SquareEdges == EdgesOf(Square)
SquareSrc == SrcOf(Square)
SquareDst == DstOf(Square)
\* One network for sequences of commands, and one run on all with metrics 1, 2.
SquareAll ==
  {Network([i \in 1..5 |-> 1], {}, {}, 3)} \cup
  {Plain(m) : m \in [1..5 -> {1, 2}]}

\* A LAN of three routers, two of them with a link to rd, and a direct link ra-rb.
\* The LSP from ra to rc over the direct link is the last edge.
Lan == <<<<ra, lan>>, <<rb, lan>>, <<rc, lan>>, <<rb, rd>>, <<rc, rd>>, <<ra, rb>>>>
LanNodes == {ra, rb, rc, rd, lan}
LanEdges == 1..13
LanSrc == [e \in LanEdges |-> IF e = 13 THEN ra ELSE SrcOf(Lan)[e]]
LanDst == [e \in LanEdges |-> IF e = 13 THEN rc ELSE DstOf(Lan)[e]]
LanPseudo == {lan}
LanLsp == {13}
LanPhys == [e \in LanLsp |-> 11]
\* The LAN, and the LSP that competes with the links.
LanAll ==
  {Network(m @@ (7 :> 1), {7}, over, 1) : m \in [1..6 -> {1, 2}], over \in {{}, {rc}}} \cup
  {Network(m @@ (7 :> x), {1}, {}, 1) : m \in [1..6 -> {1, 2}], x \in {1, 3}}

\* From ra to rd over rc with the hop rb, and over rf with the hops rb and rg.
Ladder == <<<<ra, rb>>, <<ra, rg>>, <<rb, rc>>, <<rb, rf>>, <<rg, rf>>, <<rc, rd>>, <<rf, rd>>>>
LadderNodes == {ra, rb, rc, rd, rf, rg}
LadderEdges == EdgesOf(Ladder)
LadderSrc == SrcOf(Ladder)
LadderDst == DstOf(Ladder)
LadderUnit == {Plain([i \in 1..7 |-> 1])}
=============================================================================
