----------------------------- MODULE Topologies -----------------------------
(***************************************************************************)
(* The topologies topo.c builds, as data: the links in the order in which  *)
(* insert_edge_between_2_nodes() adds them, which is the order of the      *)
(* interface slots.  Interface names, areas and addresses are left out; a  *)
(* router keeps its name.                                                  *)
(*                                                                         *)
(* Link i of a topology is the pair of directed edges 2i-1 and 2i, each    *)
(* the inv_edge of the other one.                                          *)
(***************************************************************************)
EXTENDS Naturals, Sequences, FiniteSets

\* create_new_edge and insert_edge_between_2_nodes(BIDIRECTIONAL)
LinkAt(a, b, m, levels) == [from |-> a, to |-> b, metric |-> m, level |-> levels]
Link(a, b, m) == LinkAt(a, b, m, {1})

\* One link between each router of a sequence and the next one.
Chain(routers, m) ==
  [i \in 1..(Len(routers) - 1) |-> Link(routers[i], routers[i + 1], m)]

\* n parallel links.
Bundle(a, b, m, n) == [i \in 1..n |-> Link(a, b, m)]

\* A topology; pseudo are the nodes mark_node_pseudonode() is called for.
Network(root, pseudo, links) ==
  [root |-> root, pseudo |-> pseudo, links |-> links,
   nodes |-> UNION {{links[i].from, links[i].to} : i \in DOMAIN links}]

EdgesOf(t) == 1..(2 * Len(t.links))
LinkOf(t, e) == t.links[(e + 1) \div 2]
Forward(e) == e % 2 = 1
InvEdge(e) == IF Forward(e) THEN e + 1 ELSE e - 1

SrcOf(t) == [e \in EdgesOf(t) |-> IF Forward(e) THEN LinkOf(t, e).from ELSE LinkOf(t, e).to]
DstOf(t) == [e \in EdgesOf(t) |-> IF Forward(e) THEN LinkOf(t, e).to ELSE LinkOf(t, e).from]

\* The edges out of a pseudonode cost 0 (mark_node_pseudonode).
MetricOf(t) == [e \in EdgesOf(t) |->
  IF SrcOf(t)[e] \in t.pseudo THEN 0 ELSE LinkOf(t, e).metric]

\* The edges of t that belong to a level.
LevelEdges(t, level) == {e \in EdgesOf(t) : level \in LinkOf(t, e).level}

-----------------------------------------------------------------------------
EcmpTopo2 == Network("S", {"PN"},
  <<Link("S", "B", 6), Link("S", "E", 5), Link("S", "PN", 7), Link("PN", "D", 0),
    Link("E", "D", 2), Link("B", "D", 1)>>)

MultiLinkTopo == Network("R0", {}, Bundle("R0", "R1", 10, 2) \o <<Link("R1", "R2", 10)>>)

LinearTopo == Network("R0", {},
  <<LinkAt("R0", "R1", 10, {2}), LinkAt("R1", "R2", 10, {2}),
    Link("R2", "R3", 10), Link("R3", "R4", 10)>>)

MultiAreaTopo == Network("R0", {},
  <<Link("R0", "R1", 10), Link("R0", "R2", 10), Link("R1", "R2", 10),
    LinkAt("R0", "R3", 10, {2}), LinkAt("R3", "R4", 10, {1, 2}),
    LinkAt("R4", "R5", 10, {2}), Link("R5", "R6", 10), LinkAt("R2", "R5", 10, {2})>>)

LfaTopo == Network("R0", {},
  <<Link("R0", "R1", 8), Link("R1", "R2", 5), Link("R2", "R0", 5)>>)

RlfaTopo == Network("A", {},
  Chain(<<"A", "C", "D", "E", "G", "F", "A", "B", "E">>, 10))

RingTopo == Network("S", {}, Chain(<<"S", "E", "D", "C", "B", "A", "S">>, 10))

RingTopo7Nodes == Network("R0", {},
  Chain(<<"R0", "R1", "R2", "R3", "R4", "R5", "R6", "R0">>, 10))

CiscoExampleTopo == Network("R1", {"R5"},
  Chain(<<"R1", "R2", "R3", "R4", "R5", "R1">>, 10) \o <<Link("R5", "R6", 10)>>)

BroadcastLinkProtectingLfa == Network("N", {"PN"},
  <<Link("S", "PN", 5), Link("PN", "E", 5), Link("E", "D", 5), Link("D", "N", 8),
    Link("N", "S", 15), Link("PN", "N", 5)>>)

LspAsBackupTopo == Network("R0", {},
  <<Link("R0", "R4", 5), Link("R0", "R1", 2), Link("R4", "R3", 5),
    Link("R3", "R2", 8), Link("R2", "R1", 5)>>)

PseudonodeEcmpTopo == Network("A", {"PN"},
  <<Link("PN", "C", 10), Link("A", "D", 5), Link("A", "PN", 10), Link("D", "C", 5)>>)

OverloadRouterTopo == Network("R1", {},
  <<Link("R1", "R2", 50), Link("R2", "R3", 100)>>
  \o Chain(<<"R3", "R4", "R5", "R1">>, 10) \o <<Link("R5", "R6", 10)>>)

LspEcmpTopo == Network("A", {},
  <<Link("A", "E", 2), Link("E", "B", 1), Link("B", "C", 2), Link("C", "D", 1),
    Link("D", "E", 3)>>)

MultiPrimaryNxtHops == Network("R0", {},
  Bundle("R0", "R1", 10, 2)
  \o <<Link("R1", "R2", 10), Link("R1", "R3", 10), Link("R2", "R3", 10)>>)

OneHopBackup == Network("R0", {},
  Chain(<<"R0", "R1", "R2", "R3", "R4">>, 10) \o <<Link("R4", "R0", 50)>>)

TilfaParallelLinks == Network("R0", {}, <<Link("R0", "R1", 10)>> \o Bundle("R0", "R1", 15, 4))

TilfaOneHopTest == Network("R0", {},
  TilfaParallelLinks.links \o <<Link("R0", "R2", 7), Link("R2", "R1", 8)>>)

TilfaPQDistance1 == Network("R0", {},
  <<Link("R0", "R1", 10), Link("R1", "R2", 10), Link("R1", "R3", 10)>>
  \o Bundle("R4", "R3", 10, 3) \o Bundle("R0", "R4", 10, 3))

TilfaPage408NodeProtection == Network("R1", {},
  <<Link("R11", "R1", 10), Link("R1", "R2", 10), Link("R1", "R5", 10),
    Link("R5", "R4", 10), Link("R4", "R3", 40), Link("R3", "R2", 10),
    Link("R2", "R6", 10), Link("R3", "R7", 10), Link("R7", "R8", 10),
    Link("R8", "R9", 10), Link("R9", "R10", 10), Link("R6", "R10", 10),
    Link("R2", "R9", 10)>>)

Tilfa2AdjSegmentExample == Network("R2", {},
  Chain(<<"S", "R2", "R3", "R4", "R5", "D">>, 1)
  \o <<Link("R2", "R7", 1000), Link("R3", "R7", 1), Link("R3", "R8", 1),
       Link("R7", "R8", 1000), Link("R7", "R9", 1000), Link("R9", "R10", 1),
       Link("R8", "R10", 1), Link("R4", "R8", 1000)>>)

TilfaEcmpTopology == Network("R1", {},
  <<Link("R1", "R2", 10), Link("R2", "R3", 10), Link("R1", "R4", 10),
    Link("R1", "R8", 10), Link("R4", "R5", 10), Link("R4", "R6", 10),
    Link("R5", "R7", 10), Link("R6", "R7", 10), Link("R7", "R3", 10),
    Link("R8", "R9", 10), Link("R9", "R7", 10)>>)
=============================================================================
