------------------------------- MODULE MCTiLfa -------------------------------
(***************************************************************************)
(* The networks TiLfa is checked on: the topologies of topo.c without a    *)
(* pseudonode, rings of five routers with a chord, a wheel and a long      *)
(* ring, whose detours are longer than a label stack.                      *)
(***************************************************************************)
EXTENDS TiLfa

Builders ==
  {MultiLinkTopo, LfaTopo, RlfaTopo, RingTopo, RingTopo7Nodes, LspAsBackupTopo,
   OverloadRouterTopo, LspEcmpTopo, MultiPrimaryNxtHops, OneHopBackup,
   TilfaParallelLinks, TilfaOneHopTest, TilfaPQDistance1, TilfaPage408NodeProtection,
   Tilfa2AdjSegmentExample, TilfaEcmpTopology}

\* A topology, and the routers of a level of it.
RoutersOf(t, level) == LevelOf(t, level, {}, {}, 0).net.nodes

\* Two protected links at the router the topology was built for, one at any other,
\* and the topologies with two levels.
Built ==
  {LevelOf(t, 1, {t.root}, {}, 3) : t \in Builders}
  \cup UNION {{LevelOf(t, 1, {n}, {}, 2) : n \in RoutersOf(t, 1)} : t \in Builders}
  \cup UNION {UNION {{LevelOf(t, l, {n}, {}, 2) : n \in RoutersOf(t, l)} :
                    t \in {LinearTopo, MultiAreaTopo}} : l \in {1, 2}}

Ring(m) == Network("A", {}, [i \in 1..6 |->
  Link(<<"A", "B", "C", "D", "E", "B">>[i], <<"B", "C", "D", "E", "A", "E">>[i], m[i])])

\* One protected link on rings with all metrics 1, 3 and 9, two with 1 and 3, and
\* runs between which the chord and its router E change.
Rings ==
  {LevelOf(Ring(m), 1, {"A"}, {}, 2) : m \in [1..6 -> {1, 3, 9}]}
  \cup {LevelOf(Ring(m), 1, {"A"}, {}, 3) : m \in [1..6 -> {1, 3}]}
  \cup {LevelOf(Ring(m), 1, {"A"}, {12}, 4) : m \in {<<1, 1, 1, 1, 3, 1>>, <<3, 3, 1, 1, 1, 3>>}}

\* A hub N one hop from R and the routers of its rim, and a rim of ten routers that
\* begins at R with links of metric 10: without N each of them takes a label.
Rim == <<"R", "V1", "V2", "V3", "V4", "V5", "V6", "V7", "V8", "V9", "V10">>
Wheel == Network("R", {},
  [i \in 1..11 |-> Link("N", Rim[i], 1)] \o [i \in 1..10 |-> Link(Rim[i], Rim[i + 1], 10)])

\* Twenty routers of equal metrics in a ring: a detour has up to eighteen links.
LongRing == Network(1, {}, [i \in 1..20 |-> Link(i, (i % 20) + 1, 1)])

Long == {LevelOf(Wheel, 1, {"R"}, {}, 2), LevelOf(LongRing, 1, {1}, {}, 2)}

Checked == Built \cup Rings \cup Long
\* The link R0-R1 is the first hop of all short ways, also of the one to R4.
OneWay == {LevelOf(OneHopBackup, 1, {"R0"}, {}, 2)}
==============================================================================
