---------------------------- MODULE MCRouteTable ----------------------------
(***************************************************************************)
(* A router, two others that advertise the same prefix, and the results    *)
(* that runs may find as the others come and go.                           *)
(***************************************************************************)
EXTENDS RouteTable, TLC

CONSTANTS root, ha, hb, ka, kb, zero, x, y, z

P(host, level, key, metric, flags) ==
  [host |-> host, level |-> level, key |-> key, metric |-> metric, flags |-> flags]
R(node, metric, hops) == [node |-> node, metric |-> metric, hops |-> hops]

Keys == {ka, kb, zero}
Own == P(root, 1, kb, 0, {})

\* ka at both levels: internal, leaked down, and external with external metric.
Mixed == {Own, P(ha, 1, ka, 1, {}), P(hb, 1, ka, 0, {"ext"}), P(hb, 1, kb, 1, {"down"}),
          P(ha, 2, ka, 0, {}), P(hb, 2, ka, 1, {"ext"}), P(ha, 2, kb, 1, {"ext", "extmetric"}),
          P(hb, 1, ka, 20, {})}
MixedInit == Mixed \ {P(hb, 1, ka, 20, {})}

Reach == {<<R(root, 0, {})>>,
          <<R(hb, 2, {y}), R(ha, 1, {x}), R(root, 0, {})>>,
          <<R(hb, 1, {x, y}), R(root, 0, {})>>}
\* With three next hops to two routers at equal cost the array of two overflows.
Wide == <<R(hb, 2, {y, z}), R(ha, 1, {x}), R(root, 0, {})>>
Reaches == <<Reach \cup {Wide}, Reach>>

\* One prefix that comes and goes, for the counterexamples.
Link == P(ha, 1, ka, 1, {})
LinkOnly == {Own, Link}
OwnOnly == {Own}
Both == <<R(ha, 1, {x}), R(root, 0, {})>>
Near == <<{Both}, {Both}>>
=============================================================================
