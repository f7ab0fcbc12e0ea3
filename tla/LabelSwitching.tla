---------------------------- MODULE LabelSwitching ----------------------------
(***************************************************************************)
(* LDP and RSVP tunnels (mpls/ldp.c, mpls/rsvp.c) and the forwarding of    *)
(* data_plane.c that ping follows.                                         *)
(*                                                                         *)
(* A tunnel is built when it is configured, router by router, from what    *)
(* each router's inet.0 holds then; nothing is removed later.  The label a *)
(* router binds to an egress is a hash of both, taken as free of           *)
(* collisions, so an entry of mpls.0 is found by its egress and an entry   *)
(* that swaps is the router it goes to.  One level, no pseudonodes, no     *)
(* backups; the strict next hop of a tunnel is never given by a caller.    *)
(***************************************************************************)
EXTENDS Naturals, FiniteSets, FiniteSetsExt, TLC

CONSTANTS Node, Metric,    \* the routers, and the metric of each link {a, b}
          Inf,             \* INFINITE_METRIC
          Egress,          \* the routers tunnels are built to
          Flaky,           \* the directed links whose status changes
          Name,            \* names of RSVP LSPs
          Toggled,         \* the routers whose protocols are turned on and off
          None, Local, Pop,
          MaxCommands      \* bound: commands after the first runs

Proto == {"LDP", "RSVP"}

\* The directed links.
Directed == UNION {{q \in l \X l : q[1] # q[2]} : l \in DOMAIN Metric}

ASSUME LabelConstants ==
  /\ IsFiniteSet(Node) /\ Egress \subseteq Node /\ Toggled \subseteq Node
  /\ Metric \in [DOMAIN Metric -> Nat \ {0}]
  /\ \A l \in DOMAIN Metric : \E a, b \in Node : a # b /\ l = {a, b}
  /\ Flaky \subseteq Directed
  /\ Inf \in Nat \ {0} /\ MaxCommands \in Nat
  /\ None # Local /\ None # Pop /\ Local # Pop /\ {None, Local, Pop} \cap Node = {}

VARIABLES up,       \* the directed links that are up
          inet0,    \* per router and egress: None, Local (no next hop) or the next hop
          enabled,  \* per protocol the routers that run it
          inet3,    \* per protocol, router and egress: None or where the tunnel goes
          mpls0,    \* per protocol, router and egress: None, Pop or where the label goes
          lspdb,    \* per router the RSVP LSPs: name, egress and next hop, each None
                    \* when the creation failed before it was known
          built,    \* tunnels whose creation was not reported as failed
          aborted,  \* protocol and egress of tunnels abandoned on the way
          hung,     \* a creation never ends
          commands

tables == <<inet3, mpls0, lspdb, built, aborted, hung>>
vars == <<up, inet0, enabled, tables, commands>>

-----------------------------------------------------------------------------
(* Shortest paths and inet.0.                                              *)

Adjacent(a, b) == {<<a, b>>, <<b, a>>} \subseteq up

\* The routers a router finds others from (the search for the egress).
Reach(n) ==
  LET grow[k \in 0..Cardinality(Node)] ==
        IF k = 0 THEN {n}
        ELSE LET known == grow[k - 1]
             IN known \cup {m \in Node : \E x \in known : Adjacent(x, m)}
  IN grow[Cardinality(Node)]

\* The distances of all routers to e over one link of u more than those of d.
Shortened(d, e, u) ==
  LET near(n) == {m \in Node : {<<n, m>>, <<m, n>>} \subseteq u}
  IN [[n \in Node |-> Min({d[n]} \cup {Metric[{n, m}] + d[m] : m \in near(n)})]
      EXCEPT ![e] = 0]

\* The distances to e over at most k links of u, at most Inf.
DistancesWithin(u, e) ==
  LET within[k \in 0..Cardinality(Node)] ==
        IF k = 0 THEN [n \in Node |-> IF n = e THEN 0 ELSE Inf]
        ELSE Shortened(within[k - 1], e, u)
  IN within

DistanceOver(u, e) == DistancesWithin(u, e)[Cardinality(Node)]

Distances == [u \in {Directed \ down : down \in SUBSET Flaky} |-> [e \in Node |-> DistanceOver(u, e)]]
Distance(e) == Distances[up][e]

\* What a run of n leaves in inet.0 for e: an entry is never freed, only emptied.
RouteTo(n, e, old) ==
  LET d == Distance(e)
  IN IF n = e THEN Local
     ELSE IF d[n] < Inf
          THEN CHOOSE m \in Node : Adjacent(n, m) /\ d[n] = Metric[{n, m}] + d[m]
     ELSE IF old = None THEN None ELSE Local

Init ==
  /\ up = Directed
  /\ inet0 = [n \in Node |-> [e \in Egress |-> RouteTo(n, e, None)]]
  /\ enabled \in [Proto -> {Node, Node \ Toggled}]
  /\ inet3 = [p \in Proto |-> [n \in Node |-> [e \in Egress |-> None]]]
  /\ mpls0 = inet3
  /\ lspdb = [n \in Node |-> {}]
  /\ built = {} /\ aborted = {} /\ hung = FALSE /\ commands \in 0..MaxCommands

Command == commands < MaxCommands /\ ~hung /\ commands' = commands + 1

\* spf_node_slot_enable_disable: no run follows.
SetStatus(l) ==
  /\ Command
  /\ up' = IF l \in up THEN up \ {l} ELSE up \cup {l}
  /\ UNCHANGED <<inet0, enabled, tables>>

\* Mutant of Kept: the flush takes the next hops of the tunnels too.
KeptNone(table, S) ==
  [p \in Proto |-> [n \in Node |-> IF n \in S THEN [e \in Egress |-> None] ELSE table[p][n]]]

\* flush_rib leaves the next hops of LDP and RSVP in inet.3 and mpls.0.
Kept(table, S) == table

\* A run of the routers of S and the installation of their routes.
Run(S) ==
  /\ Command
  /\ inet0' = [n \in Node |-> IF n \in S THEN [e \in Egress |-> RouteTo(n, e, inet0[n][e])]
                             ELSE inet0[n]]
  /\ inet3' = Kept(inet3, S) /\ mpls0' = Kept(mpls0, S)
  /\ UNCHANGED <<up, enabled, lspdb, built, aborted, hung>>

\* enable_ldp, disable_ldp, enable_rsvp, disable_rsvp
Toggle(p, n) ==
  /\ Command
  /\ enabled' = [enabled EXCEPT ![p] = IF n \in @ THEN @ \ {n} ELSE @ \cup {n}]
  /\ UNCHANGED <<up, inet0, tables>>

-----------------------------------------------------------------------------
(* Tunnels.                                                                *)

\* The next hop of the route if it gives a label for e: it has one once it runs the
\* protocol (get_ldp_label_binding, get_rsvp_label_binding).
NextLsr(p, n, e) == IF inet0[n][e] \in enabled[p] THEN inet0[n][e] ELSE None

\* Where a new tunnel of n to e goes: along a tunnel there is, or the route if its
\* next hop runs the protocol; None if the creation fails at the ingress.
FirstHop(p, n, e) ==
  IF inet3[p][n][e] # None THEN inet3[p][n][e]
  ELSE NextLsr(p, n, e)

\* Mutant of Transit: a label that is there already is taken as a complete path.
TransitTrusts(p, e, s) ==
  LET hop == NextLsr(p, s.at, e)
  IN IF s.at = e \/ s.end THEN s
     ELSE IF s.labels[s.at] # None THEN [s EXCEPT !.at = e]
     ELSE IF hop # None THEN [s EXCEPT !.labels[s.at] = hop, !.at = hop]
     ELSE [s EXCEPT !.end = TRUE]

\* Mutant of Transit: the walk stays where a label is there already.
TransitStays(p, e, s) ==
  LET hop == NextLsr(p, s.at, e)
  IN IF s.at = e \/ s.end \/ s.labels[s.at] # None THEN s
     ELSE IF hop # None THEN [s EXCEPT !.labels[s.at] = hop, !.at = hop]
     ELSE [s EXCEPT !.end = TRUE]

\* One router of the way behind the ingress: a label that is there already is
\* followed, else one is installed towards the next hop of the route.
Transit(p, e, s) ==
  LET hop == NextLsr(p, s.at, e)
  IN IF s.at = e \/ s.end THEN s
     ELSE IF s.labels[s.at] # None THEN [s EXCEPT !.at = s.labels[s.at]]
     ELSE IF hop # None THEN [s EXCEPT !.labels[s.at] = hop, !.at = hop]
     ELSE [s EXCEPT !.end = TRUE]

\* All of the way to the egress: at most twice the number of routers, unless it goes
\* in a circle.
Way(p, e, first) ==
  LET walk[k \in 0..(2 * Cardinality(Node))] ==
        IF k = 0 THEN [at |-> first, labels |-> [n \in Node |-> mpls0[p][n][e]], end |-> FALSE]
        ELSE LET s == walk[k - 1] IN Transit(p, e, s)
  IN walk[2 * Cardinality(Node)]

\* The label of the egress; it pops.
Ended(way, e) == IF way.labels[e] = None THEN [way.labels EXCEPT ![e] = Pop] ELSE way.labels

\* What is reported as a success: RSVP reports a failure when the egress has its label
\* already.
Told(p, way, e) == way.at = e /\ (p = "LDP" \/ way.labels[e] = None)

\* inet_3_rt_un_route_install_nexthop and mpls_0_rt_un_route_install_nexthop.  What is
\* there already stays.
InstallTunnel(p, n, e, first) == inet3' = [inet3 EXCEPT ![p][n][e] = first]
InstallLabels(p, e, labels) ==
  mpls0' = [mpls0 EXCEPT ![p] = [m \in Node |-> [@[m] EXCEPT ![e] = labels[m]]]]

\* The router with the router id of the command, if it is found.
Found(n, e) == e \in Reach(n) \ {n}

\* create_targeted_ldp_tunnel and create_targeted_rsvp_tunnel, without a strict next
\* hop.  The ingress installs its next hop first; a way that is abandoned leaves it
\* and the labels of the routers passed.
Create(p, n, e) ==
  LET first == IF Found(n, e) THEN FirstHop(p, n, e) ELSE None
      way == Way(p, e, first)
  IN /\ Command
     /\ IF first = None THEN UNCHANGED <<inet3, mpls0, built, aborted, hung>>
        ELSE /\ InstallTunnel(p, n, e, first)
             /\ InstallLabels(p, e, IF way.at = e THEN Ended(way, e) ELSE way.labels)
             /\ built' = IF Told(p, way, e) THEN built \cup {<<p, n, e>>} ELSE built
             /\ aborted' = IF way.end THEN aborted \cup {<<p, e>>} ELSE aborted
             /\ hung' = (~way.end /\ way.at # e)
     /\ UNCHANGED <<up, inet0, enabled>>

\* The command for an LDP tunnel
LdpTunnel(n, e) == Create("LDP", n, e) /\ UNCHANGED lspdb

\* The command for an RSVP LSP of a new name; it is stored whatever was reported.
RsvpTunnel(n, e, name) ==
  LET lsp == [name |-> name, egress |-> IF Found(n, e) THEN e ELSE None,
              hop |-> IF Found(n, e) THEN FirstHop("RSVP", n, e) ELSE None]
  IN /\ \A old \in lspdb[n] : old.name # name
     /\ Create("RSVP", n, e)
     /\ lspdb' = IF hung' THEN lspdb ELSE [lspdb EXCEPT ![n] = @ \cup {lsp}]

-----------------------------------------------------------------------------
(* Forwarding.                                                             *)

\* transient_mpls_pfe_engine: where a label for e leads from n, None if the packet is
\* stuck on the way with its label.
LabelEnd(p, n, e, usable) ==
  LET next(m) == mpls0[p][m][e]
      at[k \in 0..Cardinality(Node)] ==
        IF k = 0 THEN n
        ELSE LET m == at[k - 1]
             IN IF m = None \/ next(m) = Pop THEN m
                ELSE IF next(m) # None /\ <<m, next(m)>> \in usable THEN next(m) ELSE None
      last == at[Cardinality(Node)]
  IN IF last # None /\ next(last) = Pop THEN last ELSE None

\* One decision of ping (ldp_pfe_engine and rsvp_pfe_engine in that order, then
\* ipv4_pfe_engine, which goes on by itself until a router has no route).
PingStep(e, s) ==
  LET tunnels == {p \in Proto : inet3[p][s.at][e] # None /\ <<s.at, inet3[p][s.at][e]>> \in up}
      p == IF "LDP" \in tunnels THEN "LDP" ELSE "RSVP"
      out == LabelEnd(p, inet3[p][s.at][e], e, up)
      route == inet0[s.at][e]
  IN IF s.how # "going" THEN s
     ELSE IF ~s.ip /\ tunnels # {}
          THEN IF out = None THEN [s EXCEPT !.how = "lost"] ELSE [s EXCEPT !.at = out]
     ELSE IF route = Local THEN [s EXCEPT !.how = "complete"]
     ELSE IF route = None THEN IF s.ip THEN [s EXCEPT !.ip = FALSE] ELSE [s EXCEPT !.how = "lost"]
     ELSE IF <<s.at, route>> \in up THEN [s EXCEPT !.at = route, !.ip = TRUE]
     ELSE [s EXCEPT !.how = "lost"]

-----------------------------------------------------------------------------
(* Properties.                                                             *)

\* Every variable keeps its type, a label is popped at its egress only, and a stored
\* LSP leaves its router where inet.3 does.
TypeOK ==
  /\ up \in DOMAIN Distances
  /\ inet0 \in [Node -> [Egress -> Node \cup {None, Local}]]
  /\ enabled \in [Proto -> SUBSET Node]
  /\ inet3 \in [Proto -> [Node -> [Egress -> Node \cup {None}]]]
  /\ mpls0 \in [Proto -> [Node -> [Egress -> Node \cup {None, Pop}]]]
  /\ \A p \in Proto, n \in Node, e \in Egress : mpls0[p][n][e] = Pop => n = e
  /\ \A n \in Node : \A lsp \in lspdb[n] :
       /\ lsp \in [name : Name, egress : Egress \cup {None}, hop : Node \cup {None}]
       /\ lsp.hop # None => lsp.hop = inet3["RSVP"][n][lsp.egress]
  /\ hung \in BOOLEAN /\ commands \in 0..MaxCommands

\* A tunnel whose creation was not reported as failed leads to its egress for ever:
\* over labels other tunnels installed in other networks, whatever runs, links and
\* protocols do later.
BuiltTunnelsDeliver ==
  \A t \in built : /\ inet3[t[1]][t[2]][t[3]] # None
                   /\ LabelEnd(t[1], inet3[t[1]][t[2]][t[3]], t[3], Directed) = t[3]
=============================================================================
