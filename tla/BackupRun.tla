----------------------------- MODULE BackupRun -----------------------------
(***************************************************************************)
(* Backup next hops of one IS-IS level: spf_computation() and              *)
(* partial_spf_run() with compute_backup_routine() of spfcomputation.c,    *)
(* loop-free alternates (LFA) and remote LFA (PQ nodes) of rlfa.c, on      *)
(* point-to-point links and LSPs.                                          *)
(*                                                                         *)
(* A backup computation runs Dijkstra for the router itself, for each of   *)
(* its neighbours and, for remote LFA, on the inverse topology and for     *)
(* each PQ node.  All runs write the result list of the router they are    *)
(* rooted at, and DIST_X_Y reads the list of X, whichever run of X wrote   *)
(* it last.  A run is one step here: its distances and next hops are the   *)
(* shortest ones, which SpfRun models step by step.                        *)
(*                                                                         *)
(* The topology has no pseudonode: with a protected LAN a run would be     *)
(* rooted at one, and SpfRun shows that such a run faults.                 *)
(***************************************************************************)
EXTENDS Naturals, Sequences, SequencesExt, FiniteSets

CONSTANTS
  Node,        \* node_t of the instance
  Edge,        \* directed edges of the level, numbered as the slots list them
  Src, Dst,    \* edge->from.node and edge->to.node
  Lsp,         \* edges with etype = LSP
  Phys,        \* physical_oif of the tunnel behind an LSP edge
  Twin,        \* edge->inv_edge, for the edges that have one
  Inf,         \* INFINITE_METRIC
  Wrap,        \* 2^32: sums of distances are unsigned int
  NoNode,      \* NULL
  Networks,    \* initial configurations
  ConfEdges,   \* edges the operator may reconfigure
  LinkMetrics, \* metrics the operator may configure
  MaxCmds      \* bound on the operator's commands in a behaviour

Flags == {"link", "node", "excluded"}
Options == {"enabled", "remote"}

ASSUME BackupConstants ==
  /\ Node # {} /\ IsFiniteSet(Node) /\ NoNode \notin Node
  /\ Edge \subseteq Nat /\ IsFiniteSet(Edge)
  /\ Src \in [Edge -> Node] /\ Dst \in [Edge -> Node]
  /\ Lsp \subseteq Edge /\ Phys \in [Lsp -> Edge \ Lsp]
  /\ Inf \in Nat /\ Wrap \in Nat /\ Inf < Wrap
  /\ ConfEdges \subseteq Edge /\ LinkMetrics \subseteq Nat /\ MaxCmds \in Nat

\* The two directions of a link.
ASSUME TwinEdges ==
  /\ DOMAIN Twin \subseteq Edge
  /\ \A e \in DOMAIN Twin : /\ Twin[e] \in DOMAIN Twin /\ Twin[Twin[e]] = e
                           /\ Src[Twin[e]] = Dst[e] /\ Dst[Twin[e]] = Src[e]

ASSUME InitialNetworks ==
  \A c \in Networks : /\ c.metric \in [Edge -> Nat] /\ c.status \in [Edge -> BOOLEAN]
                     /\ c.overload \subseteq Node
                     /\ c.protect \in [Edge -> SUBSET Flags]
                     /\ c.options \in [Node -> SUBSET Options]
                     /\ c.cmds \in 0..MaxCmds

VARIABLES
  metric,   \* edge->metric[level]
  status,   \* edge->status
  overload, \* nodes with OVERLOAD_BIT set
  protect,  \* edge_config_flags of edge->from: "link", "node", "excluded"
  options,  \* node->backup_spf_options: "enabled", "remote"
  pc,       \* where the backup computation is
  root,     \* spf_root
  partial,  \* a partial run is in progress
  ran,      \* routers with spf_level_info[level].version # 0
  results,  \* node->spf_run_result[level]: dist[n] = Inf when n has no record
  noNeed,   \* destinations with backup_requirement = NO_BACKUP_REQUIRED
  slots,    \* edges of the root the loop of compute_backup_routine has left,
            \* taken in the order of their numbers
  pq,       \* root->pq_nodes[level]
  backup,   \* node->backup_next_hop[level], both types
  cmds      \* commands the operator may still give

confVars == <<metric, status, overload, protect, options>>
vars == <<confVars, pc, root, partial, ran, results, noNeed, slots, pq, backup, cmds>>

MinNat(S) == CHOOSE x \in S : \A y \in S : x <= y
MaxNat(S) == CHOOSE x \in S : \A y \in S : x >= y

\* The function f; TLC computes its values once, not at each application.
Table(f) == CHOOSE g \in {f} : g = f

\* Sum of two unsigned int.
Plus(x, y) == (x + y) % Wrap

-----------------------------------------------------------------------------
(* A run: distances and next hops with the metrics m.                      *)

UpEdges(n) == {e \in Edge : Src[e] = n /\ status[e]}

\* Edges between neighbours that see each other (is_two_way_nbrship).
Usable == {e \in Edge : /\ status[e]
                        /\ \E f \in UpEdges(Dst[e]) : Dst[f] = Src[e]}

\* The links out of an overloaded router cost Inf.
Cost(m, e) == IF Src[e] \in overload THEN Inf ELSE m[e]

\* The paths one edge longer than those of the distances d.
Longer(m, d, usable) ==
  [n \in Node |-> MinNat({d[n]} \cup
     {d[Src[e]] + Cost(m, e) : e \in {f \in usable : Dst[f] = n}})]

\* Distances from s.
Distances(m, s) ==
  LET usable == Usable
      within[k \in Nat] == IF k = 0 THEN [n \in Node |-> IF n = s THEN 0 ELSE Inf]
                           ELSE Longer(m, Table(within[k - 1]), usable)
  IN Table(within[Cardinality(Node)])

\* A primary next hop: an LSP leaves through the interface of its tunnel.
Hop(e) == [oif |-> IF e \in Lsp THEN Phys[e] ELSE e, node |-> Dst[e],
           lsp |-> e \in Lsp]

\* The records a run rooted at s writes.
Run(m, s) ==
  LET d == Distances(m, s)
      first == {e \in Usable : Src[e] = s}
      rest == Table([e \in first |-> Distances(m, Dst[e])])
  IN [dist |-> d,
      hops |-> [n \in Node |->
                  {Hop(e) : e \in {f \in first : d[n] < Inf /\ m[f] + rest[f][n] = d[n]}}]]

NoRecords == [dist |-> [n \in Node |-> Inf], hops |-> [n \in Node |-> {}]]

\* Compute_and_Store_Forward_SPF of each router in S: an overloaded router keeps
\* the records it has.
Refresh(res, S, m) ==
  [n \in Node |-> IF n \in S \ overload THEN Run(m, n) ELSE res[n]]

\* inverse_topology: the metrics of an edge and its inv_edge are swapped once in
\* the first loop, and twice more while the second one repairs inv_edge.
InverseTopology(m) == [e \in Edge |-> IF e \in DOMAIN Twin THEN m[Twin[e]] ELSE m[e]]

Listed(res, s) == {n \in Node : res[s].dist[n] < Inf}
Neighbours(s) == {Dst[e] : e \in UpEdges(s)}

-----------------------------------------------------------------------------
(* The operator.                                                           *)

Init ==
  /\ \E c \in Networks : /\ metric = c.metric /\ status = c.status
                         /\ overload = c.overload /\ protect = c.protect
                         /\ options = c.options /\ cmds = c.cmds
  /\ pc = "idle" /\ root = (CHOOSE n \in Node : TRUE) /\ partial = FALSE /\ ran = {}
  /\ results = [n \in Node |-> NoRecords]
  /\ noNeed = {} /\ slots = {} /\ pq = {}
  /\ backup = [n \in Node |-> {}]

Command ==
  /\ pc = "idle" /\ cmds > 0
  /\ cmds' = cmds - 1

Configure ==
  /\ Command
  /\ UNCHANGED <<pc, root, partial, ran, results, noNeed, slots, pq, backup>>

SetMetric(e, x) ==
  /\ Configure
  /\ metric[e] # x
  /\ metric' = [metric EXCEPT ![e] = x]
  /\ UNCHANGED <<status, overload, protect, options>>

SetStatus(e) ==
  /\ Configure
  /\ status' = [status EXCEPT ![e] = ~status[e]]
  /\ UNCHANGED <<metric, overload, protect, options>>

SetOverload(n) ==
  /\ Configure
  /\ overload' = (overload \ {n}) \cup ({n} \ overload)
  /\ UNCHANGED <<metric, status, protect, options>>

\* config node <n> interface <i> link-protection | node-link-protection |
\* no-eligible-backup: enabling node protection enables link protection too.
Enable(e, flag) ==
  /\ Configure
  /\ protect' = [protect EXCEPT ![e] =
       @ \cup {flag} \cup (IF flag = "node" THEN {"link"} ELSE {})]
  /\ UNCHANGED <<metric, status, overload, options>>

Disable(e, flag) ==
  /\ Configure
  /\ flag \in protect[e]
  /\ protect' = [protect EXCEPT ![e] = @ \ {flag}]
  /\ UNCHANGED <<metric, status, overload, options>>

\* config node <n> [no] backup-spf-options [remote-backup-calculation]
SetOptions(n) ==
  /\ Configure
  /\ \/ options' = [options EXCEPT ![n] = @ \cup {"enabled"}]
     \/ options' = [options EXCEPT ![n] = {}]
     \/ options' = [options EXCEPT ![n] = @ \cup {"remote"}]
     \/ options' = [options EXCEPT ![n] = @ \ {"remote"}]
  /\ UNCHANGED <<metric, status, overload, protect>>

-----------------------------------------------------------------------------
(* The runs.                                                               *)

\* Mutant of Flush: the backups an earlier run recorded stay.
FlushNothing(res, s) == backup

\* init_back_up_computation: the routers in the result list lose their backups.
Flush(res, s) == [n \in Node |-> IF n \in Listed(res, s) THEN {} ELSE backup[n]]

\* spf_computation of type FULL_RUN; an overloaded router is refused.
FullRun(r) ==
  /\ Command
  /\ r \notin overload
  /\ root' = r /\ partial' = FALSE
  /\ ran' = ran \cup {r}
  /\ results' = Refresh(results, {r}, metric)
  /\ noNeed' = {} /\ slots' = {} /\ pq' = {}
  /\ backup' = Flush(results', r)
  /\ pc' = IF "enabled" \in options[r] THEN "runs" ELSE "built"
  /\ UNCHANGED confVars

\* partial_spf_run after a full one: the routes are rebuilt from the result list
\* that is there.  (Before the first full run it is FullRun.)
PartialRun(r) ==
  /\ Command
  /\ r \in ran
  /\ root' = r /\ partial' = TRUE
  /\ noNeed' = {} /\ slots' = {}
  /\ pc' = IF "enabled" \in options[r] THEN "runs" ELSE "built"
  /\ UNCHANGED <<confVars, ran, results, pq, backup>>

\* Runs of the router and of its physical neighbours.
BackupRuns ==
  /\ pc = "runs"
  /\ backup' = Flush(results, root)
  /\ pq' = {}
  /\ results' = Refresh(results, {root} \cup Neighbours(root), metric)
  /\ pc' = "weed"
  /\ UNCHANGED <<confVars, root, partial, ran, noNeed, slots, cmds>>

\* Mutant of Independent: every next hop counts.
IndependentAny(n, h) == TRUE

\* Next hop h of n avoids the other next hops of its type on its way to n.
Independent(n, h) ==
  \A g \in results[root].hops[n] \ {h} : g.lsp = h.lsp =>
    results[h.node].dist[n] < Plus(results[h.node].dist[g.node], results[g.node].dist[n])

\* is_independant_primary_next_hop_list_for_nodes: the count stops at two IP next
\* hops, the LSPs are counted on top of them, and only two is enough.
HasIndependentHops(n) ==
  LET good(l) == Cardinality({h \in results[root].hops[n] : h.lsp = l /\ Independent(n, h)})
      ip == IF good(FALSE) > 2 THEN 2 ELSE good(FALSE)
  IN IF ip = 2 THEN good(TRUE) = 0 ELSE ip + good(TRUE) >= 2

Weed ==
  /\ pc = "weed"
  /\ noNeed' = {n \in Listed(results, root) : HasIndependentHops(n)}
  /\ slots' = {e \in Edge : root \in {Src[e], Dst[e]}}
  /\ pc' = "slot"
  /\ UNCHANGED <<confVars, root, partial, ran, results, pq, backup, cmds>>

-----------------------------------------------------------------------------
(* Loop-free alternates.                                                   *)

\* The protected link of a slot; also the link of a neighbour that leads to the
\* root, with the neighbour's configuration.
Protectable(e) ==
  /\ ~(Src[e] = root /\ "excluded" \in protect[e])
  /\ status[e] /\ e \notin Lsp
  /\ {"link", "node"} \cap protect[e] # {}

\* mandatory_node_protection: equal-cost next hops that depend on each other.
Mandatory(res, n) == Cardinality(res[root].hops[n]) > 1

\* is_destination_impacted
Impacted(res, none, e, n) ==
  /\ n \notin none
  /\ res[root].hops[n] # {}
  /\ IF Mandatory(res, n) THEN "node" \in protect[e]
     ELSE \A h \in res[root].hops[n] : h.oif = e

\* Inequality 1 of RFC 5286.
LoopFree(x, n) ==
  results[x].dist[n] < Plus(results[x].dist[root], results[root].dist[n])

\* Mutant of NodeProtecting: the first next hop decides.
NodeProtectingOne(x, n) ==
  \E h \in results[root].hops[n] :
    results[x].dist[n] < Plus(results[x].dist[h.node], results[h.node].dist[n])

\* Inequality 3, for all primary next hops.
NodeProtecting(x, n) ==
  \A h \in results[root].hops[n] :
    results[x].dist[n] < Plus(results[x].dist[h.node], results[h.node].dist[n])

\* A recorded backup: oif, protected_link, node and lfa_type of an LFA; proxy_nbr
\* and rlfa of a remote one, whose node is NULL.
Lfa(f, e, kind) == [oif |-> f, link |-> e, node |-> Dst[f], kind |-> kind,
                    proxy |-> NoNode, rlfa |-> NoNode]

\* Mutant of Rlfa: the neighbour is stored as the next hop.
RlfaNamed(f, e, kind, p) == [oif |-> f, link |-> e, node |-> Dst[f], kind |-> kind,
                             proxy |-> NoNode, rlfa |-> p]

Rlfa(f, e, kind, p) == [oif |-> f, link |-> e, node |-> NoNode, kind |-> kind,
                        proxy |-> Dst[f], rlfa |-> p]

\* Neighbour links that qualify as alternates for n.  Without node protection
\* all_next_hops_node_protecting is never assigned in the call: "junk" is what it
\* holds, and an alternate is of the kind it says.
LfaKind(e, f, n, junk) ==
  IF "node" \in protect[e]
  THEN IF NodeProtecting(Dst[f], n) THEN "node" ELSE "link"
  ELSE IF junk THEN "node" ELSE "link"

Alternates(e, n, junk) ==
  {f \in UpEdges(root) \ {e} :
     /\ Dst[f] \notin overload
     /\ LoopFree(Dst[f], n)
     /\ LfaKind(e, f, n, junk) = "link" =>
          "link" \in protect[e] /\ ~Mandatory(results, n)}

\* The slot the loop is at.
AtSlot(e) == slots # {} /\ e = MinNat(slots)

\* compute_lfa for a protected link.
ComputeLfa(e) ==
  /\ pc = "slot" /\ AtSlot(e)
  /\ Protectable(e)
  /\ \E junk \in BOOLEAN :
       backup' = [n \in Node |-> backup[n] \cup
         IF n \in Listed(results, root) \ {root} /\ Impacted(results, noNeed, e, n)
         THEN {Lfa(f, e, LfaKind(e, f, n, junk)) : f \in Alternates(e, n, junk)}
         ELSE {}]
  /\ IF "remote" \in options[root]
     THEN pc' = "pspace" /\ slots' = slots
     ELSE pc' = "slot" /\ slots' = slots \ {e}
  /\ UNCHANGED <<confVars, root, partial, ran, results, noNeed, pq, cmds>>

SkipSlot(e) ==
  /\ pc = "slot" /\ AtSlot(e)
  /\ ~Protectable(e)
  /\ slots' = slots \ {e}
  /\ UNCHANGED <<confVars, pc, root, partial, ran, results, noNeed, pq, backup, cmds>>

-----------------------------------------------------------------------------
(* Remote LFA: the extended P space, then the PQ nodes.                    *)

\* The result list of the root: the most distant router first, ties in any order.
ResultLists == {s \in SetToSeqs(Listed(results, root)) : \A i, j \in DOMAIN s :
                  i < j => results[root].dist[s[i]] >= results[root].dist[s[j]]}

\* The neighbour behind f may start a tunnel to p: it is reached without the
\* protected link, and closer to p than the root.
MayTunnel(e, f, p) ==
  LET d == [x \in Node |-> results[x].dist]
      nbr == Dst[f]
  IN /\ f # e
     /\ metric[f] < Inf
     /\ nbr \notin overload
     /\ d[root][nbr] < Plus(d[root][Dst[e]], d[Dst[e]][nbr])
     /\ "node" \in protect[e]
     /\ d[nbr][p] < Plus(d[nbr][root], d[root][p])
     /\ d[nbr][p] < d[root][p]

\* The neighbour's way to p avoids the node at the other end of the link.
AvoidsNode(e, f, p) ==
  results[Dst[f]].dist[p] < Plus(results[Dst[f]].dist[Dst[e]], results[Dst[e]].dist[p])

\* The neighbour's way to p avoids the link.
AvoidsLink(e, f, p) ==
  results[Dst[f]].dist[p] < Plus(results[Dst[f]].dist[root], metric[e])

PKind(e, f, p) == IF AvoidsNode(e, f, p) THEN "node" ELSE "link"
Tunnels(e, p) ==
  {f \in UpEdges(root) : /\ MayTunnel(e, f, p)
                         /\ \/ AvoidsNode(e, f, p)
                            \/ "link" \in protect[e] /\ AvoidsLink(e, f, p)}

\* The scan of the neighbours for p stops at the first that serves; acc.nbr is
\* what nbr_node was left at by the scan before, and that router is passed over.
ScanP(e, acc, p) ==
  LET up == UpEdges(root)
      found == MinNat(Tunnels(e, p))
  IN IF p \in overload \cup {root, acc.nbr, Dst[e]} THEN acc
     ELSE IF Tunnels(e, p) = {}
          THEN [acc EXCEPT !.nbr = IF up = {} THEN NoNode ELSE Dst[MaxNat(up)]]
          ELSE [nbr |-> Dst[found],
                pq |-> acc.pq \cup {Rlfa(found, e, PKind(e, found, p), p)}]

\* The scan of the routers of the list s, the most distant one first.
ScanAll(e, s) ==
  LET scan[k \in 0..Len(s)] ==
        IF k = 0 THEN [nbr |-> NoNode, pq |-> {}] ELSE ScanP(e, scan[k - 1], s[k])
  IN scan[Len(s)]

\* clear_pq_nodes and p2p_compute_link_node_protecting_extended_p_space
ExtendedPSpace(e) ==
  /\ pc = "pspace" /\ AtSlot(e)
  /\ \E s \in ResultLists : pq' = ScanAll(e, s).pq
  /\ pc' = "filter"
  /\ UNCHANGED <<confVars, root, partial, ran, results, noNeed, slots, backup, cmds>>

\* With the lists of both ends of the link from the inverse topology: p reaches
\* the other end without the link.
Eligible(res, e, p) ==
  res[Dst[e]].dist[p] < Plus(res[root].dist[p], res[Dst[e]].dist[root])

\* Node b.rlfa reaches n without the node at the other end, or without the link.
QNode(res, e, b, n) ==
  /\ b.kind = "node"
  /\ res[b.rlfa].dist[n] < Plus(res[Dst[e]].dist[b.rlfa], res[Dst[e]].dist[n])
QLink(res, e, b, n) ==
  /\ "link" \in protect[e] /\ ~Mandatory(res, n)
  /\ res[b.rlfa].dist[n] < Plus(res[root].dist[b.rlfa], metric[e])

Serves(res, e, b, n) ==
  n \notin {b.proxy, b.rlfa} /\ (QNode(res, e, b, n) \/ QLink(res, e, b, n))
Served(res, e, b, n) == Rlfa(b.oif, e, IF QNode(res, e, b, n) THEN "node" ELSE "link", b.rlfa)

\* p2p_filter_select_pq_nodes_from_ex_pspace: the runs of both ends on the
\* inverse topology replace their lists, then the eligible PQ nodes run forward.
SelectPqNodes(e) ==
  /\ pc = "filter" /\ AtSlot(e)
  /\ LET inverse == Refresh(results, {root, Dst[e]}, InverseTopology(metric))
         pqs == {b \in pq : Eligible(inverse, e, b.rlfa)}
         res == Refresh(inverse, {b.rlfa : b \in pqs}, metric)
         none == IF root \in overload THEN noNeed ELSE {}
     IN /\ results' = res
        /\ noNeed' = none
        /\ backup' = [n \in Node |-> backup[n] \cup
             IF n \in Listed(res, root) /\ Impacted(res, none, e, n)
             THEN {Served(res, e, b, n) : b \in {c \in pqs : Serves(res, e, c, n)}}
             ELSE {}]
  /\ pc' = "slot" /\ slots' = slots \ {e}
  /\ UNCHANGED <<confVars, root, partial, ran, pq, cmds>>

SlotsEnd ==
  /\ pc = "slot" /\ slots = {}
  /\ pc' = "built"
  /\ UNCHANGED <<confVars, root, partial, ran, results, noNeed, slots, pq, backup, cmds>>

\* spf_postprocessing builds the routes from results and backup; after a partial
\* run the backups are dropped.
Built ==
  /\ pc = "built"
  /\ pc' = "idle"
  /\ IF partial /\ "enabled" \in options[root]
     THEN backup' = Flush(results, root) /\ pq' = {}
     ELSE UNCHANGED <<backup, pq>>
  /\ UNCHANGED <<confVars, root, partial, ran, results, noNeed, slots, cmds>>

-----------------------------------------------------------------------------
Operator ==
  \/ \E e \in ConfEdges : \/ SetStatus(e)
                          \/ \E x \in LinkMetrics : SetMetric(e, x)
                          \/ \E flag \in Flags :
                               Enable(e, flag) \/ Disable(e, flag)
  \/ \E n \in {Src[e] : e \in ConfEdges} : SetOverload(n) \/ SetOptions(n)
  \/ \E n \in Node : FullRun(n) \/ PartialRun(n)

Next ==
  \/ Operator
  \/ BackupRuns \/ Weed \/ SlotsEnd \/ Built
  \/ \E e \in slots : SkipSlot(e) \/ ComputeLfa(e) \/ ExtendedPSpace(e)
                             \/ SelectPqNodes(e)

Spec == Init /\ [][Next]_vars

-----------------------------------------------------------------------------
(* Properties.                                                             *)

Backups == [oif : Edge, link : Edge, node : Node \cup {NoNode},
            kind : {"link", "node"}, proxy : Node \cup {NoNode},
            rlfa : Node \cup {NoNode}]
IsTunnel(b) == b.rlfa # NoNode

\* Every variable keeps its type; a backup is an alternate or a tunnel.
TypeOK ==
  /\ metric \in [Edge -> Nat] /\ status \in [Edge -> BOOLEAN]
  /\ overload \subseteq Node
  /\ protect \in [Edge -> SUBSET Flags] /\ options \in [Node -> SUBSET Options]
  /\ pc \in {"idle", "runs", "weed", "slot", "pspace", "filter", "built"}
  /\ root \in Node /\ partial \in BOOLEAN /\ ran \subseteq Node
  /\ results \in [Node -> [dist : [Node -> 0..Inf],
                           hops : [Node -> SUBSET {Hop(e) : e \in Edge}]]]
  /\ noNeed \subseteq Node
  /\ slots \subseteq {e \in Edge : root \in {Src[e], Dst[e]}}
  /\ pq \subseteq Backups
  /\ backup \in [Node -> SUBSET Backups]
  /\ \A n \in Node : \A b \in backup[n] : (b.node = NoNode) = IsTunnel(b)
  /\ cmds \in 0..MaxCmds

\* The shortest paths of the network as it is, whatever the result lists hold.
Reference == Table([x \in Node |-> Distances(metric, x)])
VisitsNode(d, x, y, z) == d[x][y] < Inf /\ d[x][z] + d[z][y] = d[x][y]
VisitsLink(d, x, y, e) == /\ d[x][y] < Inf /\ e \in Usable
                          /\ d[x][Src[e]] + metric[e] + d[Dst[e]][y] = d[x][y]

\* The routes of a full run are being built, from results that are shortest
\* paths: no inverse run has replaced them by others.
Symmetric == \A e \in DOMAIN Twin : metric[e] = metric[Twin[e]]
FullBuilt == pc = "built" /\ ~partial
Sound == FullBuilt /\ ("remote" \in options[root] => Symmetric)

\* Every edge in use is the direction of a link whose other one is in use: the
\* way back from a router is as long as the way there.
Paired == \A e \in Usable : e \in DOMAIN Twin /\ Twin[e] \in Usable

Destinations(ref) == {n \in Node \ {root} : ref[root][n] < Inf}

\* An alternate never sends the traffic back: no shortest path from it to the
\* destination visits the router whose link is protected, so none uses the link.
AlternatesLoopFree ==
  Sound => LET ref == Reference IN
    \A n \in Destinations(ref) : \A b \in backup[n] :
      ~IsTunnel(b) => ~VisitsNode(ref, b.node, n, root)

\* On a link with node protection, an alternate of the node-protecting kind, or
\* each half of such a tunnel, avoids the routers it protects against.  (A tunnel
\* to the far end itself is of that kind only if the far end is overloaded.)
NodeKindAvoidsNextHops ==
  Sound => LET ref == Reference IN
    \A n \in Destinations(ref) : \A b \in backup[n] :
      b.kind = "node" /\ "node" \in protect[b.link] =>
        IF IsTunnel(b)
        THEN /\ ~VisitsNode(ref, b.proxy, b.rlfa, Dst[b.link])
             /\ Paired /\ VisitsNode(ref, b.rlfa, n, Dst[b.link]) =>
                  n = Dst[b.link] /\ n \in overload
        ELSE \A h \in results[root].hops[n] :
               h.node # n => ~VisitsNode(ref, b.node, n, h.node)

\* A tunnel survives the failure of the link it stands in for: neither the way to
\* the PQ node nor the way on to the destination uses the link.  (An overloaded
\* far end has no records, so nothing is known of what it reaches.)
TunnelsAvoidLink ==
  Sound => LET ref == Reference IN
    \A n \in Destinations(ref) : \A b \in backup[n] :
      IsTunnel(b) /\ Dst[b.link] \notin overload =>
        /\ b.oif # b.link
        /\ ~VisitsLink(ref, b.proxy, b.rlfa, b.link)
        /\ Paired => ~VisitsLink(ref, b.rlfa, n, b.link)

\* A PQ node is in the Q space of the link, also when the metrics of the two
\* directions differ: it reaches the far end without the link.
PqNodesInQSpace ==
  FullBuilt /\ Paired => LET ref == Reference IN
    \A n \in Destinations(ref) : \A b \in backup[n] :
      IsTunnel(b) /\ Dst[b.link] \notin overload =>
        ~VisitsLink(ref, b.rlfa, Dst[b.link], b.link)

\* The routes a full run builds hold no backup another router's run left in the
\* destinations: every backup leaves through an interface of the root and stands
\* in for one of its links.
BackupsOfRoot ==
  FullBuilt => \A n \in Destinations(Reference) : \A b \in backup[n] :
    Src[b.oif] = root /\ root \in {Src[b.link], Dst[b.link]}

\* Without remote LFA, a destination is left without backups for its independent
\* next hops only if two of its next hops do not reach it through one another.
\* (An overloaded destination is not seen to be on the way to itself.)
UnprotectedSurvives ==
  FullBuilt /\ "remote" \notin options[root] =>
    LET ref == Reference
        through(g, h, n) == /\ VisitsNode(ref, g.node, n, h.node)
                            /\ ~(h.node = n /\ n \in overload)
    IN \A n \in noNeed :
      /\ backup[n] = {}
      /\ Lsp = {} => \E g, h \in results[root].hops[n] :
           g # h /\ ~through(g, h, n) /\ ~through(h, g, n)

\* A destination with several next hops gets no backup that only protects links.
NoLinkBackupForEcmp ==
  Sound => \A n \in Destinations(Reference) :
    Mandatory(results, n) => \A b \in backup[n] : b.kind = "node"

\* What a backup promises for the link it stands in for: traffic given to it
\* meets neither the link again nor, where it says so, the router behind it.
BackupsProtect ==
  /\ AlternatesLoopFree /\ NodeKindAvoidsNextHops
  /\ TunnelsAvoidLink /\ PqNodesInQSpace

\* Which destinations have backups, of which kind and of whose run.
BackupsOfEachDestination ==
  BackupsOfRoot /\ UnprotectedSurvives /\ NoLinkBackupForEcmp
=============================================================================
