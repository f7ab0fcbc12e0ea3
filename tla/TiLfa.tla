-------------------------------- MODULE TiLfa --------------------------------
(***************************************************************************)
(* Topology-independent LFA: compute_tilfa() of tilfa.c, which a full run  *)
(* of a router calls, with the post-convergence paths of                   *)
(* complete_spf_path.c and the configuration of protected links.           *)
(*                                                                         *)
(* For each protected resource the router runs Dijkstra and the path       *)
(* computation again, walks the post-convergence paths of every impacted   *)
(* destination backwards for a Q node and a P node, and records the        *)
(* segment lists that lead from a first hop over P and Q.                  *)
(*                                                                         *)
(* The topologies have no pseudonode and no RSVP LSP, so a first hop is an *)
(* interface and adds no label of its own; the metrics are positive.  The  *)
(* mpls.0 stack of a list is its inet.3 stack with the last operation a    *)
(* SWAP, or a POP when there is none, and is left out.                     *)
(*                                                                         *)
(* Nothing tests the index at which a label is written: a list with more   *)
(* labels than its arrays have places is undefined behaviour, the end of   *)
(* a behaviour of the model (StackOverrun).                                *)
(***************************************************************************)
EXTENDS Topologies, SequencesExt, TLC

CONSTANTS
  Networks,    \* initial networks, see LevelOf
  Inf,         \* INFINITE_METRIC
  Wrap,        \* 2^32: sums of distances are uint32_t
  MaxNh,       \* MAX_NXT_HOPS
  StackLimit,  \* MPLS_STACK_OP_LIMIT_MAX
  NewMetrics,  \* metrics the operator may configure
  MaxCmds      \* bound on the operator's commands in a behaviour

ASSUME TiLfaConstants == /\ Inf \in Nat /\ Wrap \in Nat /\ Inf < Wrap
                         /\ MaxNh \in Nat \ {0} /\ StackLimit \in Nat \ {0}

VARIABLES
  net,       \* routers, edges, edges in slot order, their ends; the routers that run
             \* TI-LFA (plr) and the edges the operator reconfigures (conf)
  metric,    \* edge->metric[level]
  status,    \* edge->status
  overload,  \* nodes with OVERLOAD_BIT set
  config,    \* node->tilfa_info->tilfa_lcl_config_head, newest first
  pc,        \* where compute_tilfa is
  root,      \* spf_root
  fwd, rev,  \* remote results: fwd[x] rooted at x, rev[y] on the inverse topology
  pre, post, \* pre- and post-convergence results of the root
  preds,     \* post_convergence_spf_path: predecessors of the reached routers
  todo,      \* configured resources the loop has left, the current one first
  dests,     \* destinations the loop over the result list has left
  segs,      \* node->tilfa_info->tilfa_segment_list_head
  cmds       \* commands the operator may still give

confVars == <<net, metric, status, overload, config>>
runVars == <<root, fwd, rev, pre, post, preds, todo, dests, segs>>
vars == <<confVars, pc, runVars, cmds>>

MinNat(S) == CHOOSE x \in S : \A y \in S : x <= y
MaxNat(S) == CHOOSE x \in S : \A y \in S : x >= y

\* The function f; TLC computes its values once, not at each application.
Table(f) == f @@ <<>>

\* A sum of distances, in 32 bits.
Plus(x, y) == (x + y) % Wrap

\* The initial configuration of one level of a topology, with n commands.
LevelOf(t, level, plr, conf, n) ==
  LET edges == LevelEdges(t, level)
  IN [net |-> [nodes |-> {SrcOf(t)[e] : e \in edges}, plr |-> plr, conf |-> conf, edges |-> edges,
               slots |-> SelectSeq([e \in EdgesOf(t) |-> e], LAMBDA e : e \in edges),
               src |-> [e \in edges |-> SrcOf(t)[e]], dst |-> [e \in edges |-> DstOf(t)[e]]],
      metric |-> [e \in edges |-> MetricOf(t)[e]], cmds |-> n]

-----------------------------------------------------------------------------
(* Dijkstra's algorithm with the order of the candidate tree.              *)

Src(e) == net.src[e]
Dst(e) == net.dst[e]

\* ITERATE_NODE_LOGICAL_NBRS: the interfaces that are up, in slot order.
UpEdges(n) == {e \in net.edges : Src(e) = n /\ status[e]}
Slots(n) == SelectSeq(net.slots, LAMBDA e : Src(e) = n /\ status[e])
TwoWay(e) == \E f \in UpEdges(Dst(e)) : Dst(f) = Src(e)

\* What leaving c by e costs: an overloaded router lets nothing through.
Cost(m, c, e) == IF c \in overload THEN Inf ELSE m[e]

\* The candidate tree: least distance first, the latest of equal ones first.
Insert(heap, dist, n) ==
  LET rest == SelectSeq(heap, LAMBDA x : x # n)
      nearer == SelectSeq(rest, LAMBDA x : dist[x] < dist[n])
  IN nearer \o <<n>> \o SubSeq(rest, Len(nearer) + 1, Len(rest))

\* Pop the candidates one by one; visit(s, c) is the loop over c's neighbours.
Explore(start, visit(_, _)) ==
  LET after[k \in 0..Cardinality(net.nodes)] ==
        IF k = 0 THEN start
        ELSE LET s == after[k - 1]
             IN IF s.heap = <<>> THEN s
                ELSE LET c == Head(s.heap)
                     IN visit([s EXCEPT !.heap = Tail(@), !.order = <<c>> \o @], c)
  IN after[Cardinality(net.nodes)]

Start(r, data) ==
  [heap |-> <<r>>, order |-> <<>>, data |-> [n \in net.nodes |-> data],
   dist |-> [n \in net.nodes |-> IF n = r THEN 0 ELSE Inf]]

\* spf_init, step 3: the direct next hops of r's neighbours, without the pruned
\* links and nodes.  A better link replaces the first one only.
Direct(r, links, nodes) ==
  LET add(d, e) ==
        LET old == d[Dst(e)]
            new == IF old = <<>> THEN <<e>>
                   ELSE IF metric[e] < metric[old[1]] THEN [old EXCEPT ![1] = e]
                   ELSE IF metric[e] = metric[old[1]] /\ Len(old) < MaxNh THEN Append(old, e)
                   ELSE old
        IN [d EXCEPT ![Dst(e)] = new]
  IN FoldLeft(add, [n \in net.nodes |-> <<>>],
              SelectSeq(Slots(r), LAMBDA e : e \notin links /\ Dst(e) \notin nodes))

\* spf_computation(TILFA_RUN): data is the next hops, interfaces of r.  A router
\* that is overloaded is refused.  Pruning takes direct next hops away, and the
\* routers behind them keep the next hops of a longer way, if there is one.
SpfRun(r, links, nodes) ==
  LET direct == Direct(r, links, nodes)
      relax(s, e) ==
        LET c == Src(e)
            n == Dst(e)
            d == s.dist[c] + Cost(metric, c, e)
            hops == IF c = r THEN ToSet(direct[n])
                    ELSE IF s.data[c] # {} THEN s.data[c] ELSE s.data[n]
            more == s.data[n] \cup s.data[c]
                    \cup IF s.data[c] = {} THEN ToSet(direct[n]) ELSE {}
        IN IF ~TwoWay(e) \/ d > s.dist[n] THEN s
           ELSE IF d = s.dist[n] THEN [s EXCEPT !.data[n] = more]
           ELSE LET dist == [s.dist EXCEPT ![n] = d]
                IN [s EXCEPT !.dist = dist, !.data[n] = hops, !.heap = Insert(@, dist, n)]
      s == Explore(Start(r, {}), LAMBDA x, c : FoldLeft(relax, x, Slots(c)))
  IN [order |-> s.order, dist |-> s.dist, hops |-> s.data]

NoRun == [order |-> <<>>, dist |-> [n \in net.nodes |-> Inf], hops |-> [n \in net.nodes |-> {}]]

\* One neighbour in run_spf_paths_dijkastra: data is the predecessors, the latest
\* of them first.
PredRelax(links, nodes, s, e) ==
  LET c == Src(e)
      n == Dst(e)
      d == s.dist[c] + Cost(metric, c, e)
      dist == [s.dist EXCEPT ![n] = d]
  IN IF ~TwoWay(e) \/ e \in links \/ n \in nodes \/ d > s.dist[n] THEN s
     ELSE IF d < s.dist[n]
          THEN [s EXCEPT !.dist = dist, !.data[n] = <<c>>, !.heap = Insert(@, dist, n)]
          ELSE IF c \in ToSet(s.data[n]) THEN s ELSE [s EXCEPT !.data[n] = <<c>> \o @]

\* compute_spf_paths: the predecessors of the routers that are reached in the
\* pruned topology.
SpfPaths(r, links, nodes) ==
  LET s == Explore(Start(r, <<>>),
             LAMBDA x, c : FoldLeft(LAMBDA y, e : PredRelax(links, nodes, y, e), x, Slots(c)))
  IN [n \in ToSet(s.order) |-> s.data[n]]

\* trace_spf_path_to_destination_node: the paths from the root, in the order the
\* recursion meets them.
Paths(dest) ==
  LET to[n \in DOMAIN preds] ==
        IF n = root THEN <<<<n>>>>
        ELSE LET behind(c) == LET upTo == to[c] IN [j \in DOMAIN upTo |-> Append(upTo[j], n)]
             IN FoldLeft(LAMBDA all, c : all \o behind(c), <<>>, preds[n])
  IN IF dest \in DOMAIN preds THEN to[dest] ELSE <<>>

\* Distances from s with the metrics m.
Distances(m, s) ==
  LET relax(x, e) ==
        LET d == x.dist[Src(e)] + Cost(m, Src(e), e)
            dist == [x.dist EXCEPT ![Dst(e)] = d]
        IN IF ~TwoWay(e) \/ d >= x.dist[Dst(e)] THEN x
           ELSE [x EXCEPT !.dist = dist, !.heap = Insert(@, dist, Dst(e))]
  IN Explore(Start(s, 0), LAMBDA x, c : FoldLeft(relax, x, Slots(c))).dist

\* The results lists rooted at every router; an overloaded router is refused.
AllDistances(m) == Table([x \in net.nodes |->
  IF x \in overload THEN NoRun.dist ELSE Distances(m, x)])

\* inverse_topology
InverseTopology(m) == Table([e \in net.edges |-> m[InvEdge(e)]])

-----------------------------------------------------------------------------
(* P and Q nodes; pr is the protected resource [link, lp, np].             *)

Far(pr) == Dst(pr.link)

\* tilfa_compute_first_hop_segments: the post-convergence next hops of the first
\* hop that lead to it directly and are no next hops of the destination.
FirstHops(fh, dest) == {e \in post.hops[fh] \ pre.hops[dest] : Dst(e) = fh}

\* From x to y, not through the root.
LoopFree(x, y) == fwd[x][y] < Plus(fwd[x][root], pre.dist[y])

\* Mutants of Avoids: every way will do; link protection is forgotten.
AvoidsAny(pr, x, y) == TRUE
AvoidsRouterOnly(pr, x, y) == pr.np /\ fwd[x][y] < Plus(fwd[x][Far(pr)], fwd[Far(pr)][y])

\* From x to y, not through the router, or the link, that is protected.
Avoids(pr, x, y) ==
  \/ pr.np /\ fwd[x][y] < Plus(fwd[x][Far(pr)], fwd[Far(pr)][y])
  \/ pr.lp /\ fwd[x][y] < Plus(Plus(fwd[x][root], metric[pr.link]), fwd[Far(pr)][y])

\* tilfa_p_node_qualification_test_wrt_root
IsPNode(pr, fh, dest, x) ==
  /\ FirstHops(fh, dest) # {}
  /\ x = fh \/ (LoopFree(fh, x) /\ Avoids(pr, fh, x))

\* Mutant of IsQNode: the way to the destination may come back through the root.
IsQNodeAny(pr, dest, x) == x = dest \/ rev[x][dest] # Inf

\* tilfa_q_node_qualification_test_wrt_destination.  The reverse distances are
\* asked for with their ends swapped: they are the distances to x.
IsQNode(pr, dest, x) ==
  LET toX(y) == rev[x][y]
  IN \/ x = dest
     \/ /\ toX(dest) # Inf
        /\ toX(dest) < Plus(toX(root), pre.dist[dest])
        /\ \/ pr.np /\ toX(dest) < Plus(toX(Far(pr)), fwd[Far(pr)][dest])
           \/ pr.lp /\ toX(dest) < Plus(Plus(toX(root), metric[pr.link]), fwd[Far(pr)][dest])

\* tilfa_is_destination_impacted
Impacted(pr, dest) == pr.link \in pre.hops[dest]

-----------------------------------------------------------------------------
(* Segment lists.                                                          *)

Prefix(n) == [to |-> n]
Adjacency(a, b) == [from |-> a, to |-> b]
IsAdjacency(s) == "from" \in DOMAIN s

\* tilfa_compute_segment_list_connecting_p_q_nodes: from path[i] to path[q] by the
\* farthest prefix segment that stays clear of the resource, or by an adjacency.
Connection(pr, path, i, q) ==
  LET from[k \in i..q] ==
        LET reach == {j \in (k + 1)..q : /\ LoopFree(path[k], path[j])
                                         /\ Avoids(pr, path[k], path[j])}
        IN IF k = q THEN <<>>
           ELSE IF reach = {} THEN <<Adjacency(path[k], path[k + 1])>> \o from[k + 1]
           ELSE <<Prefix(path[MaxNat(reach)])>> \o from[MaxNat(reach)]
  IN from[i]

\* tilfa_compute_segment_list_from_tilfa_raw_results, cases 1.1 to 2.3: one router
\* is both P and Q.  The first hop needs no label, nor does a destination that was
\* pushed as the P node.
PqLabels(path, p) ==
  (IF p = 2 THEN <<>> ELSE <<Prefix(path[p])>>)
  \o (IF p = Len(path) THEN <<>> ELSE <<Prefix(path[Len(path)])>>)

\* Its last case: from the P node over the connection to the Q node.
ViaLabels(pr, path, p, q) ==
  (IF p = 2 THEN <<>> ELSE <<Prefix(path[p])>>)
  \o Connection(pr, path, p, q)
  \o (IF q = Len(path) THEN <<>> ELSE <<Prefix(path[Len(path)])>>)

Labels(pr, path, p, q) ==
  IF p = q THEN PqLabels(path, p) ELSE ViaLabels(pr, path, p, q)

\* Mutant of PAndQ: the search for P stops before the first hop.
PAndQBeyond(pr, path) ==
  LET m == Len(path)
      isP(k) == IsPNode(pr, path[2], path[m], path[k])
      isQ(k) == \A j \in k..m : IsQNode(pr, path[m], path[j])
      qs == {k \in 3..m : isQ(k)}
      both == {k \in (IF m = 2 THEN {2} ELSE qs) : isP(k)}
      ps == {k \in 3..(MinNat(qs) - 1) : isP(k)}
  IN IF both # {} THEN {<<MaxNat(both), MaxNat(both)>>}
     ELSE IF m = 2 \/ ps = {} THEN {}
     ELSE {<<MaxNat(ps), MinNat(qs)>>}

\* Positions of P and Q on a path root, first hop, ..., destination: the walk goes
\* back from the destination while it meets Q nodes, stops at the first one that is
\* a P node too, and else goes on from the last one to the next P node.
PAndQ(pr, path) ==
  LET m == Len(path)
      isP(k) == IsPNode(pr, path[2], path[m], path[k])
      isQ(k) == \A j \in k..m : IsQNode(pr, path[m], path[j])
      qs == {k \in 3..m : isQ(k)}
      both == {k \in (IF m = 2 THEN {2} ELSE qs) : isP(k)}
      ps == {k \in 2..(MinNat(qs) - 1) : isP(k)}
  IN IF both # {} THEN {<<MaxNat(both), MaxNat(both)>>}
     ELSE IF m = 2 \/ ps = {} THEN {}
     ELSE {<<MaxNat(ps), MinNat(qs)>>}

\* tilfa_examine_tilfa_path_for_segment_list: one list for each first-hop segment.
ListsOf(pr, path) ==
  {[oif |-> e, stack |-> Labels(pr, path, pq[1], pq[2])] :
     e \in FirstHops(path[2], path[Len(path)]), pq \in PAndQ(pr, path)}

\* A list of the destination gets a label beyond the end of its arrays: the
\* functions that write the labels do not test the index.
Overruns(pr, dest) ==
  /\ Impacted(pr, dest)
  /\ \E path \in ToSet(Paths(dest)) : \E l \in ListsOf(pr, path) : Len(l.stack) > StackLimit

\* tilfa_merge_tilfa_segment_lists_by_destination: when the array is full it is
\* copied over the list that is being merged, not over the recorded one.
Merge(old, new) == IF Cardinality(old \cup new) >= MaxNh THEN old ELSE old \cup new

\* Mutant of Record: a second record for the destination.
RecordAgain(recs, dest, pr, lists) ==
  IF lists = {} THEN recs ELSE <<[dest |-> dest, pr |-> pr, lists |-> lists]>> \o recs

\* tilfa_record_segment_list: a destination has one record, under the resource
\* that made its first list.
Record(recs, dest, pr, lists) ==
  LET same == {i \in DOMAIN recs : recs[i].dest = dest}
  IN IF lists = {} THEN recs
     ELSE IF same = {} THEN <<[dest |-> dest, pr |-> pr, lists |-> lists]>> \o recs
     ELSE [i \in DOMAIN recs |-> IF i \in same
             THEN [recs[i] EXCEPT !.lists = Merge(@, lists)] ELSE recs[i]]

\* tilfa_clear_segments_list of a resource: the first record made for it.
ClearFirst(recs, pr) ==
  RemoveFirstMatch(recs, LAMBDA rec : rec.pr = pr)

-----------------------------------------------------------------------------
(* The operator.                                                           *)

Init ==
  /\ \E c \in Networks : /\ net = c.net /\ metric = c.metric
                         /\ cmds = c.cmds
  /\ status = [e \in net.edges |-> TRUE] /\ overload = {}
  /\ config = [n \in net.nodes |-> <<>>]
  /\ pc = "idle" /\ root = CHOOSE n \in net.nodes : TRUE
  /\ fwd = <<>> /\ rev = <<>> /\ preds = <<>> /\ todo = <<>> /\ dests = <<>>
  /\ pre = NoRun /\ post = NoRun
  /\ segs = [n \in net.nodes |-> <<>>]

Configure ==
  /\ pc = "idle" /\ cmds > 0
  /\ cmds' = cmds - 1
  /\ UNCHANGED <<net, pc, runVars>>

SetMetric(e, x) ==
  /\ Configure
  /\ metric[e] # x
  /\ metric' = [metric EXCEPT ![e] = x]
  /\ UNCHANGED <<status, overload, config>>

SetStatus(e) ==
  /\ Configure
  /\ status' = [status EXCEPT ![e] = ~@]
  /\ UNCHANGED <<metric, overload, config>>

SetOverload(n) ==
  /\ Configure
  /\ overload' = (overload \ {n}) \cup ({n} \ overload)
  /\ UNCHANGED <<metric, status, config>>

\* tilfa_update_config: set a field of the link's entry; a new entry is the first
\* one, and one that protects nothing is removed.
UpdateConfig(e, field, value) ==
  /\ Configure
  /\ LET n == Src(e)
         isNew == \A i \in DOMAIN config[n] : config[n][i].link # e
         entries == IF isNew
                    THEN <<[link |-> e, lp |-> FALSE, np |-> FALSE]>> \o config[n]
                    ELSE config[n]
         set == [i \in DOMAIN entries |-> IF entries[i].link = e
                   THEN [entries[i] EXCEPT ![field] = value] ELSE entries[i]]
     IN config' = [config EXCEPT ![n] = SelectSeq(set, LAMBDA x : x.lp \/ x.np)]
  /\ UNCHANGED <<metric, status, overload>>

-----------------------------------------------------------------------------
(* compute_tilfa                                                           *)

\* All lists are cleared; the remote results, which are computed when they are
\* first asked for, do not change until the next call.
StartTilfa(r) ==
  /\ pc = "idle" /\ cmds > 0 /\ cmds' = cmds - 1
  /\ r \notin overload
  /\ root' = r
  /\ segs' = [segs EXCEPT ![r] = <<>>]
  /\ fwd' = AllDistances(metric)
  /\ rev' = AllDistances(InverseTopology(metric))
  /\ todo' = config[r]
  /\ pre' = IF config[r] = <<>> THEN NoRun ELSE SpfRun(r, {}, {})
  /\ pc' = "resource"
  /\ UNCHANGED <<confVars, post, preds, dests>>

\* tilfa_run_post_convergence_spf, up to the segment lists: the link is pruned for
\* link protection, the router behind it for node protection.
PostConvergence ==
  /\ pc = "resource" /\ todo # <<>>
  /\ LET pr == Head(todo)
         links == IF pr.lp THEN {pr.link} ELSE {}
         nodes == IF pr.np THEN {Far(pr)} ELSE {}
     IN /\ segs' = [segs EXCEPT ![root] = ClearFirst(@, pr)]
        /\ post' = SpfRun(root, links, nodes)
        /\ preds' = SpfPaths(root, links, nodes)
  /\ dests' = pre.order
  /\ pc' = "lists"
  /\ UNCHANGED <<confVars, root, fwd, rev, pre, todo, cmds>>

\* tilfa_compute_segment_lists, one destination of the result list.
SegmentLists ==
  /\ pc = "lists" /\ dests # <<>>
  /\ ~Overruns(Head(todo), Head(dests))
  /\ LET dest == Head(dests)
         pr == Head(todo)
     IN segs' = IF Impacted(pr, dest)
                THEN [segs EXCEPT ![root] =
                        FoldLeft(LAMBDA recs, path : Record(recs, dest, pr, ListsOf(pr, path)),
                                 @, Paths(dest))]
                ELSE segs
  /\ dests' = Tail(dests)
  /\ UNCHANGED <<confVars, pc, root, fwd, rev, pre, post, preds, todo, cmds>>

\* The label written beyond the arrays changes whatever follows them.
StackOverrun ==
  /\ pc = "lists" /\ dests # <<>>
  /\ Overruns(Head(todo), Head(dests))
  /\ pc' = "overrun"
  /\ UNCHANGED <<confVars, runVars, cmds>>

NextResource ==
  /\ pc = "lists" /\ dests = <<>>
  /\ todo' = Tail(todo)
  /\ pc' = "resource"
  /\ UNCHANGED <<confVars, root, fwd, rev, pre, post, preds, dests, segs, cmds>>

EndTilfa ==
  /\ pc = "resource" /\ todo = <<>>
  /\ pc' = "idle"
  /\ UNCHANGED <<confVars, runVars, cmds>>

Operator ==
  \/ \E e \in net.conf : \/ SetStatus(e) \/ SetOverload(Src(e))
                         \/ \E x \in NewMetrics : SetMetric(e, x)
  \/ \E e \in {f \in net.edges : Src(f) \in net.plr} :
       \E field \in {"lp", "np"} : \E value \in BOOLEAN : UpdateConfig(e, field, value)
  \/ \E n \in net.plr : StartTilfa(n)

Next ==
  \/ Operator
  \/ PostConvergence \/ SegmentLists \/ StackOverrun \/ NextResource \/ EndTilfa

Spec == Init /\ [][Next]_vars

-----------------------------------------------------------------------------
(* Properties.                                                             *)

Resources == [link : net.edges, lp : BOOLEAN, np : BOOLEAN]

\* Every variable keeps its type; a destination has at most one record, made for a
\* link of the router that holds it.
TypeOK ==
  /\ metric \in [net.edges -> Nat] /\ status \in [net.edges -> BOOLEAN]
  /\ overload \subseteq net.nodes
  /\ \A n \in net.nodes : config[n] \in Seq(Resources) /\ IsInjective(config[n])
  /\ pc \in {"idle", "resource", "lists", "overrun"} /\ root \in net.nodes
  /\ pre.dist \in [net.nodes -> 0..Inf] /\ post.dist \in [net.nodes -> 0..Inf]
  /\ cmds \in 0..MaxCmds /\ todo \in Seq(Resources)
  /\ \A n \in net.nodes : \A i \in DOMAIN segs[n] :
       /\ segs[n][i].pr \in Resources /\ Src(segs[n][i].pr.link) = n
       /\ segs[n][i].dest \in net.nodes /\ segs[n][i].lists # {}
       /\ Cardinality(segs[n][i].lists) <= MaxNh
       /\ \A j \in DOMAIN segs[n] : segs[n][i].dest = segs[n][j].dest => i = j

-----------------------------------------------------------------------------
(* What a list does: it is run by routers that still forward on the pre-   *)
(* convergence paths.                                                      *)

Reference == Table([x \in net.nodes |-> Distances(metric, x)])
OnWay(d, x, y, z) == d[x][y] < Inf /\ d[x][z] + d[z][y] = d[x][y]

\* The legs of a list: from the first hop over its segments to the destination.
Legs(rec, l) ==
  LET ends == [i \in DOMAIN l.stack |-> l.stack[i].to]
      way == <<Dst(l.oif)>> \o ends \o (IF ends = <<>> \/ Last(ends) # rec.dest
                                       THEN <<rec.dest>> ELSE <<>>)
  IN [i \in 1..(Len(way) - 1) |->
        [from |-> way[i], to |-> way[i + 1],
         adj |-> i <= Len(l.stack) /\ IsAdjacency(l.stack[i])]]

\* get_adj_sid_minimum: an adjacency segment takes the cheapest link.
LegCost(d, leg) ==
  IF leg.adj THEN MinNat({metric[e] : e \in {f \in UpEdges(leg.from) : Dst(f) = leg.to}})
  ELSE d[leg.from][leg.to]

\* Distances from the root without the links and routers of a resource.
PrunedDistances(pr) ==
  LET gone(e) == (pr.lp /\ e = pr.link) \/ (pr.np /\ Far(pr) \in {Src(e), Dst(e)})
  IN Distances([e \in net.edges |-> IF gone(e) THEN Inf ELSE metric[e]], root)

\* P(d, rec, l) holds for every list l the root has recorded.
EveryList(P(_, _, _)) ==
  LET d == Reference
  IN \A i \in DOMAIN segs[root] : \A l \in segs[root][i].lists : P(d, segs[root][i], l)

\* A run has ended.  The Q test has the right distances only if the metrics of
\* both directions are the same and no router is overloaded.
Complete == pc = "resource" /\ todo = <<>>
Symmetric == /\ overload = {}
             /\ \A e \in net.edges : metric[e] = metric[InvEdge(e)] /\ status[e] = status[InvEdge(e)]
Sound == Complete /\ Symmetric

\* One resource is configured.
Only1 == Len(config[root]) = 1

\* No leg of a list, on whichever of the equal-cost paths, comes back through the
\* root: the detours of all resources leave the protected links alone, those of two
\* resources merged into the record of one of them too.
DetoursLeaveRoot ==
  EveryList(LAMBDA d, rec, l :
    \A i \in DOMAIN Legs(rec, l) : LET leg == Legs(rec, l)[i] IN
      /\ d[leg.from][leg.to] < Inf
      /\ leg.adj \/ ~OnWay(d, leg.from, leg.to, root))

\* With node protection only, no leg passes the protected router.
DetoursAvoidRouter ==
  (\A i \in DOMAIN config[root] : ~config[root][i].lp) /\ Only1 =>
    EveryList(LAMBDA d, rec, l :
      \A i \in DOMAIN Legs(rec, l) : LET leg == Legs(rec, l)[i] IN
        IF leg.adj THEN Far(rec.pr) \notin {leg.from, leg.to}
        ELSE ~OnWay(d, leg.from, leg.to, Far(rec.pr)))

\* What is recorded protects: the traffic a list takes in never returns to the
\* router that lost the link, and stays clear of the router that failed.
DetoursProtect == Sound => DetoursLeaveRoot /\ DetoursAvoidRouter

\* With one resource of one kind, a list sends the traffic where it will go after
\* convergence: its cost is the distance without the link or the router.
DetoursArePostConvergence ==
  Sound /\ Only1 => LET pr == config[root][1] IN pr.lp # pr.np =>
    LET best == PrunedDistances(pr)
    IN EveryList(LAMBDA d, rec, l :
         metric[l.oif] + FoldLeft(LAMBDA sum, leg : sum + LegCost(d, leg), 0, Legs(rec, l))
           = best[rec.dest])

\* A destination that is reached through the protected link only gets a list, if a
\* post-convergence path begins with a link that is a shortest path already.  (If
\* none does, the run has lost the direct next hop of the neighbour, see SpfRun.)
Covered ==
  Sound /\ Only1 => LET pr == config[root][1] IN \A n \in net.nodes :
    /\ pre.hops[n] = {pr.link}
    /\ \E i \in DOMAIN Paths(n) : LET fh == Paths(n)[i][2] IN
         pre.dist[fh] = MinNat({metric[e] : e \in {f \in UpEdges(root) : Dst(f) = fh}})
    => \E i \in DOMAIN segs[root] : segs[root][i].dest = n

\* The arrays of a list have no guard but the distance of P and Q: where links cost
\* the same both ways and only links are protected, no list overruns them, however
\* long the detour is, and three labels are enough: the P node, the adjacency of P
\* and Q, the destination.  (Router protection gives no such bound: on a wheel whose
\* hub fails each link of the rim takes a label, and StackOverrun happens.)
LinkStacksFit ==
  Symmetric /\ (\A i \in DOMAIN config[root] : ~config[root][i].np) =>
    /\ pc # "overrun"
    /\ Complete => EveryList(LAMBDA d, rec, l : Len(l.stack) <= 3)

\* tilfa.h: the results after pruning of the resources.
PostResultsPruned ==
  pc = "lists" => LET best == PrunedDistances(Head(todo))
                  IN \A n \in net.nodes : post.dist[n] = best[n]
=============================================================================
