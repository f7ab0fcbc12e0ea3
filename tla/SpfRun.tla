------------------------------- MODULE SpfRun -------------------------------
(***************************************************************************)
(* One SPF run of the controller on one IS-IS level: spf_init() and        *)
(* run_dijkastra() of spfcomputation.c, on the network held in instance_t. *)
(*                                                                         *)
(* The program is single threaded, so a run is a sequence of small steps:  *)
(* the breadth-first initialisation of the level graph, the computation of *)
(* the direct next hops of the root, and the candidate-tree loop.  Each    *)
(* iteration of a loop is one step.  Between runs the operator changes     *)
(* metrics, interface states and overload bits, and starts a run on any    *)
(* router; all runs share the metric and next-hop fields of the nodes, the *)
(* candidate tree and the queue size.                                      *)
(*                                                                         *)
(* An edge is a directed edge_t that belongs to the level of the run.      *)
(* Edges are numbered; the slots node->edges[] of a router are visited in  *)
(* the order of the edge numbers.  lsp_metric always equals spf_metric and *)
(* has no variable.  The candidate tree is a set: which of two nodes with  *)
(* equal keys is on top is left open.                                      *)
(***************************************************************************)
EXTENDS Naturals, Sequences, FiniteSets

CONSTANTS
  Node,        \* node_t of the instance
  Edge,        \* the directed edges of the level, natural numbers
  Src, Dst,    \* edge->from.node and edge->to.node
  Pseudo,      \* nodes with node_type[level] = PSEUDONODE
  Lsp,         \* edges with etype = LSP (RSVP forwarding adjacencies)
  Phys,        \* physical_oif of the tunnel behind an LSP edge
  Inf,         \* INFINITE_METRIC
  MaxNh,       \* MAX_NXT_HOPS
  QSize,       \* Q_DEFAULT_SIZE
  NoNh,        \* an empty next-hop slot
  Networks,    \* initial configurations [metric, status, overload, cmds]
  LinkMetrics, \* metrics the operator may configure
  MaxCmds      \* bound on the operator's commands in a behaviour

ASSUME NetworkAssumption ==
  /\ Node # {} /\ IsFiniteSet(Node)
  /\ Edge \subseteq Nat
  /\ Src \in [Edge -> Node]
  /\ Dst \in [Edge -> Node]
  /\ \A e \in Edge : Src[e] # Dst[e]
  /\ Pseudo \subseteq Node
  /\ Lsp \subseteq Edge
  /\ Phys \in [Lsp -> Edge]
  /\ Inf \in Nat \ {0}
  /\ MaxNh \in Nat \ {0}
  /\ QSize \in Nat \ {0}
  /\ MaxCmds \in Nat
  /\ LinkMetrics \subseteq Nat
  /\ Networks \subseteq [metric : [Edge -> Nat], status : [Edge -> BOOLEAN],
                         overload : SUBSET Node, cmds : 0..MaxCmds]

VARIABLES
  metric,    \* edge->metric[level]
  status,    \* edge->status
  overload,  \* nodes with OVERLOAD_BIT set
  pc,        \* where the run is
  root,      \* spf_root
  queue,     \* Queue_t of spf_init
  visited,   \* nodes with traversing_bit set
  dropped,   \* nodes enqueue() refused in this run (its result is ignored)
  cur,       \* curr_node, then candidate_node
  todo,      \* edges of cur the neighbour loop has not visited yet
  pairs,     \* physical adjacencies of the root still to be visited
  dist,      \* node->spf_metric[level]
  heap,      \* the candidate tree; is_node_on_heap of its members is TRUE
  direct,    \* node->direct_next_hop[level]
  nextHop,   \* node->next_hop[level]
  res,       \* the local variable res, a position in result[root]; 0 is NULL
  result,    \* node->spf_run_result[level], oldest record first
  selfRes,   \* node->self_spf_result[level]: selfRes[n][r] is the record of the
             \* run rooted at r that n points to, 0 for none
  cmds       \* commands the operator may still give

cfgVars == <<metric, status, overload>>
bfsVars == <<queue, visited, dropped>>
resVars == <<res, result, selfRes>>
vars == <<cfgVars, pc, root, bfsVars, cur, todo, pairs, dist, heap, direct,
          nextHop, resVars, cmds>>

MinNat(S) == CHOOSE x \in S : \A y \in S : x <= y

-----------------------------------------------------------------------------
(* Edges and neighbours.                                                   *)

\* ITERATE_NODE_LOGICAL_NBRS: outgoing edges of the level that are up.
UpEdges(n) == {e \in Edge : Src[e] = n /\ status[e]}

\* is_two_way_nbrship
IsTwoWay(n, m) == /\ \E e \in UpEdges(n) : Dst[e] = m
                  /\ \E f \in UpEdges(m) : Dst[f] = n

\* ITERATE_NODE_PHYSICAL_NBRS(root): <<edge1, edge2>>, the second edge leads
\* through the pseudonode the first one enters, or is the first one itself.
PhysicalNbrs(n) ==
  {<<e, e>> : e \in {f \in UpEdges(n) : Dst[f] \notin Pseudo}} \cup
  {p \in Edge \X Edge : /\ p[1] \in UpEdges(n) /\ Dst[p[1]] \in Pseudo
                        /\ p[2] \in UpEdges(Dst[p[1]]) /\ Dst[p[2]] # n}

\* The pair the two nested slot loops come to first.
FirstPair(S) == CHOOSE p \in S : \A q \in S :
  p[1] < q[1] \/ (p[1] = q[1] /\ p[2] <= q[2])

-----------------------------------------------------------------------------
(* Next-hop arrays: MaxNh slots, the first empty one ends the list.        *)

NhType == {"IPNH", "LSPNH"}
TypeOfEdge(e) == IF e \in Lsp THEN "LSPNH" ELSE "IPNH"
NextHop == Edge \X Node
NhList == [1..MaxNh -> NextHop \cup {NoNh}]
EmptyList == [i \in 1..MaxNh |-> NoNh]
NoHops == [t \in NhType |-> EmptyList]

IsEmptyList(l) == l[1] = NoNh
IsAllEmpty(ls) == \A t \in NhType : IsEmptyList(ls[t])

\* Slot i is reached by a loop that stops at the first empty slot.
Listed(l, i) == \A j \in 1..i : l[j] # NoNh
Hops(l) == {l[i] : i \in {j \in 1..MaxNh : Listed(l, j)}}
NhCount(l) == Cardinality({i \in 1..MaxNh : Listed(l, i)})

CopyList(l) == [i \in 1..MaxNh |-> IF Listed(l, i) THEN l[i] ELSE NoNh]
CopyLists(ls) == [t \in NhType |-> CopyList(ls[t])]

\* union_nh_list2: the write index and the read index j advance together, also
\* when the source hop is already present and nothing is written.  "written" is
\* the set of source slots written, each decided after the ones before it.
UnionList(src, dst) ==
  LET used == NhCount(dst)
      After(W) == [i \in 1..MaxNh |->
                     IF i > used /\ i - used \in W THEN src[i - used] ELSE dst[i]]
      written == CHOOSE W \in SUBSET (1..MaxNh) : \A j \in 1..MaxNh :
        j \in W <=> /\ used + j <= MaxNh
                    /\ Listed(src, j)
                    /\ src[j] \notin Hops(After({k \in W : k < j}))
  IN After(written)

\* The next hop installed for an adjacency: intialize_internal_nh_t for IP, and
\* build_mpls_nexthop_from_lsp for an LSP, which takes the tunnel's interface.
Hop(p) == <<IF p[1] \in Lsp THEN Phys[p[1]] ELSE p[1], Dst[p[2]]>>

-----------------------------------------------------------------------------
(* Configuration and start of a run.                                       *)

Init ==
  /\ \E c \in Networks : /\ metric = c.metric
                         /\ status = c.status
                         /\ overload = c.overload
                         /\ cmds = c.cmds
  /\ pc = "idle"
  /\ root = CHOOSE n \in Node : TRUE
  /\ queue = <<>> /\ visited = {} /\ dropped = {}
  /\ cur = root /\ todo = {} /\ pairs = {}
  /\ dist = [n \in Node |-> 0]
  /\ heap = {}
  /\ direct = [n \in Node |-> NoHops]
  /\ nextHop = [n \in Node |-> NoHops]
  /\ res = 0
  /\ result = [n \in Node |-> <<>>]
  /\ selfRes = [n \in Node |-> [r \in Node |-> 0]]

Command ==
  /\ pc \in {"idle", "done"}
  /\ cmds > 0
  /\ cmds' = cmds - 1

Configure ==
  /\ Command
  /\ pc' = "idle"
  /\ UNCHANGED <<root, bfsVars, cur, todo, pairs, dist, heap, direct, nextHop,
                 resVars>>

\* config node <n> interface <i> level <l> metric <m>
SetMetric(e, m) ==
  /\ Configure
  /\ metric[e] # m
  /\ metric' = [metric EXCEPT ![e] = m]
  /\ UNCHANGED <<status, overload>>

\* config node <n> [no] interface <i> enable: one direction of the link only
SetStatus(e) ==
  /\ Configure
  /\ status' = [status EXCEPT ![e] = ~status[e]]
  /\ UNCHANGED <<metric, overload>>

\* config node <n> [no] overload level <l>
SetOverload(n) ==
  /\ Configure
  /\ overload' = (overload \ {n}) \cup ({n} \ overload)
  /\ UNCHANGED <<metric, status>>

\* Mutant of ClearResult: the pointers to the freed records stay.
ClearResultOnly(r) ==
  /\ result' = [result EXCEPT ![r] = <<>>]
  /\ res' = 0
  /\ UNCHANGED selfRes

\* spf_clear_result: the nodes of the records lose their pointer, the records go.
ClearResult(r) ==
  LET recorded == {result[r][i].node : i \in DOMAIN result[r]}
  IN /\ selfRes' = [n \in Node |-> IF n \in recorded
                                   THEN [selfRes[n] EXCEPT ![r] = 0]
                                   ELSE selfRes[n]]
     /\ result' = [result EXCEPT ![r] = <<>>]
     /\ res' = 0

\* spf_computation up to step 2 of spf_init; an overloaded root is refused.
SpfStart(r) ==
  /\ Command
  /\ r \notin overload
  /\ pc' = "bfs"
  /\ root' = r
  /\ ClearResult(r)
  /\ queue' = <<r>> /\ visited' = {r} /\ dropped' = {}
  /\ cur' = r /\ todo' = {} /\ pairs' = {}
  /\ dist' = [dist EXCEPT ![r] = 0]
  /\ nextHop' = [nextHop EXCEPT ![r] = NoHops]
  /\ direct' = [direct EXCEPT ![r] = NoHops]
  /\ heap' = {}
  /\ UNCHANGED cfgVars

-----------------------------------------------------------------------------
(* spf_init, step 2: reset every node of the level graph.                  *)

BfsDeque ==
  /\ pc = "bfs" /\ todo = {} /\ queue # <<>>
  /\ cur' = Head(queue)
  /\ queue' = Tail(queue)
  /\ todo' = UpEdges(Head(queue))
  /\ UNCHANGED <<cfgVars, pc, root, visited, dropped, pairs, dist, heap, direct,
                 nextHop, resVars, cmds>>

BfsNext(e) ==
  /\ pc = "bfs" /\ todo # {} /\ e = MinNat(todo)
  /\ todo' = todo \ {e}
  /\ UNCHANGED <<cfgVars, pc, root, cur, pairs, heap, resVars, cmds>>

BfsSeen(e) ==
  /\ BfsNext(e)
  /\ Dst[e] \in visited
  /\ UNCHANGED <<bfsVars, dist, direct, nextHop>>

\* Mutant of BfsReset: the distance of an earlier run stays.
BfsKeepsDist(e) ==
  /\ BfsNext(e)
  /\ Dst[e] \notin visited
  /\ visited' = visited \cup {Dst[e]}
  /\ direct' = [direct EXCEPT ![Dst[e]] = NoHops]
  /\ nextHop' = [nextHop EXCEPT ![Dst[e]] = NoHops]
  /\ IF Len(queue) < QSize
     THEN queue' = Append(queue, Dst[e]) /\ UNCHANGED dropped
     ELSE dropped' = dropped \cup {Dst[e]} /\ UNCHANGED queue
  /\ UNCHANGED dist

BfsReset(e) ==
  /\ BfsNext(e)
  /\ Dst[e] \notin visited
  /\ visited' = visited \cup {Dst[e]}
  /\ dist' = [dist EXCEPT ![Dst[e]] = Inf]
  /\ direct' = [direct EXCEPT ![Dst[e]] = NoHops]
  /\ nextHop' = [nextHop EXCEPT ![Dst[e]] = NoHops]
  /\ IF Len(queue) < QSize
     THEN queue' = Append(queue, Dst[e]) /\ UNCHANGED dropped
     ELSE dropped' = dropped \cup {Dst[e]} /\ UNCHANGED queue

BfsEnd ==
  /\ pc = "bfs" /\ todo = {} /\ queue = <<>>
  /\ pc' = "direct"
  /\ pairs' = PhysicalNbrs(root)
  /\ UNCHANGED <<cfgVars, root, bfsVars, cur, todo, dist, heap, direct, nextHop,
                 resVars, cmds>>

-----------------------------------------------------------------------------
(* spf_init, step 3: direct next hops of the root's physical neighbours.   *)

DirectNext(p) ==
  /\ pc = "direct" /\ pairs # {} /\ p = FirstPair(pairs)
  /\ pairs' = pairs \ {p}
  /\ UNCHANGED <<cfgVars, pc, root, bfsVars, cur, todo, dist, heap, resVars, cmds>>

\* direct_nh_min_metric: the metric of the interface in the first slot.
DirectMetric(ls) ==
  metric[IF IsEmptyList(ls["IPNH"]) THEN ls["LSPNH"][1][1] ELSE ls["IPNH"][1][1]]

StoreDirect(p, i) ==
  direct' = [direct EXCEPT ![Dst[p[2]]][TypeOfEdge(p[1])][i] = Hop(p)]

DirectFirst(p) ==
  /\ DirectNext(p)
  /\ IsAllEmpty(direct[Dst[p[2]]])
  /\ StoreDirect(p, 1)
  /\ UNCHANGED nextHop

\* A better adjacency: empty_nh_list drains next_hop, and slot 1 is overwritten.
DirectBetter(p) ==
  /\ DirectNext(p)
  /\ ~IsAllEmpty(direct[Dst[p[2]]])
  /\ metric[p[1]] < DirectMetric(direct[Dst[p[2]]])
  /\ nextHop' = [nextHop EXCEPT ![Dst[p[2]]] = NoHops]
  /\ StoreDirect(p, 1)

DirectEqual(p) ==
  /\ DirectNext(p)
  /\ ~IsAllEmpty(direct[Dst[p[2]]])
  /\ metric[p[1]] = DirectMetric(direct[Dst[p[2]]])
  /\ LET used == NhCount(direct[Dst[p[2]]][TypeOfEdge(p[1])])
     IN IF used = MaxNh THEN UNCHANGED direct ELSE StoreDirect(p, used + 1)
  /\ UNCHANGED nextHop

DirectWorse(p) ==
  /\ DirectNext(p)
  /\ ~IsAllEmpty(direct[Dst[p[2]]])
  /\ metric[p[1]] > DirectMetric(direct[Dst[p[2]]])
  /\ UNCHANGED <<direct, nextHop>>

\* step 4: the root is the first candidate.
DirectEnd ==
  /\ pc = "direct" /\ pairs = {}
  /\ pc' = "dijkstra"
  /\ heap' = {root}
  /\ UNCHANGED <<cfgVars, root, bfsVars, cur, todo, pairs, dist, direct, nextHop,
                 resVars, cmds>>

-----------------------------------------------------------------------------
(* run_dijkastra.                                                          *)

\* Mutant of OnTop: the comparison is the wrong way around.
OnTopReversed(n) == \A m \in heap : dist[n] >= dist[m]

\* spf_candidate_tree_compare_fn: smaller metric first, then pseudonodes.
OnTop(n) == \A m \in heap :
  \/ dist[n] < dist[m]
  \/ dist[n] = dist[m] /\ (n \in Pseudo \/ m \notin Pseudo)

\* Positions in result[root] of the record of n: singly_ll_search_by_key.
RecordsOf(n) == {i \in DOMAIN result[root] : result[root][i].node = n}

\* The record the popped node is written to: a router takes its own or a new
\* one, a pseudonode the one res was left at.
RecordFor(n) ==
  IF n \in Pseudo THEN res
  ELSE IF RecordsOf(n) # {} THEN CHOOSE i \in RecordsOf(n) : TRUE
  ELSE Len(result[root]) + 1

Record(n) == [node |-> n, metric |-> dist[n], nh |-> CopyLists(nextHop[n])]

\* Mutant of PopCandidate: the top stays in the tree.
PopCandidateKept(n) ==
  /\ pc = "dijkstra" /\ todo = {}
  /\ n \in heap /\ OnTop(n)
  /\ cur' = n
  /\ UNCHANGED <<cfgVars, root, bfsVars, pairs, dist, heap, direct, nextHop, cmds>>

PopCandidate(n) ==
  /\ pc = "dijkstra" /\ todo = {}
  /\ n \in heap /\ OnTop(n)
  /\ heap' = heap \ {n}
  /\ cur' = n
  /\ UNCHANGED <<cfgVars, root, bfsVars, pairs, dist, direct, nextHop, cmds>>

TakeCandidate(n) ==
  /\ PopCandidate(n)
  /\ RecordFor(n) # 0
  /\ todo' = UpEdges(n)
  /\ res' = RecordFor(n)
  /\ result' = [result EXCEPT ![root] =
       [i \in 1..(IF RecordFor(n) > Len(@) THEN RecordFor(n) ELSE Len(@)) |->
          IF i = RecordFor(n) THEN Record(n) ELSE @[i]]]
  /\ selfRes' = [selfRes EXCEPT ![n][root] = RecordFor(n)]
  /\ UNCHANGED pc

\* res is still NULL when the root itself is a pseudonode: res->node faults.
TakeCrash(n) ==
  /\ PopCandidate(n)
  /\ RecordFor(n) = 0
  /\ pc' = "crash"
  /\ UNCHANGED <<todo, resVars>>

Weight(e) == IF Src[e] \in overload THEN Inf ELSE metric[e]
NewDist(e) == dist[Src[e]] + Weight(e)

RelaxNext(e) ==
  /\ pc = "dijkstra" /\ todo # {} /\ e = MinNat(todo)
  /\ todo' = todo \ {e}
  /\ UNCHANGED <<cfgVars, pc, root, bfsVars, cur, pairs, direct, resVars, cmds>>

\* Not a two-way neighbour, or a longer path.
RelaxSkip(e) ==
  /\ RelaxNext(e)
  /\ ~IsTwoWay(cur, Dst[e]) \/ NewDist(e) > dist[Dst[e]]
  /\ UNCHANGED <<dist, heap, nextHop>>

\* Mutant of InheritedHops: the neighbours of a pseudonode inherit its next hops.
InheritedFromLan(e) ==
  LET n == Dst[e]
  IN IF cur = root /\ n \notin Pseudo
     THEN [NoHops EXCEPT ![TypeOfEdge(e)] = CopyList(direct[n][TypeOfEdge(e)])]
     ELSE CopyLists(nextHop[cur])

\* Next hops of the neighbour when the path through cur is shorter.
InheritedHops(e) ==
  LET n == Dst[e]
      fromLan == cur \in Pseudo /\ IsAllEmpty(nextHop[cur])
      own == [NoHops EXCEPT ![TypeOfEdge(e)] =
                CopyList(direct[n][TypeOfEdge(e)])]
  IN IF (cur = root /\ n \notin Pseudo) \/ fromLan THEN own
     ELSE IF ~IsAllEmpty(nextHop[cur]) THEN CopyLists(nextHop[cur])
     ELSE nextHop[n]

\* Mutant of RelaxBetter: a node whose distance shrinks does not become a
\* candidate.
RelaxNotInserted(e) ==
  /\ RelaxNext(e)
  /\ IsTwoWay(cur, Dst[e])
  /\ NewDist(e) < dist[Dst[e]]
  /\ nextHop' = [nextHop EXCEPT ![Dst[e]] = InheritedHops(e)]
  /\ dist' = [dist EXCEPT ![Dst[e]] =
                IF cur \in overload THEN Inf ELSE dist[cur] + metric[e]]
  /\ heap' = IF cur = root THEN heap \cup {Dst[e]} ELSE heap

RelaxBetter(e) ==
  /\ RelaxNext(e)
  /\ IsTwoWay(cur, Dst[e])
  /\ NewDist(e) < dist[Dst[e]]
  /\ nextHop' = [nextHop EXCEPT ![Dst[e]] = InheritedHops(e)]
  /\ dist' = [dist EXCEPT ![Dst[e]] =
                IF cur \in overload THEN Inf ELSE dist[cur] + metric[e]]
  /\ heap' = heap \cup {Dst[e]}

\* Mutant of MergedHops: an equal-cost way adds no next hop.
MergedHopsKept(e) == nextHop[Dst[e]]

\* Union of both lists, then the direct next hops when cur has none of the type.
MergedHops(e) ==
  LET n == Dst[e]
      t == TypeOfEdge(e)
      both == [u \in NhType |-> UnionList(nextHop[cur][u], nextHop[n][u])]
  IN IF IsEmptyList(nextHop[cur][t])
     THEN [both EXCEPT ![t] = UnionList(direct[n][t], both[t])]
     ELSE both

RelaxEqual(e) ==
  /\ RelaxNext(e)
  /\ IsTwoWay(cur, Dst[e])
  /\ NewDist(e) = dist[Dst[e]]
  /\ nextHop' = [nextHop EXCEPT ![Dst[e]] = MergedHops(e)]
  /\ heap' = heap \cup {Dst[e]}
  /\ UNCHANGED dist

Finish ==
  /\ pc = "dijkstra" /\ todo = {} /\ heap = {}
  /\ pc' = "done"
  /\ UNCHANGED <<cfgVars, root, bfsVars, cur, todo, pairs, dist, heap, direct,
                 nextHop, resVars, cmds>>

-----------------------------------------------------------------------------
Operator ==
  \/ \E e \in Edge : SetStatus(e) \/ \E m \in LinkMetrics : SetMetric(e, m)
  \/ \E n \in Node : SetOverload(n) \/ SpfStart(n)

SpfInit ==
  \/ BfsDeque \/ BfsEnd \/ DirectEnd
  \/ \E e \in todo : BfsSeen(e) \/ BfsReset(e)
  \/ \E p \in pairs : DirectFirst(p) \/ DirectBetter(p) \/ DirectEqual(p)
                      \/ DirectWorse(p)

Dijkstra ==
  \/ Finish
  \/ \E n \in heap : TakeCandidate(n) \/ TakeCrash(n)
  \/ \E e \in todo : RelaxSkip(e) \/ RelaxBetter(e) \/ RelaxEqual(e)

Next == Operator \/ SpfInit \/ Dijkstra

Spec == Init /\ [][Next]_vars

\* A run executes to completion: nothing else runs while it does.
FairSpec == Spec /\ WF_vars(SpfInit \/ Dijkstra)

-----------------------------------------------------------------------------
(* Properties.                                                             *)

RecordType == [node : Node, metric : 0..Inf, nh : [NhType -> NhList]]

\* Every variable keeps its type; a router has at most one record in a result
\* list, and only the router's run writes to its list.
TypeOK ==
  /\ metric \in [Edge -> Nat]
  /\ status \in [Edge -> BOOLEAN]
  /\ overload \subseteq Node
  /\ pc \in {"idle", "bfs", "direct", "dijkstra", "done", "crash"}
  /\ root \in Node
  /\ queue \in Seq(Node) /\ Len(queue) <= QSize
  /\ visited \subseteq Node /\ dropped \subseteq visited
  /\ cur \in Node
  /\ todo \subseteq UpEdges(cur)
  /\ pairs \subseteq Edge \X Edge
  /\ dist \in [Node -> 0..Inf]
  /\ heap \subseteq Node
  /\ direct \in [Node -> [NhType -> NhList]]
  /\ nextHop \in [Node -> [NhType -> NhList]]
  /\ result \in [Node -> Seq(RecordType)]
  /\ res \in 0..Len(result[root])
  /\ selfRes \in [Node -> [Node -> Nat]]
  /\ cmds \in 0..MaxCmds

\* Links a run may use: up, with an adjacency up in both directions.
Usable(e) == status[e] /\ IsTwoWay(Src[e], Dst[e])

\* One round of Bellman-Ford from s: the distances over one link more.
BellmanRound(d, s, usable) ==
  [[n \in Node |-> MinNat({d[n]} \cup {d[Src[e]] + Weight(e) :
                                         e \in {f \in usable : Dst[f] = n}})]
   EXCEPT ![s] = 0]

\* Reference distances from s over at most k links, capped at Inf; the links out
\* of an overloaded router cost Inf.
ShortestWithin(s) ==
  LET usable == {e \in Edge : Usable(e)}
      within[k \in 0..Cardinality(Node)] ==
        IF k = 0 THEN [n \in Node |-> IF n = s THEN 0 ELSE Inf]
        ELSE BellmanRound(within[k - 1], s, usable)
  IN within

ShortestFrom(s) == ShortestWithin(s)[Cardinality(Node)]

\* When a run ends whose queue refused no node, the metric of every node is its
\* shortest distance from the root in the network as it is now, whatever earlier
\* runs of other roots left in the same fields; a node the run never reset is
\* unreachable.
ShortestPaths ==
  pc = "done" /\ dropped = {} =>
    LET d == ShortestFrom(root)
    IN \A n \in Node : IF n \in visited THEN dist[n] = d[n] ELSE d[n] = Inf

\* The local form of ShortestPaths: when a run ends, no usable link shortens the
\* distance of the node it leads to, and the distance of every reached node is
\* the cost over one of its links, so no value of an earlier run survives.
BellmanEquations ==
  pc = "done" /\ dropped = {} =>
    /\ dist[root] = 0
    /\ \A e \in Edge : Usable(e) /\ Src[e] \in visited =>
         Dst[e] \in visited /\ dist[Dst[e]] <= NewDist(e)
    /\ \A n \in visited \ {root} : dist[n] < Inf =>
         \E e \in Edge : /\ Usable(e) /\ Src[e] \in visited /\ Dst[e] = n
                        /\ dist[n] = NewDist(e)

\* Reference next hops: pairs of a node and the hop of an adjacency of the root
\* (both its links usable) that starts a shortest path to the node.
FirstHops ==
  LET d == ShortestFrom(root)
      cost(q) == metric[q[1]] + (IF q[1] = q[2] THEN 0 ELSE metric[q[2]])
  IN UNION {LET rest == ShortestFrom(Dst[q[2]])
            IN {<<n, Hop(q)>> : n \in {m \in Node : cost(q) + rest[m] = d[m]}} :
              q \in {r \in PhysicalNbrs(root) : Usable(r[1]) /\ Usable(r[2])}}

AllHops(n) == UNION {Hops(nextHop[n][t]) : t \in NhType}
Reached == {n \in visited \ (Pseudo \cup {root}) : dist[n] < Inf}

HopsSound(first) == \A n \in Reached :
  AllHops(n) # {} /\ \A h \in AllHops(n) : <<n, h>> \in first
HopsComplete(first) == \A n \in Reached :
  LET all == {q[2] : q \in {r \in first : r[1] = n}}
  IN Cardinality(all) <= MaxNh => all \subseteq AllHops(n)

\* When a run ends, every next hop of a reachable router is an adjacency of the
\* root that starts a shortest path to it, and a reachable router has one.
NextHopsSound == pc = "done" => HopsSound(FirstHops)

\* In addition no equal-cost next hop is missing that has room in the array.
NextHopsExact ==
  pc = "done" => LET first == FirstHops IN HopsSound(first) /\ HopsComplete(first)

\* When a run ends whose queue refused no node, the root's result list has exactly
\* one record for every reachable router, with its distance and its next hops, and
\* no record that an earlier run of the root left.
ResultsExact ==
  pc = "done" /\ dropped = {} =>
    /\ \A n \in visited \ Pseudo : dist[n] < Inf =>
         \E i \in RecordsOf(n) :
           /\ RecordsOf(n) = {i}
           /\ result[root][i] = Record(n)
    /\ \A i \in DOMAIN result[root] :
         /\ result[root][i].node \in visited
         /\ result[root][i].metric = dist[result[root][i].node]

\* Records are added in the order of distance: build_routing_table relies on the
\* list being sorted (its head is the most distant router).
ResultsByDistance ==
  \A i, j \in DOMAIN result[root] :
    i < j => result[root][i].metric <= result[root][j].metric

\* The pointers of self_spf_result, from which DIST_X_Y reads the distance to a
\* pseudonode, point to a live record of the node that holds them.
SelfResultsLive ==
  \A n, r \in Node : selfRes[n][r] # 0 =>
    /\ selfRes[n][r] \in DOMAIN result[r]
    /\ result[r][selfRes[n][r]].node = n

\* What a run leaves is what the network says, from the distances to the sorted
\* records and the pointers to them, whatever earlier runs left in the shared
\* fields.
TablesExact ==
  ShortestPaths /\ ResultsExact /\ ResultsByDistance /\ SelfResultsLive

\* The metric of a router that has a record is final for the rest of the run.
SettledFinal ==
  [][\A n \in Node : pc = "dijkstra" /\ RecordsOf(n) # {} => dist'[n] = dist[n]]_vars

\* Step 2 of spf_init resets the entire level graph: every neighbour over an up
\* link of a reset node is reset too.
LevelGraphReset ==
  pc \in {"direct", "dijkstra", "done"} =>
    \A n \in visited : \A e \in UpEdges(n) : Dst[e] \in visited

\* A run of a router that starts ends: the candidate-tree loop empties the tree.
RunTerminates == pc = "bfs" /\ root \notin Pseudo ~> pc = "done"

=============================================================================
