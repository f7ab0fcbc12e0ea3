# Verification of the SPF computation project

The repository is a link-state (IS-IS style) routing simulator: one process
holds a whole network of routers, computes shortest paths for each of them,
builds their routing tables, and keeps them in memory of its own allocator. An
operator's commands drive it. The modules of this directory model its core:
the shortest-path run and the red-black tree it takes its candidates from, the
backup next hops and the segment lists computed from such runs, the route table
that is built from the results, the label switching and the segment routing on
top of it, the flooding that starts runs, and the allocator below all. TLC
checks the models on small instances; the shortest-path run, the queue of its
candidates, the route table, the tunnels, the allocator, flooding and its queue
are also proved correct for every network, every list of results and every size
with TLAPS.

## The system

There is one thread. A command is parsed, its handler changes the network and
floods an advertisement; flooding calls the computation of every router that
hears it, one after the other, and each runs to completion. What is hard is not
parallelism. It is *state that outlives a run*: all runs, of all roots, both
levels and all purposes (routes, backup paths, inverse topology), share the
distances and next hops stored in the nodes, the candidate tree, the result
lists, and the route lists and tables of two levels that keep versions of their
own.

| Part | Files | State | Operations |
|---|---|---|---|
| Instance and topology | instance.c/h, topo.c | nodes, 20 interface slots per node, edges with metric, level and status, prefixes, pseudonodes of LANs | create, attach and remove prefixes, two-way check, mark pseudonode |
| SPF computation | spfcomputation.c, spfutil.c, spf_candidate_tree.h | distance, next hops and direct next hops per node and level; candidate tree; results per root | spf_init, run_dijkastra, spf_computation, partial_spf_run, inverse_topology |
| Route table | routes.c, prefix.c | list of routes with version, level, next hops, linked prefixes | build, compare by preference, overwrite, merge, link, delete stale, install, leak |
| Routing information bases | data_plane.c | inet.0, inet.3, mpls.0: entries with next hops | install, delete, flush, lookup, ping and traceroute |
| Flooding | advert.c | distribution bits, queue | generate_lsp |
| LFA, remote LFA | rlfa.c | backup next hops, PQ nodes | inequalities per protected link, P, extended P and Q spaces |
| TI-LFA | tilfa.c, complete_spf_path.c | protected resources, post-convergence results, predecessors, segment lists | runs with a pruned link or node, segment lists |
| MPLS | mpls/ldp.c, mpls/rsvp.c | label bindings, stored LSPs | create and look up tunnels |
| Segment routing | igp_sr_ext.c, sr_tlv_api.c, spring_adjsid.c, conflct_res.c, srms.c, srte_dcm.c | label pool, SIDs, active bits of prefixes | set and unset SIDs, conflict resolution, springify routes |
| Memory manager | LinuxMemoryManager/mm.c, gluethread | pages, blocks, free lists | XCALLOC, XFREE |
| Containers | Queue, Stack, LinkedList, gluethread, Tree, BitOp | pointers, counts | insert, remove, search |
| Commands | spfdcm.c, spfclihandler.c, CommandParser | none of their own | one handler per command |
| Tracing | spftrace.c, Libtrace | trace bits | print |

How they interact: a handler changes the topology (metric, status, overload,
prefix) and calls generate_lsp; generate_lsp calls spf_computation or
partial_spf_run of each router; spf_computation calls spf_init and
run_dijkastra, then the backup computations, then spf_postprocessing, which
builds routes from the result list, deletes stale ones and installs the rest in
inet.0. LFA and TI-LFA call spf_computation again, for neighbours and on
modified topologies. Everything allocates through XCALLOC.

What makes each part correct:

- *SPF run*: whatever earlier runs left, distances are the shortest ones of the
  network as it is now, next hops are the first links of shortest paths, the
  result list has exactly the reachable routers in the order of distance, and
  the run ends.
- *Route table*: after a run the routes of its level are the best ones the
  reached routers advertise, no stale route is left, and a run of one level
  takes a route from the other only for a preferred one.
- *RIB*: the table says what the routes of both levels say.
- *Allocator*: blocks never overlap, the free list is exact, free neighbours are
  merged, empty pages are returned.
- *LFA*: a backup next hop does not loop back, does not use what it protects,
  and computing it does not disturb the routes.
- *TI-LFA, tunnels*: a segment list or label path leads to the destination and
  avoids the failed resource.
- *SID conflicts*: what survives has no conflict and does not depend on order.
- *Flooding*: every router of the level connected to the originator is told
  once.

PROJECT.json lists, line by line, what can go wrong in this code that a test
would hardly reach ("hazards"), and the property that watches it, or why none does.

## Modules

| Module | Models |
|---|---|
| SpfRun | spf_init, run_dijkastra and the commands between runs, on one level |
| SpfRunInvariant | the inductive invariant of a run |
| SpfRunProofs | that the invariant is inductive, that the distances of a run are those of the reference and its records exact |
| SequenceLemmas | facts about sequences and numbers that several proofs need |
| MCSpfRun | networks for TLC: square, LAN, ladder |
| CandidateConstants | the nodes and keys the two modules below are about |
| CandidateQueue | what a run expects of the candidate tree: a sorted sequence |
| CandidateQueueProofs | the theorems about CandidateQueue |
| RedBlackTree | the candidate tree: Tree/redblack.c behind its macros |
| MCRedBlackTree | seven nodes for TLC |
| BackupRun | full and partial runs with LFA and remote LFA, and the runs these start |
| BackupProofs | distances as greatest potentials, the inductive invariant of a full run and the theorems about its backups |
| MCBackupRun | a ring of five routers with a chord, for TLC |
| Topologies | every network topo.c builds, as data |
| TiLfa | compute_tilfa: post-convergence runs, P and Q nodes, segment lists |
| MCTiLfa | the networks of topo.c, rings of five with a chord, a wheel and a ring of twenty, for TLC |
| CircularQueue | Queue.c: the circular array |
| BoundedQueue | the FIFO queue it implements |
| Flooding | generate_lsp on the circular queue, and the commands that call it |
| FloodingProofs | the theorems about the queue, the inductive invariant of a flood and its theorems |
| MCFlooding | a LAN with a triangle behind it, for TLC |
| RouteTable | update_route, linking, stale deletion, flush and installation, two levels |
| RouteTableProofs | the inductive invariant of the route table and the theorems |
| MCRouteTable | prefixes and results for TLC |
| LabelSwitching | LDP and RSVP tunnels, inet.3 and mpls.0, forwarding |
| SidConflict | the two passes of conflct_res.c over a list of mappings |
| SegmentRouting | SIDs and label blocks, SPRING routes, ping |
| SegmentRoutingProofs | the inductive invariant of tunnels and SIDs and the theorems |
| MCSegmentRouting | four routers for TLC |
| MemMgr | xcalloc and xfree |
| MemMgrProofs | the theorems about MemMgr |
| MCMemMgr | sizes for TLC |

Four models are compositions. Flooding extends CircularQueue, so a flood and the
array it uses are one model. RedBlackTree is shown to implement CandidateQueue,
whose actions are the operations SpfRun performs on its set of candidates.
TiLfa takes its networks from Topologies. SegmentRouting extends LabelSwitching
and SidConflict: a run writes the LDP, RSVP and SPRING entries of one table, and
a ping goes over all of them.
The other components do not share variables: RouteTable takes the results of
runs from a constant, and BackupRun and LabelSwitching have a run as one step
that writes the shortest distances and first hops; both are what SpfRun
guarantees about a run (exact records in the order of distance). The allocator
serves all, and its contract (disjoint blocks of the right size) is what makes
records and routes values in the other models.

### SpfRun

`pc` follows spf_computation: `bfs` is step 2 of spf_init (the breadth-first
reset), `direct` step 3 (direct next hops of the root), `dijkstra` the loop of
run_dijkastra, `done` the return. Each iteration of a loop is an action:
BfsDeque, BfsSeen, BfsReset, BfsEnd; DirectFirst, DirectBetter, DirectEqual,
DirectWorse, DirectEnd; TakeCandidate, TakeCrash, RelaxSkip, RelaxBetter,
RelaxEqual, Finish. Between runs SetMetric, SetStatus, SetOverload and SpfStart
are the operator's commands. A node's fields (`dist`, `direct`, `nextHop`) are
shared by all roots as in node_t; `result` has one list per root; `res` is the
local variable of run_dijkastra, which keeps its value across iterations;
`dropped` records nodes that enqueue() refused (a history variable for the
guards of properties and the theorem, the code ignores the result). Next-hop
arrays have MaxNh slots that end at the first empty one, and union_nh_list2 is
modelled with its holes.

The reference the distances are compared with, ShortestFrom, is not a run: it is
Bellman-Ford in rounds, where round k has the distances over at most k links and
the last round as many links as there are nodes. TablesExact says of a run that
ends what its callers rely on: shortest distances, one current record of each
reached router, records in the order of distance, and live pointers to them.

Abstractions: one level (both levels run the same code on separate fields); the
candidate tree is a set and the order among equal keys is open (RedBlackTree has
the tree, and the order it gives); the sum of
distance and metric saturates where INFINITE_METRIC makes the code reject it;
TILFA pruning is off. A change of metric or overload floods an advertisement that
runs the routers it reaches; here the runs are commands of their own, in any
order and number, so every order of flooding is among the behaviours, and so is
a router that is not reached.

### BackupRun

`pc` follows compute_backup_routine: `runs` (the router and its neighbours run),
`weed` (destinations with independent next hops need no backup), `slot` (the
loop over the interfaces: SkipSlot or ComputeLfa), `pspace` and `filter` (remote
LFA: ExtendedPSpace, SelectPqNodes with the runs on the inverse topology), `built`
(the routes are built). FullRun and PartialRun start it. `results` has a list per
router; DIST_X_Y(X, Y) is `results[X].dist[Y]` whichever run wrote it. Backups
are kept in the destination and are shared by all routers, as in node_t, and
Flush clears those of the routers in the current list only. A variable the code
reads before it assigns it (all_next_hops_node_protecting, when node protection
is off) is the choice `junk`. The scan for P nodes keeps nbr_node from one router
to the next, as the code does, in the accumulator of ScanP. The slots left, the
PQ nodes and the backups of a destination are sets: what a loop does with them does
not depend on their order, except for the slots, which AtSlot takes by number, and
for the scan for P nodes, which goes over the list of results in ExtendedPSpace.

The properties compare backups with the shortest paths of the network itself
(Reference), not with the lists the code used: no path from an alternate visits
the router again, node protection avoids the next hops, no half of a tunnel uses
the link, a PQ node is in the Q space when metrics differ by direction, no
router's backups reach the routes of another, and independent next hops are
independent. They are about the routes a full run builds (FullBuilt). Where they
compare a way with the way back they ask that every edge in use have its other
direction in use (Paired), which LSPs break, and, where inverse runs have replaced
lists, that the metrics of the two directions agree (Symmetric).

Abstractions: one level; no pseudonode (a protected LAN makes runs rooted at a
pseudonode, which fault; SpfRun has them); an array of backups has no limit;
the kinds "downstream" and "link protecting" are one; TI-LFA is off; as in
SpfRun the runs that flooding starts are commands of their own.

### CandidateQueue and RedBlackTree

CandidateQueue is what run_dijkastra relies on: Start and Reset are spf_init,
Pop takes the first of a sorted sequence, Lower gives a node a smaller key and
places it before the nodes with an equal one. RedBlackTree has the same four actions
(InitOnly is the command that only initializes a run) on the pointers of
redblack.c: `tree` holds the root, both children, the parent and the colour of
every candiate_tree_node, the sentinel included; `onHeap` is is_node_on_heap, by
which the macros choose between insertion and refresh. Rotate, AddRound,
Delete with its repair, FindBeside, Get and GetNext are the functions of the file,
left and right being one case with a side. The key of a node changes while it is
in the tree, as in the code, so a refresh deletes a node from a tree that is no
longer sorted.

Abstractions: the recursive walks are functions; one key stands for what the
comparison reads; keys stored outside the nodes are not used by this program.

### Topologies and TiLfa

Topologies has one operator per build function of topo.c, with the links in the
order of creation, which is the order of the interface slots.

`pc` follows compute_tilfa: StartTilfa clears the lists of the root and runs the
network as it is; for every configured resource PostConvergence runs
spf_computation and the path computation of complete_spf_path.c with the link or
router pruned, SegmentLists handles one destination of the result list (its
paths backwards for Q and P, the labels, the record), NextResource goes on, and
EndTilfa returns. The labels of a list are written without a test of the index: a
list with more than eight is undefined behaviour, StackOverrun, which ends a
behaviour. UpdateConfig, SetMetric, SetStatus and SetOverload are the
operator's commands. `pre`, `post` and `preds` are the three result sets, `fwd`
and `rev` the results of remote routers on the network and on its inverse, which
the code fills in when they are first asked for. `segs` are the records in list
order, because a record is looked up by its destination and removed by its
resource.

The properties compare the segment lists with shortest paths computed afresh:
traffic that follows a list, on any of the equal-cost paths between its
segments, does not come back through the router, and with node protection avoids
the failed one; the cost of a list is the distance after convergence; where P
and Q nodes allow a list there is one; with link protection only, no list overruns
its arrays, and three labels are enough.

Abstractions: no pseudonode and no LSP; a first hop is an interface and adds no
label; positive metrics; the mpls.0 stack of a list, which is its inet.3 stack
with another last operation, is left out.

### RouteTable

One router, both levels. A full run takes any result list of the constant
`Results`, increments the version, and turns the result list into updates in the
order of build_routing_table: `todo` holds the updates that are left, each with
the position of its router in the result list, the most distant router is served
first and its prefixes in any order. Each update_route is an action
(UpdateIgnored, UpdateNew, UpdateRoute, UpdateCrash), then DeleteStale, FlushRib,
InstallRoute or InstallOther per route (with its cleaning of the table), or
InstallCrash where the assertion fails, and RunEnd. `count` is the number of nodes
routes_list thinks it has: UpdateNew counts, DeleteStale does not (the macro gets
the other list), and a new route is searched among as many nodes, so that after a
deletion UpdateCrash takes the place of UpdateNew. A partial run keeps the
results. Attach, Deattach and SetIgnoreAttached are
commands. `like` is like_prefix_list; a withdrawn prefix becomes `Freed` in it,
and reading it may have any outcome, the end of the process included.

Abstractions: backup and LSP next hops and segment routing are off; the order of
the prefixes of one router is fixed; the counter of inet.0 and
priority_routes_list, to which routes are added and from which they are deleted, but
which nothing walks, are left out; a route's next hops are a set of at most MaxNh; the level-2 attachment condition
is the set OtherArea.

### LabelSwitching, SegmentRouting and SidConflict

In LabelSwitching a tunnel is one action, LdpTunnel or RsvpTunnel: `Create` looks
for the egress, installs the next hop at the ingress, and `Way` follows the
routers as create_targeted_ldp_tunnel and create_targeted_rsvp_tunnel do, each
taking a label that is there or binding one towards its route. It can end at
the egress, be abandoned at a router whose next hop has no label (what was
installed stays), or go in a circle for ever (`hung`). `inet0`, `inet3`, `mpls0`
and `lspdb` are the tables; `Run` is a run of a set of routers with the flush,
which leaves the next hops of LDP and RSVP. SetStatus starts no run, as in the
code. `built` and `aborted` are history variables: the tunnels not reported as
failed, the ones abandoned.

SegmentRouting adds the label block (`start`, `range`), the SIDs in the order
of the lists, and what a run makes of them (`srRoutes`, `srInet3`, `srMpls`);
EnableSr, DisableSr, SetSid, UnsetSid, SetRange and SetStart are the commands,
with the assertions and the null pointers they run into (`stopped`). SrRun is
the run of one router or of all ("run instance sync"). `Ping` is the forwarding
of data_plane.c: SPRING, LDP, RSVP, then the route.

SidConflict has the two passes over the list of mappings, with the losers
marked while the pass goes on. The list itself is not built at this commit
(conflct_res.c:336), so the modelled one is made of the SIDs that are
configured, in every order.

Abstractions: one level, no pseudonode, no backups, one shortest path; labels of
LDP and RSVP are hashes taken as free of collisions; the strict next hop, which no
caller gives, and the array of used indices, which drives a warning, are left out;
a prefix is the set of routers it is attached to; SIDs have their default flags.

### CircularQueue and Flooding

`elem`, `front`, `rear` and `count` are the fields of Queue_t; `ret` is what the
last call returned, NULL being NoItem. Store, Refuse, Take and TakeNothing are
the outcomes of enqueue and deque, Reuse is reuse_q. BoundedQueue is what callers
rely on; `Items` is the sequence the array stands for, and every step of the
array is a step of BoundedQueue or, for reuse_q, none.

In Flooding a command changes the network and calls generate_lsp: `self` (the
generator is told, the queue is made), `begin` (bits are cleared, the generator
is queued), `walk` (NextRouter takes a router from the queue, SkipNeighbour and
TellNeighbour visit its physical neighbours in the order of the slots), EndFlood.
The queue actions of CircularQueue are conjuncts of these steps. Telling a router
calls lsp_distribution_routine, which runs it: `known` has the versions of the
topology and of the prefixes it last computed routes from. A full run is refused
by an overloaded router, a partial one rebuilds the routes on old results, or is
a full one when there are none. SetStatus floods nothing, as in the code. `told`,
`dropped` and `missed` are history variables for the properties.

Abstractions: one level (generate_lsp repeats the walk for the next level with
the queue it emptied); the metrics and prefixes are the versions `net` and `pre`;
an LSP is added once and not disabled.

### MemMgr

A block is a page and an offset, `blocks` the meta data at that place. `pages`
is the list of a family with its page indices, `freeList` its free blocks with
the size each had when it was inserted, because the list is sorted by a field
that could change later. AllocateFree and AllocateNewPage are xcalloc (with the
split), Free is xfree (with both unions, the return of an empty page and the
insertion of what is left).

Abstractions: one structure per block (every caller passes 1); sizes are small
numbers; among free blocks of equal size any may be the head; pages come from a
fixed set of addresses and mmap does not fail.

## Runs

| Run | Shows |
|---|---|
| SpfCommands | three commands on a square of routers, and a run on all its metrics 1 and 2: Inv (inductive), TablesExact (distances, results and the pointers to them, whatever earlier runs left), NextHopsExact, SettledFinal |
| SpfLan | LAN with pseudonode, parallel adjacency, RSVP LSP, overload, and a queue too small for some roots: Inv, ShortestPaths, NextHopsSound, and RunTerminates under fairness |
| TreeRuns | every sequence of initializations, insertions, changed keys and removals on seven nodes: Balanced, FlagsExact, QueriesExact, ImplementsQueue |
| BackupRuns | ring with a chord: every root and all metrics 1 and 3, metrics that differ by direction, and three commands: BackupsProtect, BackupsOfEachDestination |
| TilfaRuns | the networks of topo.c, rings with a chord, a wheel and a long ring, link, node or both protected: DetoursProtect, DetoursArePostConvergence, Covered, LinkStacksFit |
| RouteRuns | five commands over two levels: RoutesExact (of a run that ends), RibFollowsRoutes, OtherLevelKept, StopsExplained (why a run does not end) |
| MplsRuns | six commands about tunnels, or two of them and two about segment routing, on four routers: BuiltTunnelsDeliver, StopsExplained, PingsDeliver, ConflictsResolved |
| FloodRuns | three commands at any router of a LAN with a triangle behind it, a queue of two places: ToldExactly, ToldAreCurrent, Synchronised, ImplementsFifo, and FloodEnds under fairness |
| MemBlocks | every order of allocations and releases on three pages: LayoutExact, PageOnlyWhenNeeded |
| VEcmp | union_nh_list2 loses an equal-cost hop behind a hole |
| VStaleHead | the newest route, when stale, is freed and stays in the list |
| VPostResults | the run on the pruned network takes the pruned link |

Each run checks the type invariant of its module as well. A property that is a
conjunction names its parts (RoutesExact is RoutesAreBest,
AdvertisedKeysHaveRoutes and BestPrefixFirst), and each part is stated where it
is defined.

The V runs each check one statement of a comment or an assertion of the source,
which the code does not keep; PROJECT.json quotes it under "findings". The
passing runs use networks where these do not bite (no metric 0, no more hops
than fit) or properties that tell them apart (NextHopsSound without
completeness on the LAN, Covered where the first hop is on a shortest link).

Each property has a mutant: a definition of the model is replaced by a plausible
mistake (stated next to it as "Mutant of") and TLC must find the property
violated.

### Bounds

- Networks of four to six routers: enough for equal cost over different first
  hops, for a node that is improved after it became a candidate, for a LAN whose
  pseudonode competes with a direct link, and for a third router behind both.
  All metrics in {1, 2} give every order of two-hop and one-hop paths.
- Three commands (SpfCommands): one to change the network between two runs, so
  the second run meets what the first left. Five (RouteRuns): both levels run,
  something changes, both run again.
- Inf = 20 is above every path of these networks, and SetMetric can configure it.
- MaxNh = 3 (SpfRun) is not exceeded by the square; MaxNh = 2 (RouteTable) is
  exceeded, and the assertion of merge_route_primary_nexthops is then the
  action UpdateCrash. Five commands also reach a new route after a deletion.
- A ring of five routers with a chord is the smallest network with remote LFAs
  that are neither neighbours nor the far end of the link. Three commands let
  another router run, the network change, and the router run on stale lists.
  Inf = 100 is above every path, Wrap = 130 below twice Inf, as 2^32 is below
  twice 0xFE000000, so sums of unreachable distances wrap as in the code.
- Page = three addresses, two families, PageEnd = 16 and Meta = 2: structures of
  3 and 4 bytes leave remainders of 0, less than Meta, exactly Meta and more.
- Seven nodes in TreeRuns make trees of up to four levels, in which every case of the
  two repairs occurs, on both sides. Nodes 2 and 3 may get two keys, so a
  refresh moves a node past others, stays in place, and meets equal keys. Inf = 9
  is above every key.
- TilfaRuns has every network of topo.c without a pseudonode, the router it was
  built for with three commands and every other router with two (one resource, a
  run), and rings with all metrics 1, 3 and 9, which make P and Q nodes the same,
  adjacent, or farther apart. The two resources in three commands are merged into
  the records of one destination. On the wheel the hub is the way to every router
  of a rim of ten links, and protecting it takes a label for each; on the ring of
  twenty a detour of the protected link has up to eighteen links. StackLimit = 8 and
  MaxNh = 16 are the sizes of the code; Inf and Wrap are related as in BackupRun.
- MplsRuns has four routers, one egress, one link that fails: a tunnel can turn
  into the labels of an older one that follows another route. Six commands are
  two tunnels, a run and a change of link or protocol before and after each. The
  behaviours with segment routing start where all routers run it and have run
  (a state the commands lead to, which leaves the bound for what comes then); two
  commands about it and two others are enough to renumber a block or add
  conflicting SIDs and let some of the routers run. A block of size 9
  does not hold the second index. Inf = 20 is above every path. Both kinds of start are initial states of one run.
- QSize = 2 in FloodRuns: rb has three neighbours, so its floods overflow the
  queue and the others do not; six routers pass through two places, so both
  indices wrap in every flood. Three commands let a router be overloaded, miss a
  change, and come back.

CHECK_DEADLOCK is off where the bound on commands stops the model; the allocator
has no bound on operations and is checked for deadlock.

### Fairness

FairSpec asks for weak fairness of SpfInit \/ Dijkstra: a run that started
executes its next step. The program is single threaded and the run never waits,
so nothing else can happen until it returns; no fairness is assumed of commands.
For the same reason FairSpec of Flooding asks for weak fairness of Flood: a
call of generate_lsp runs to its end before the next command.

## Proofs

### The run

SpfRunProofs proves, from the assumption NetworkAssumption
alone (any finite set of nodes, any edges, metrics, LSPs, overloads and
pseudonodes):

- TypeCorrect: TypeOK, with the bounds of arrays and queue.
- Invariance: Inv is inductive.
- DistancesSolveBellman: after a run whose queue refused no node, the distances
  solve Bellman's equations for the current network.
- DistancesAreShortest: ShortestPaths, so these distances are the ones of the
  reference, and a node the run never reset is unreachable.
- TablesAreExact: TablesExact, on networks without a pseudonode.
- RecordsAreFinal: the distance of a recorded node does not change any more.
- SmallNetworkReset: if the nodes are at most QSize, the whole level graph is
  reset.

Why the invariant has these parts: WitnessInv keeps distances from being too
small (each comes over a usable link from a node that is at least that near),
RelaxedInv keeps them from being too large (each link of a processed node is
relaxed or still to be). Neither survives without ClosureInv, which says that a
link leading out of the reset nodes is still to be visited or starts at a
refused node, because a node that is not reset keeps the distance of an earlier
run; nor without FrontierInv, which orders recorded nodes, the current one and
the candidates, so that a link of metric 0 cannot lower a recorded distance.
ResetInv hands over from spf_init, FirstInv covers the first candidate, QueueInv
that the queue holds each node once, WithinInv that the loop meets only reset
nodes when none was refused.

Bellman's equations do not make distances the shortest ones: the links that bear
a node out may follow a circle of metric 0 that nothing connects to the root.
CutInv excludes it. Out of every set of reached nodes that holds the root and
not all of them, a link from a taken node leads to a reached one. The proof of
DistancesAreShortest then compares with the rounds of the reference: no round is
below the distances of the run (RoundsNotBelow, from RelaxedInv), and each round
gives one more node its distance (FoundGrows, from CutInv), so after as many
rounds as there are nodes all have theirs (AllFound). The rounds are a recursive
function over numbers; EachRound, an induction by least element over a set of
rounds, is what the induction theorem of the library would say and cannot be
cited for.

RecordInv keeps one record per node taken, exact unless the node is a candidate
again (equal cost over a link of metric 0), with the order and the pointers. It
is stated without pseudonodes, and TablesAreExact has that hypothesis, because
for a pseudonode run_dijkastra overwrites the record of the router taken before
it (spfcomputation.c:209, see Observations): a record of a LAN is not current.
TLC checks Inv in SpfCommands and SpfLan, TablesExact in SpfCommands.

### Backups

BackupProofs proves, from BackupConstants (finitely many routers and edges, any
metrics, LSPs and configuration, Inf below Wrap), TwinEdges (inv_edge is the edge
the other way, and that edge's inv_edge is it again) and InitialNetworks:

- BackupTypes: TypeOK, so a backup is an alternate with its neighbour or a tunnel
  without one.
- BackupsKeepTheirPromise: BackupsProtect. After a full run no backup leads back
  over the link it stands in for or, where it says so, to the routers behind it.
- BackupsWhereTheyBelong: BackupsOfEachDestination.

The properties add distances up, so the proof starts with what a distance is.
Distances are rounds of longer and longer paths, which only fall; ChainFalls,
SettledGrows and AllSettled show that after as many rounds as there are routers
nothing falls any more, by the same argument as for the run: a round that settles
no further router is the last. What remains is a potential (at most Inf, at most 0 at the
source, and no edge rises by more than its cost), and Greatest shows
that no potential lies above it. Every fact about paths is then the choice of a
potential: d[y] - d[x] gives the triangle inequality (Triangle), 0 at an overloaded
router and Inf elsewhere that it leads nowhere (Overloaded), and the distance to the
far router less the way back that the inverse topology has the distances of
the ways back (WayBack), which is where Paired is needed: on a network with one-way
edges that is false.

The sums the code compares are unsigned int. BelowPlus is all that is needed of
them: a sum that wraps is only smaller, so an inequality that holds in the program
holds of the exact sum, and a wrap may lose a backup but never admits a wrong one.

BackupInv then says of each recorded backup which inequality it was admitted by, not
of the lists the code read but of the distances of the network (Good). It has to
be said so because the lists change: SelectPqNodes replaces those of both ends by
those of the inverse topology while backups of earlier slots stay recorded.
ResultsInv says which lists are still those of the network when they are read (the
root's and its neighbours', unless remote LFA meets metrics that differ by
direction), PqInv hands the first half of a tunnel from the extended P space to the
selection, FlushedInv that a full run leaves no backup of earlier runs where
it computes new ones, which is why another router's never enter the routes, and
NoNeedInv which destinations go without.
TunnelsAvoidLink then needs that the protected link leaves the root:
the loop meets the incoming edges too, but their far end is the root itself, and
TunnelOutOfRoot shows that the test of the Q space admits no PQ node for them.

### The route table

RouteTableProofs proves, for any prefixes, result lists, commands and number of
places for next hops (RouteConstants, ExternalMetrics):

- RouteInvariant: RouteInv is inductive.
- RouteTypes, RoutesAreExact, RibFollows, OtherLevelStays, StopsAreExplained: what
  RouteRuns checks, TypeOK, RoutesExact, RibFollowsRoutes, OtherLevelKept and
  StopsExplained.

RouteConstants says what prefix_t and a result list are: a router is in a list
once, with a distance and no more hops than places, a prefix has a metric below
INFINITE_METRIC and flags. ExternalMetrics says that a prefix with an external
metric has the external bit: the one command that attaches a prefix sets that bit
(spfdcm.c:684), leaking adds the down bit (prefix.c:317, 364), and nothing sets
the bit of the metric. Without it the prefix would have no preference, and
update_route would leave a route to which nothing compares.

The properties speak of a run that has ended, the invariant of one in progress.
`Done` are the updates for a key that are worked off, `Built` says what they made
of its route: a route of the other level is preferred to all of them, a current
one of this level Stands for the best (equal to one, none better, the hops of all
equal ones), a route of the last version has met none. This goes through update
by update because the preferences of the two levels never coincide (PrefFacts): a
route changes its level only for a better preference. FirstIsBest is the part
about the linked prefixes, which other prefixes may precede only if they are
better, and AllLinksOK the one that keeps those of the other level from doing
that. RibOK splits RibFollowsRoutes at `next`: routes installed so far are in the
table, those of the other level are untouched, and next hops without a route
belong to the level that is about to be flushed. OtherLevelStays follows action
by action; only UpdateNew, UpdateRoute and DeleteStale change routes.

RoutesExact and RibFollowsRoutes are about runs that end. StopsExplained is about
the others: the process stops only because the newest route is stale, a new route
follows a deletion, a prefix has no preference, equally good prefixes have too many
next hops, or a linked prefix is dead. RouteRuns reaches all but the third, which
needs the flags ExternalMetrics excludes. StopInv adds to RouteInv that
only the newest route can be left stale, and what the last reason needs: while only
one level has run, a route this run has touched links nothing dead, and one it has
not touched drops its links when it is overwritten.

### Tunnels and segment routing

SegmentRoutingProofs proves, for any routers, links and metrics above 0, any
egresses, links that fail and protocols that are switched, and any SIDs and blocks
(LabelConstants, SrConstants, AddressConstants):

- SrTyped: SrTypeOK, with TypeOK of LabelSwitching: labels are popped at the egress
  only, and a stored LSP leaves its router where inet.3 does.
- TunnelsDeliver: BuiltTunnelsDeliver, over labels that tunnels of other networks
  left.
- StopsForAReason: StopsExplained, for a creation that never ends as for a failed
  assertion.
- PingsArrive: PingsDeliver, over any mixture of SPRING labels, tunnels and routes,
  on networks in which every router reaches the egresses (Connected). Without that a
  ping to a router out of reach does not arrive; the network of MplsRuns is connected.
- SurvivorsAgree, about the comparison of SidConflict: of two mappings in conflict
  the same one loses whichever comes first, the mappings that are to survive have no
  conflict, and no index is lost that is the lowest of a prefix.
- ResolutionIsOrderless: ConflictsResolved. The loops leave exactly these mappings,
  whatever SIDs are configured and in every order of the list.

What labels do is said without paths: `Carries(next, e, n)` holds when n is in every
set of routers that holds e and each router next leads into the set from. More
labels carry as far as fewer (CarriedStill), so a tunnel that leads to its egress
does so whatever is added, and BuiltLead is inductive. The models walk a bounded
number of steps. That the bound is enough is no induction over ways but a
count (Circle): a way of as many steps as there are routers is at some router
twice, the routers from there on are a set the labels do not lead out of, and the
egress is not in it. Hence a packet that is carried to the egress arrives
(LabelsForward), and a creation that neither arrives nor is abandoned has a circle of
labels (WayResult).

LabelInv is inductive. LabelsLinked keeps labels on links that exist, which forwarding
asks for; LabelsComplete says that while no tunnel was abandoned every label, not
only those of tunnels that were reported, carries to its egress. That is what
explains a hang: no old label can be in the circle, all of its labels are routes
of now, and current routes lead to nearer routers (NoCircle). This is where the
distances matter: DistanceFacts proves that the rounds they are computed in end
with a solution of Bellman's equations, because each round settles one more router
(SettledGrows). Metrics are above 0 here (LabelConstants): over a link of metric 0
the choice among equal routes may turn back. AssertFacts opens the assertions on
the way of a run.

PingsArrive needs one more part of the invariant: TunnelsFit, that a router has no
tunnel to itself, and that while nothing was abandoned or hangs every tunnel leads to
its egress, the unreported ones included. The rest is about one state. When all
routers are synchronised and no two prefixes share an index, all SIDs of the index of
a loopback address are the same SID (SidShared), whichever of them owns the label
(SidOwner), so every router's entry of mpls.0 sends the packet along the route with
the next router's label (MplsEntry) and a SPRING route of inet.3 starts such a way
(Inet3Entry). A packet on labels or without goes along routes then, and a walk along
routes that is as long as there are routers ends at the egress (RoutesEnd), by the
count that was made for tunnels.

ResolutionIsOrderless looks at one pass at a time. Mapping j beats i when they are in
conflict and i loses; a pass is Decided when of two in conflict exactly one loses and
whoever is beaten is beaten by one that nobody beats. Then the loops leave exactly the
unbeaten ones, although losers are out at once and meet nobody any more (Met, kept by
MeetKeeps): the one that decides is never out, so it is met in time. PrefixPass and
SidPass show that both passes are decided, the second only because it starts from
what the first leaves.

### The allocator

MemMgrProofs proves, for any families, structure sizes, pages and sizes of a page
and of meta data (MemConstants: the sizes are positive, and a page has room for
one structure of each family):

- MemTypes and MemLayout: TypeOK and LayoutExact, which together are inductive
  (MemInv).
- PagesWhenNeeded: PageOnlyWhenNeeded, an action property.

The lemmas are about chains of blocks whatever page they are on: what the two
halves of a split block, the union of two blocks and the end of a page do to a
chain (`Chain`) and to the free list that belongs to it. The invariant needs no
strengthening because LayoutExact says all there is: that the blocks of a page
are linked in the order of their addresses without overlap, that the free list is
exactly the free blocks, that no two neighbours are free, that pages are listed in order
of their index, each of one family, and none is empty. PagesWhenNeeded rests on
the order of the free list: its head is a largest block, by the size it had when
it was inserted, and a free block keeps that size (FreeListExact).

### Queues and flooding

FloodingProofs proves of the queue, for every QSize above 0 and any items
(QueueConstants):

- SlotsAlwaysExact: the items are in the slots from front to rear, and no other
  slot holds one. QueueType is the only strengthening it needs; the lemmas about
  At say that counting from front reaches every slot once.
- ArrayIsFifo: QueueSpec implements BoundedQueue under the mapping `Items`.

FloodingProofs proves of floods, for every network (FloodConstants: a pseudonode is not
linked to another), queue size and number of commands:

- FloodTypes, TellsExactly (with its halves RunsOnce and ReachesTheLevel),
  LeavesCurrent, RoutersAgree: the invariants that FloodRuns checks.
- FloodUsesFifo: every step of a flood is a step of the queue's specification,
  so what is proved about the array holds in it. The one obligation is that
  the queue is empty where it is made anew or reused.

Why FloodInv has these parts: WalkInv says that a told router is still queued,
was refused, or has only neighbours that are told or still to be visited; with an
empty queue and no refusal the bits are closed under neighbours and hence contain
Reach(gen), defined as what every closed set contains, so no induction over paths
is needed. ReachInv is the other inclusion. AgreeInv follows what each router
computes from the advertisement, told or not yet (Run changes nothing when it is
applied twice), because during a flood the routers do not agree.

CandidateQueueProofs proves, for every set of nodes and keys (QueueConstants):

- QueueInvariant: the candidates are sorted, none is there twice, and every
  reached node that is no candidate was taken and is not farther than the node
  in work.
- QueueTakenFinal: the key of a node that was taken does not change any more.

The invariant is inductive as it stands: NearestFirst lets the first candidate
bound all others when it is taken, NoRepeats makes it absent afterwards, TakenNear
keeps Lower, whose new key is not below the node in work, from touching a taken
node. With ImplementsQueue, which TLC checks, these hold of the tree; that the
tree implements the queue is not proved, because the repairs are loops over
pointers and their proof is an induction over paths.

### How the proofs are written

A lemma with a long conclusion states it as one named predicate (UpdateOK, Chain,
Stands): it is applied as a whole and opened in the next step. SequenceLemmas has
the facts about concatenation, InsertAt, RemoveAt and least and greatest numbers
that the proofs share.

### Only model-checked

- Liveness: RunTerminates and FloodEnds. Fairness and ENABLED are outside the
  prover.
- The next hops of a run. NextHopsExact is false in general (VEcmp: a hop is lost
  behind a hole of the array), and so is NextHopsSound (parallel links of metrics
  2, 2 and 1 leave a wrong direct hop, see Observations); both hold on the networks
  of the runs.
- TablesExact on a LAN, for the reason above.
- The tree: that it is balanced, that its flags are right and that it implements the queue.
  Its repairs are loops over pointers, which need an induction over paths.
- TiLfa: its types and its properties, which compare paths traced through networks
  with something removed, the tracing being a recursion over predecessors.

## Observations

Met while modelling; no run states them.

- The result of enqueue() is ignored in spf_init (spfcomputation.c:546) and in
  generate_lsp (advert.c:155). With Q_DEFAULT_SIZE = 50 a router of 52 neighbours
  is enough: in a run the neighbours of a refused router keep the distances of
  the last run, although "step 2 : Initialize the entire level graph"
  (spfcomputation.c:523); in a flood they are not told. The properties
  ShortestPaths, ResultsExact and ToldExactly say so in their guard, and
  SmallNetworkReset proves LevelGraphReset of networks not larger than the queue.
- A flood follows links in one direction: a router that is reached only over a
  one-way link or an LSP is told, and its own changes may not come back.

- For a better parallel adjacency spf_init empties next_hop and not
  direct_next_hop (spfcomputation.c:592): with parallel links of metrics 2, 2, 1
  a link of metric 2 stays a next hop.
- Direct next hops are computed without the two-way check (spfcomputation.c:566):
  a LAN member whose own interface is down stays a direct next hop.
- all_next_hops_node_protecting (rlfa.c:1530) is read without a value when node
  protection is off: an alternate of a link-protected interface may be recorded
  as node protecting (NodeKindAvoidsNextHops is about links with node protection).
- An overloaded far end of the link has no records, so every distance from it is
  INFINITE_METRIC: it passes the test of the Q space and for node protection, and
  a tunnel may lead to it over the failed link (TunnelsAvoidLink and
  PqNodesInQSpace, parts of BackupsProtect, exclude it).
- With only link protection there is no remote LFA: the tests for a P node stand
  inside the condition for node protection (rlfa.c:635).
- The scan for P nodes skips the router at which the scan before it ended
  (nbr_node, rlfa.c:582).
- The alternate that is skipped is the protected link, by pointer (rlfa.c:1580):
  an LSP whose tunnel leaves over that link is accepted.
- The interfaces of compute_backup_routine include the incoming ones, with the
  protection the neighbour configured (spfcomputation.c:684).
- no-eligible-backup is described as excluding the interface from being an
  alternate (spfdcm.c:1769); it stops the interface from being protected
  (spfcomputation.c:688).
- One IP and one LSP next hop count as independent without being compared, and
  two IP next hops and one LSP do not (routes.c:924-965).
- A partial run flushes the backups of the routers in its old result list only;
  after an interface was enabled another router's backups can enter its routes, and
  what its comparisons read is older than the network (the properties are about
  full runs).
- With an LSP, or parallel links each up in one direction only, the way back may be
  longer than the way there; the tests of the second half of a tunnel read the distance
  in the direction they have a list for (rlfa.c:989, 1066) and may admit a tunnel
  that crosses the link (Paired, in TunnelsAvoidLink, NodeKindAvoidsNextHops and
  PqNodesInQSpace).
- An overloaded destination is not seen to be on the way to itself: two next hops of
  which one is the destination count as independent (UnprotectedSurvives).
- assert(res) in link_prefix_to_route (routes.c:531) fails when a linked prefix
  of the other level belongs to a router that is no longer reached.
- like_prefix_list keeps pointers to withdrawn prefixes.
- After a stale route was deleted routes_list counts one node too many (routes.c:322
  decrements the other list's count), and the next prefix of a new key makes
  singly_ll_get_node_by_data_ptr read the data of NULL (LinkedListApi.c:213): a
  router that loses a prefix and later learns one stops (NewAfterDeletion).
- A prefix of unknown preference is meant to be ignored (prefix.c:238) and still
  creates a route when the key has none.
- link_prefix_to_route orders external prefixes by the distance of their router
  only.
- When the preferred route of a level goes away, the other level's prefix has no
  route until that level runs again.
- The union of free blocks does not add their sizes; the bytes come back when
  the block is allocated and freed again.
- inverse runs leave their results for the next partial run (spfdcm.c:988).
- A router whose twenty interface slots are used drops a further interface
  without an error (instance.c:290).
- Enabling or disabling an interface starts no run: the flooding is compiled out
  (spfclihandler.c:162-183), so the routes follow at the next run the operator
  asks for.

The run and the tables:

- A link of metric 0 back to the router in work makes equal cost, which inserts a
  node again that was taken already (spfcomputation.c:402), and the loop does not
  end.
- For a pseudonode run_dijkastra creates no record, and writes its node and metric
  into the one `res` still points to (spfcomputation.c:209), the record of the
  router taken before it.
- "It has impact on performance, but not on output" (spfcomputation.c:361) says
  of moving a candidate whose distance changed that it could be left out. Left
  out, the next candidate need not be the nearest (ImplementsQueue is violated).
- With remote LFA, Compute_and_Store_Forward_SPF runs while the topology is inverse
  (rlfa.c:949), and the routes are then built from those results.
- rt_un_entry of a withdrawn route is never freed: the test reads the entry's own
  link instead of its list of next hops (data_plane.c:203), so the entry stays,
  empty.
- mm_get_new_vm_page_from_kernel may return without a page; its result is used
  unseen (mm.c:202).
- redblack.h:71 promises of getnext a node at least as large as the key; when
  equal keys are allowed and there is none, redblack.c:863 gives the next smaller
  one.

TI-LFA:

- The Q test asks for the reverse distances with their ends swapped
  (tilfa.c:1028), so with metrics that differ by direction, or an overloaded
  router, it accepts and refuses the wrong nodes (DetoursProtect is about
  symmetric networks).
- When the lists of two resources for one destination fill the array, the result
  is copied over the second one, which is thrown away (tilfa.c:1752, 1788).
- The second search (tilfa.c:2454 to 2590) is called by nothing.
- Where a protected router is the short way between all routers of the detour, each
  of its links takes an adjacency label, and more than eight are written past the
  arrays of the list (tilfa.c:1329 to 1349, 1617): the step StackOverrun. With link
  protection and the same metrics both ways it cannot happen (LinkStacksFit).
- A list for a neighbour behind a link that is not the shortest one to it is
  missing: the run has lost its direct next hop (Covered leaves it out).

Tunnels:

- The creation of an LDP tunnel returns 0 and that of an RSVP one -1 when the
  egress has its label already (rsvp.c:521): the second RSVP LSP to a router is
  reported as failed and works.
- The handler of an RSVP LSP stores it whatever was reported
  (spfclihandler.c:1192-1253); printing one that failed reads an interface it does
  not have, and the error message for an LSP that was not found reads its name
  from it (spfclihandler.c:512).
- is_inet_3_un_nh_t_equal compares sizeof(internal_un_nh_t) bytes from a member
  (data_plane.c:156), past its end.
- An abandoned tunnel is used by pings and by later tunnels, which may then go in a
  circle: StopsExplained and PingsDeliver name it.
- A ping over an emptied entry of inet.0 reports "Trace Complete" at whichever
  router it has reached.

Segment routing:

- Giving a second SID to a prefix writes through an unassigned pointer
  (sr_tlv_api.c:240), disabling where nothing is enabled frees a null block.
- After the block or a SID changed, the advice 'run - "run instance sync"'
  (spfclihandler.c:962) leads to the deletion of the old SPRING route together with
  the list of prefixes it shares with the IGP route (routes.c:256, 1484).
- A ping from a direct neighbour of the originator starts with no label, which
  transient_mpls_pfe_engine asserts (data_plane.c:1470).
- The SID of a subnet set at one end only makes a third router's run assert that the
  other end has it (igp_sr_ext.c:308).
- While some routers do not run segment routing, labels end at them and the
  packet is lost.
- The bit array addresses bit 8 - i % 8 of a byte, so the marks of multiples of 8
  are not kept, and the range of a block can be configured beyond the array.
- The list of prefixes whose conflicts are resolved is a null pointer
  (conflct_res.c:336), which both show commands (spfclihandler.c:1054, 1076) read.

## Plan

Done, in this order: the run (SpfRun) and its proof, the routes (RouteTable), the
allocator (MemMgr), the backup computation (BackupRun), flooding on the circular
queue (Flooding, CircularQueue) and its proofs; then TI-LFA on the topologies of
topo.c, the candidate tree and the queue it implements, the tunnels, and segment
routing with the resolution of conflicts; then the proofs about the routes
(RouteTableProofs), about the allocator (MemMgrProofs), of the shortest distances
(SpfRunProofs), about tunnels, segment routing and ping (SegmentRoutingProofs) and
about backups (BackupProofs).
Left, in this order:

1. TiLfa: its types, and that a segment list avoids what it protects against.
2. The tree: that insertion and removal keep the search order and the colours.
3. Backups over SPRING labels (springified remote LFAs), protected LANs.

The number of runs is kept small: a run that shows a disagreement makes place
when a new component needs one, and stays as an observation.

## Not modelled

- Command parsing (a library of its own), tracing and every kind of printing; the
  registration of memory families, which runs once.
- Flexible algorithm, adjacency SIDs, mapping server, policies and SR-TE:
  declarations, stubs and configuration nothing reads.
- The array of used indices: it drives one warning.
- Protected LANs in BackupRun and TiLfa: the code starts a run rooted at a
  pseudonode there, which faults.
- Leaking of prefixes between levels, springified remote LFAs, tunnels with a strict
  next hop, which no caller gives.
- The pointers of the linked lists, the glue thread and the stack: they are
  sequences and sets in the models that use them.
