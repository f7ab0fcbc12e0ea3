-------------------------- MODULE SpfRunInvariant --------------------------
(***************************************************************************)
(* The inductive invariant behind the theorems of SpfRunProofs.            *)
(***************************************************************************)
EXTENDS SpfRun

InQueue(n) == \E i \in 1..Len(queue) : queue[i] = n

\* The queue holds distinct nodes, all of them reset.
QueueInv ==
  /\ \A i \in 1..Len(queue) : queue[i] \in visited
  /\ \A i, j \in 1..Len(queue) : queue[i] = queue[j] => i = j

\* The neighbour loop runs only inside spf_init and run_dijkastra.
TodoInv == todo # {} => pc \in {"bfs", "dijkstra"}

\* A link that leads out of the reset nodes is still to be visited, unless the
\* node it starts at was refused by the queue.
ClosureInv ==
  pc \in {"bfs", "direct", "dijkstra", "done"} =>
    /\ root \in visited
    /\ \A e \in Edge : status[e] /\ Src[e] \in visited =>
         \/ Dst[e] \in visited
         \/ Src[e] \in dropped
         \/ pc = "bfs" /\ (InQueue(Src[e]) \/ e \in todo)

\* What spf_init leaves behind.
ResetInv ==
  pc \in {"bfs", "direct"} =>
    /\ dist[root] = 0
    /\ \A n \in visited \ {root} : dist[n] = Inf
    /\ heap = {}
    /\ result[root] = <<>>

\* Distances are never too small: each comes over a link.
WitnessInv ==
  pc \in {"dijkstra", "done"} =>
    /\ dist[root] = 0
    /\ \A n \in visited \ {root} : dist[n] < Inf =>
         \E e \in Edge : Usable(e) /\ Dst[e] = n /\ dist[n] >= NewDist(e)

\* Distances are never too large behind a node that was processed.
RelaxedInv ==
  pc \in {"dijkstra", "done"} =>
    \A e \in Edge : Usable(e) /\ Src[e] \in visited =>
      \/ Src[e] \in heap
      \/ e \in todo
      \/ dist[Dst[e]] <= NewDist(e)

\* Once the root was taken, cur separates the recorded nodes from the heap.
FrontierInv ==
  pc = "dijkstra" /\ result[root] # <<>> =>
    /\ \A n \in heap : dist[cur] <= dist[n]
    /\ \A i \in DOMAIN result[root] : dist[result[root][i].node] <= dist[cur]

\* A run that has no record yet has reached only the root.
FirstInv ==
  pc = "dijkstra" /\ result[root] = <<>> =>
    /\ todo = {} /\ heap = {root}
    /\ \A n \in visited \ {root} : dist[n] = Inf

DoneInv == pc = "done" => todo = {} /\ heap = {}

\* When the queue refused no node the loop meets only reset nodes.
WithinInv ==
  pc \in {"dijkstra", "done"} /\ dropped = {} =>
    /\ heap \subseteq visited
    /\ result[root] # <<>> => cur \in visited
    /\ \A i \in DOMAIN result[root] : result[root][i].node \in visited

\* e starts at a node that was taken, and is the last link of a way of the length
\* of the distance of the node it leads to, or less.
Leads(e) ==
  /\ Usable(e)
  /\ dist[Src[e]] <= dist[cur]
  /\ NewDist(e) <= dist[Dst[e]]

\* The nodes the run has reached so far.
Near == {n \in visited : dist[n] < Inf}

\* Distances are never too small, globally: out of every set of reached nodes that
\* holds the root and not all of them, a link leads to a reached node.  (The
\* witnesses of WitnessInv could follow a circle of links of metric 0.)
CutInv ==
  pc \in {"dijkstra", "done"} /\ dropped = {} =>
    LET leading == {e \in Edge : Leads(e)}
    IN \A A \in SUBSET Near : root \in A /\ A # Near =>
         \E e \in leading : Src[e] \in A /\ Dst[e] \in Near \ A

\* A run has one record of each node it took, which is exact unless the node is a
\* candidate again.
RecordsCurrent ==
  pc \in {"dijkstra", "done"} =>
    /\ \A n \in visited : dist[n] < Inf => n \in heap \/ RecordsOf(n) # {}
    /\ \A i, j \in DOMAIN result[root] :
         result[root][i].node = result[root][j].node => i = j
    /\ \A i \in DOMAIN result[root] :
         LET n == result[root][i].node
         IN /\ result[root][i].metric = dist[n]
            /\ n \in heap \/ result[root][i] = Record(n)

\* The record of a pseudonode replaces that of a router.
RecordInv ==
  Pseudo = {} => RecordsCurrent /\ ResultsByDistance /\ SelfResultsLive

Inv ==
  /\ TypeOK /\ QueueInv /\ TodoInv /\ ClosureInv /\ ResetInv
  /\ WitnessInv /\ RelaxedInv /\ FrontierInv /\ FirstInv /\ DoneInv
  /\ WithinInv /\ CutInv /\ RecordInv
=============================================================================
