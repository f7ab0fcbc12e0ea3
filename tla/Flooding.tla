------------------------------ MODULE Flooding ------------------------------
(***************************************************************************)
(* advert.c: generate_lsp tells every router of a level about a change,    *)
(* one at a time: it walks the physical neighbours breadth first with the  *)
(* queue of Queue.c, and calls lsp_distribution_routine, which runs the    *)
(* router it tells.  A router that enqueue() refuses is told and not       *)
(* walked from.  The commands are those of spfdcm.c that flood, and the    *)
(* change of an interface, whose flooding is compiled out.                 *)
(*                                                                         *)
(* What a router computed is the pair of versions it computed it from: of  *)
(* the topology and of the prefixes.  Version 0 is no run yet.             *)
(***************************************************************************)
EXTENDS CircularQueue

CONSTANTS
  Edge,        \* the directed edges of the level, natural numbers
  Src, Dst,    \* edge->from.node and edge->to.node
  Pseudo,      \* nodes with node_type[level] = PSEUDONODE
  Lsp,         \* edges that a command adds as forwarding adjacencies
  MaxCmds      \* bound on the operator's commands in a behaviour

Node == Item
Router == Node \ Pseudo

ASSUME FloodConstants ==
  /\ Edge \subseteq Nat
  /\ Src \in [Edge -> Node]
  /\ Dst \in [Edge -> Node]
  /\ Pseudo \subseteq Node /\ Router # {}
  /\ \A e \in Edge : Src[e] \in Pseudo => Dst[e] \notin Pseudo
  /\ Lsp \subseteq {e \in Edge : Src[e] \in Router /\ Dst[e] \in Router}
  /\ MaxCmds \in Nat

VARIABLES
  status,    \* edge->status
  overload,  \* routers with OVERLOAD_BIT set
  net, pre,  \* versions of the topology and of the prefixes
  known,     \* the versions a router last computed routes from
  pc,        \* where generate_lsp is
  gen,       \* lsp_generator
  kind,      \* advert_id: "full" for TLV2 and OVERLOAD, "partial" for TLV128
  bit,       \* nodes with lsp_distribution_bit set
  pairs,     \* adjacencies of the dequeued node still to be visited
  told,      \* how often fn_ptr was called for a node in this flood, 0..2
  dropped,   \* nodes enqueue() refused in this flood (its result is ignored)
  missed,    \* routers some flood did not tell
  cmds       \* commands the operator may still give

netVars == <<status, overload, net, pre>>
floodVars == <<gen, kind>>
floodingVars == <<queueVars, netVars, known, pc, floodVars, bit, pairs, told,
                  dropped, missed, cmds>>

-----------------------------------------------------------------------------
\* ITERATE_NODE_PHYSICAL_NBRS
UpEdges(n) == {e \in Edge : Src[e] = n /\ status[e]}

PhysicalNbrs(n) ==
  {<<e, e>> : e \in {f \in UpEdges(n) : Dst[f] \notin Pseudo}} \cup
  UNION {{<<e, f>> : f \in {g \in UpEdges(Dst[e]) : Dst[g] # n}} :
           e \in {f \in UpEdges(n) : Dst[f] \in Pseudo}}

\* The pair the two nested slot loops come to first.
IsFirst(p) == \A q \in pairs : p[1] < q[1] \/ (p[1] = q[1] /\ p[2] <= q[2])

Nbr(p) == Dst[p[2]]

-----------------------------------------------------------------------------
\* Commands.  Each changes the network and calls generate_lsp.

Init ==
  /\ QueueInit
  /\ status = [e \in Edge |-> e \notin Lsp]
  /\ overload = {}
  /\ net = 1 /\ pre = 1
  /\ known = [r \in Node |-> [net |-> 0, pre |-> 0]]
  /\ pc = "idle"
  /\ gen = CHOOSE r \in Router : TRUE
  /\ kind = "full"
  /\ bit = {} /\ pairs = {} /\ dropped = {} /\ missed = {}
  /\ told = [n \in Node |-> 0]
  /\ cmds = MaxCmds

Command ==
  /\ pc = "idle" /\ cmds > 0
  /\ cmds' = cmds - 1
  /\ UNCHANGED <<queueVars, known, bit, pairs, dropped, missed>>

\* generate_lsp is called for router r.
GenerateLsp(r, k) ==
  /\ Command
  /\ gen' = r /\ kind' = k
  /\ told' = [n \in Node |-> 0]
  /\ pc' = "self"

ChangeTopology == net' = net + 1 /\ UNCHANGED pre

\* spf_node_slot_metric_change: the router must have the interface.
SetMetric(r) ==
  /\ \E e \in Edge \ Lsp : Src[e] = r
  /\ ChangeTopology
  /\ GenerateLsp(r, "full")
  /\ UNCHANGED <<status, overload>>

\* CMDCODE_CONFIG_NODE_RSVPLSP
AddLsp(e) ==
  /\ ~status[e]
  /\ status' = [status EXCEPT ![e] = TRUE]
  /\ ChangeTopology
  /\ GenerateLsp(Src[e], "full")
  /\ UNCHANGED overload

\* Mutant of SetOverload: only setting the bit is advertised.
SetOverloadOnly(r, on) ==
  /\ overload' = IF on THEN overload \cup {r} ELSE overload \ {r}
  /\ ChangeTopology
  /\ IF on THEN GenerateLsp(r, "full")
     ELSE Command /\ UNCHANGED <<pc, gen, kind, told>>
  /\ UNCHANGED status

\* CMDCODE_CONFIG_NODE_OVERLOAD
SetOverload(r, on) ==
  /\ overload' = IF on THEN overload \cup {r} ELSE overload \ {r}
  /\ ChangeTopology
  /\ GenerateLsp(r, "full")
  /\ UNCHANGED status

\* The commands for prefixes: metric, export and leak.
ChangePrefix(r) ==
  /\ pre' = pre + 1
  /\ GenerateLsp(r, "partial")
  /\ UNCHANGED <<status, overload, net>>

\* spf_node_slot_enable_disable: no flooding.
SetStatus(e, up) ==
  /\ status[e] # up
  /\ status' = [status EXCEPT ![e] = up]
  /\ ChangeTopology
  /\ Command
  /\ UNCHANGED <<overload, pc, gen, kind, told>>

Commands ==
  \/ \E r \in Router : SetMetric(r) \/ ChangePrefix(r)
  \/ \E r \in Router, on \in BOOLEAN : SetOverload(r, on)
  \/ \E e \in Lsp : AddLsp(e)
  \/ \E e \in Edge \ Lsp, up \in BOOLEAN : SetStatus(e, up)

-----------------------------------------------------------------------------
\* lsp_distribution_routine

\* Mutant of Run: every advertisement is handled like that of a prefix.
RunPrefixes(r) ==
  IF known[r].net # 0 THEN [known[r] EXCEPT !.pre = pre]
  ELSE IF r \in overload THEN known[r]
  ELSE [net |-> net, pre |-> pre]

\* What router r has computed after the call: a partial run rebuilds the routes
\* on old results, unless there are none; an overloaded router refuses full runs.
Run(r) ==
  IF kind = "partial" /\ known[r].net # 0 THEN [known[r] EXCEPT !.pre = pre]
  ELSE IF r \in overload THEN known[r]
  ELSE [net |-> net, pre |-> pre]

Tell(r) ==
  /\ known' = [known EXCEPT ![r] = Run(r)]
  /\ told' = [told EXCEPT ![r] = IF @ = 2 THEN 2 ELSE @ + 1]

\* fn_ptr for the generator itself, and the new queue
TellSelf ==
  /\ pc = "self"
  /\ Tell(gen)
  /\ NewQueue
  /\ pc' = "begin"
  /\ UNCHANGED <<netVars, floodVars, bit, pairs, dropped, missed, cmds>>

\* init_instance_lsp_distribution_traversal, and the first node of the queue
Begin ==
  /\ pc = "begin"
  /\ bit' = {gen} /\ dropped' = {}
  /\ Enqueue(gen)
  /\ pc' = "walk"
  /\ UNCHANGED <<netVars, known, floodVars, pairs, told, missed, cmds>>

NextRouter ==
  /\ pc = "walk" /\ pairs = {}
  /\ Take
  /\ pairs' = PhysicalNbrs(ret')
  /\ UNCHANGED <<netVars, known, pc, floodVars, bit, told, dropped, missed, cmds>>

\* The neighbour has its bit set.
SkipNeighbour(p) ==
  /\ pc = "walk" /\ IsFirst(p)
  /\ Nbr(p) \in bit
  /\ pairs' = pairs \ {p}
  /\ UNCHANGED <<queueVars, netVars, known, pc, floodVars, bit, told, dropped,
                 missed, cmds>>

\* Mutant of TellNeighbour: the bit is not set.
TellUnmarked(p) ==
  /\ pc = "walk" /\ IsFirst(p)
  /\ Nbr(p) \notin bit
  /\ Tell(Nbr(p))
  /\ Enqueue(Nbr(p))
  /\ dropped' = dropped \cup {n \in {Nbr(p)} : ret' = "refused"}
  /\ pairs' = pairs \ {p}
  /\ UNCHANGED <<netVars, pc, floodVars, bit, missed, cmds>>

\* Mutant of TellNeighbour: only one neighbour of a node is told.
TellOne(p) ==
  /\ pc = "walk" /\ IsFirst(p)
  /\ Nbr(p) \notin bit
  /\ Tell(Nbr(p))
  /\ bit' = bit \cup {Nbr(p)}
  /\ Enqueue(Nbr(p))
  /\ dropped' = dropped \cup {n \in {Nbr(p)} : ret' = "refused"}
  /\ pairs' = {}
  /\ UNCHANGED <<netVars, pc, floodVars, missed, cmds>>

TellNeighbour(p) ==
  /\ pc = "walk" /\ IsFirst(p)
  /\ Nbr(p) \notin bit
  /\ Tell(Nbr(p))
  /\ bit' = bit \cup {Nbr(p)}
  /\ Enqueue(Nbr(p))
  /\ dropped' = dropped \cup {n \in {Nbr(p)} : ret' = "refused"}
  /\ pairs' = pairs \ {p}
  /\ UNCHANGED <<netVars, pc, floodVars, missed, cmds>>

\* The walk of generate_lsp has nothing left to do.
WalkOver == pc = "walk" /\ pairs = {} /\ count = 0

EndFlood ==
  /\ WalkOver
  /\ Reuse
  /\ missed' = missed \cup (Router \ bit)
  /\ pc' = "idle"
  /\ UNCHANGED <<netVars, known, floodVars, bit, pairs, told, dropped, cmds>>

Flood ==
  \/ TellSelf \/ Begin \/ NextRouter
  \/ \E p \in pairs : SkipNeighbour(p) \/ TellNeighbour(p)
  \/ EndFlood

Next == Commands \/ Flood

Spec == Init /\ [][Next]_floodingVars
FairSpec == Spec /\ WF_floodingVars(Flood)

-----------------------------------------------------------------------------
(* Properties.                                                             *)

Version == 0..(MaxCmds + 1)
Known == [net : Version, pre : Version]

TypeOK ==
  /\ QueueType
  /\ status \in [Edge -> BOOLEAN]
  /\ overload \subseteq Router
  /\ net \in Version \ {0} /\ pre \in Version \ {0}
  /\ known \in [Node -> Known]
  /\ pc \in {"idle", "self", "begin", "walk"}
  /\ gen \in Router /\ kind \in {"full", "partial"}
  /\ bit \subseteq Router
  /\ pairs \subseteq Edge \X Edge
  /\ told \in [Node -> 0..2]
  /\ dropped \subseteq Router /\ missed \subseteq Router
  /\ cmds \in 0..MaxCmds

\* The routers that are connected to r: they are in every set with r that the
\* physical neighbours of its members do not lead out of.
Reach(r) ==
  LET nbrs == [n \in Node |-> {Nbr(p) : p \in PhysicalNbrs(n)}]
      closed == {S \in SUBSET Node : r \in S /\ \A n \in S : nbrs[n] \subseteq S}
  IN {n \in Node : \A S \in closed : n \in S}

\* lsp_distribution_bit keeps the walk from running a router twice: over
\* whatever paths, links and LANs a router is met, it computes once per flood.
ToldOnce == \A n \in Node : told[n] <= 1

\* When the walk ends and the queue refused no router, the advertisement has
\* reached exactly the routers connected to the generator.
WholeLevelTold == WalkOver /\ dropped = {} => bit = Reach(gen)

\* A flood runs every connected router, and none twice, unless the queue refuses.
ToldExactly == ToldOnce /\ WholeLevelTold

\* When the walk ends, every router it told that may run has routes from the
\* prefixes as they are, and after a full advertisement from the topology as it is.
ToldAreCurrent ==
  WalkOver => \A r \in bit \ overload :
    /\ known[r].pre = pre
    /\ kind = "full" => known[r].net = net

\* Between floods that told every router, all routers that are not overloaded
\* have computed their routes from the same network, whatever was changed and
\* whichever routers were overloaded in between.
Synchronised ==
  pc = "idle" /\ missed = {} =>
    \A r, s \in Router \ overload : known[r] = known[s]

\* Every flood ends.
FloodEnds == pc # "idle" ~> pc = "idle"
=============================================================================
