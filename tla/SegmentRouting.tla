---------------------------- MODULE SegmentRouting ----------------------------
(***************************************************************************)
(* Segment routing on top of the label tables (igp_sr_ext.c, sr_tlv_api.c, *)
(* the SPRING parts of routes.c and data_plane.c): prefix SIDs, the routes *)
(* a run makes of them, and ping, which prefers them to the tunnels of     *)
(* LabelSwitching.                                                         *)
(*                                                                         *)
(* A prefix is the set of the routers it is attached to: {n} is the        *)
(* loopback address of n, {a, b} the subnet of a link.  A SID is a prefix  *)
(* and an index; all have the default flags, so the router before the      *)
(* originator pops.  A label is the start of a router's block plus the     *)
(* index; the labels of LDP and RSVP are taken as different from these.    *)
(* The array of used indices only drives a warning and is left out.  One   *)
(* level, no backups, one shortest path.                                   *)
(***************************************************************************)
EXTENDS LabelSwitching, SidConflict

CONSTANTS Index,            \* the indices SIDs are given
          Starts, Ranges,   \* the blocks that are configured, without the defaults
          DefaultStart, DefaultRange,
          Renumbered,       \* the routers whose block may start elsewhere at first
          SrHeadStart,      \* bound: commands left when segment routing is on at the start
          MaxSrCommands     \* bound: commands about segment routing

Table(f) == [f EXCEPT ![CHOOSE x \in DOMAIN f : TRUE] = @]   \* f, computed once

Prefix == DOMAIN Address
Label == {s + i : s \in Starts \cup {DefaultStart}, i \in Index}

ASSUME SrConstants ==
  /\ \A p \in Prefix : p # {} /\ p \subseteq Node
  /\ \A e \in Egress : {e} \in Prefix
  /\ Renumbered \subseteq Node
  /\ Index \subseteq Nat \ {0} /\ Starts \cup {DefaultStart} \subseteq Nat \ {0}
  /\ Ranges \cup {DefaultRange} \subseteq Nat /\ \A i \in Index : i < DefaultRange
  /\ None \notin [to : Node, out : Nat]
  /\ SrHeadStart \in 0..MaxCommands /\ MaxSrCommands \in Nat

VARIABLES spring,      \* the routers with segment routing on
          start,       \* per router the first label of its block
          range,       \* and the size of the block
          sids,        \* per router its SIDs, the newest first
          srRoutes,    \* per router the labels of its SPRING routes
          srInet3,     \* per router and egress: None or the next hop and the label to push, 0: none
          srMpls,      \* per router: label -> next hop and label, None in an emptied entry
          stopped,     \* "no", "assert" or "pointer" (a null or a freed one)
          srCommands

config == <<spring, start, range, sids>>
srTables == <<srRoutes, srInet3, srMpls>>
srVars == <<config, srTables, stopped, srCommands>>

Sid(pfx, i) == [pfx |-> pfx, idx |-> i]

-----------------------------------------------------------------------------
(* SPRING routes.                                                          *)

\* The IGP route of n for a prefix, to the nearest router d gives that has it.
IgpRoute(n, pfx, d) ==
  LET nearest == CHOOSE h \in pfx : \A x \in pfx : d[h] <= d[x]
  IN IF n \in pfx THEN Local ELSE RouteTo(n, nearest, None)

\* What a run of n goes through: the SIDs of the routers it reaches that have a route,
\* with the distance of the router, the position of the SID and the next hop.
Processed(n) ==
  LET d == Table([h \in Node |-> Distance(h)[n]])
      hosts == {h \in spring : d[h] < Inf}
  IN IF n \notin spring THEN {}
     ELSE UNION {{[dist |-> d[h], place |-> k, sid |-> sids[h][k],
                   hop |-> IgpRoute(n, sids[h][k].pfx, d)] : k \in DOMAIN sids[h]} : h \in hosts}

\* The result list has the most distant router first; of two SIDs with one index the
\* later one owns the label, which is the nearer router's, then the older one.
Owner(P, i) ==
  LET same == {x \in P : x.sid.idx = i}
      near == {x \in same : \A y \in same : x.dist <= y.dist}
  IN CHOOSE x \in near : \A y \in near : x.place >= y.place

HasSid(m, i) == \E k \in DOMAIN sids[m] : sids[m][k].idx = i

\* The assertions on the way: the index is in the block of n and, if the next hop runs
\* segment routing, in its block, or it has that very SID when the prefix is its own.
Asserted(n, P) ==
  \A x \in P :
    /\ x.sid.idx < range[n]
    /\ x.hop \in spring => IF x.hop \in x.sid.pfx THEN HasSid(x.hop, x.sid.idx)
                           ELSE x.sid.idx < range[x.hop]

Refreshed(n, P) == {start[n] + x.sid.idx : x \in P}

\* Mutant of SrHop: the label is one of the router's own block.
SrHopOwn(n, x) ==
  IF x.hop \in spring
  THEN [to |-> x.hop, out |-> IF x.hop \in x.sid.pfx THEN 0 ELSE start[n] + x.sid.idx]
  ELSE None

\* springify_ipv4_nexthop: the next hop of n's route and the label it is sent, 0 if the
\* next hop is an originator; None if it does not run segment routing.
SrHop(n, x) ==
  IF x.hop \in spring
  THEN [to |-> x.hop, out |-> IF x.hop \in x.sid.pfx THEN 0 ELSE start[x.hop] + x.sid.idx]
  ELSE None

\* inet.3 and mpls.0 after a run: the flush empties the entries, and those of the
\* routes are filled again.
Inet3After(n, P) ==
  [e \in Egress |->
     LET own == {x \in P : x.sid.pfx = {e} /\ Owner(P, x.sid.idx) = x}
     IN IF own # {} THEN SrHop(n, CHOOSE x \in own : TRUE) ELSE None]

MplsAfter(n, P, old) ==
  LET hop(l) == SrHop(n, Owner(P, l - start[n]))
      filled == {l \in Refreshed(n, P) : hop(l) # None}
  IN [l \in filled \cup old |-> IF l \in filled THEN hop(l) ELSE None]

\* A route that was not refreshed is deleted, with the list of prefixes it shares with
\* the IGP route.
Stale(n, P) == srRoutes[n] \ Refreshed(n, P)

-----------------------------------------------------------------------------
(* Segment routing is off and stays so, with the whole bound for tunnels,  *)
(* or it is on everywhere, as are LDP and RSVP, each egress has its SID,   *)
(* and all routers have run: a state that the commands below lead to,      *)
(* which leaves the bounds for what comes then.                            *)

InitSr ==
  /\ Init
  /\ range = [n \in Node |-> DefaultRange] /\ stopped = "no"
  /\ \/ /\ commands = 0 /\ srCommands = MaxSrCommands /\ spring = {}
        /\ sids = [n \in Node |-> <<>>]
        /\ start = [n \in Node |-> DefaultStart]
     \/ /\ commands = MaxCommands - SrHeadStart /\ srCommands = 0 /\ spring = Node
        /\ enabled = [p \in Proto |-> Node]
        /\ \E i \in Index :
             sids = [n \in Node |-> IF n \in Egress THEN <<Sid({n}, i)>> ELSE <<>>]
        /\ \E s \in Starts \cup {DefaultStart} :
             start = [n \in Node |-> IF n \in Renumbered THEN s ELSE DefaultStart]
  /\ srRoutes = [n \in Node |-> Refreshed(n, Processed(n))]
  /\ srInet3 = [n \in Node |-> Inet3After(n, Processed(n))]
  /\ srMpls = [n \in Node |-> MplsAfter(n, Processed(n), {})]

\* An action of LabelSwitching
Other(A) == stopped = "no" /\ A /\ UNCHANGED srVars

Stop(how) ==
  /\ stopped' = how
  /\ UNCHANGED <<vars, config, srTables>>

\* A run of the routers of S and the installation of their routes.
SrRun(S) ==
  LET P == Table([n \in S |-> Processed(n)])
      fine(n) == Asserted(n, P[n])
  IN /\ stopped = "no"
     /\ IF \A n \in S \cap spring : fine(n) /\ Stale(n, P[n]) = {}
        THEN /\ Run(S)
             /\ srRoutes' = [n \in Node |-> IF n \in S \cap spring THEN Refreshed(n, P[n])
                                           ELSE srRoutes[n]]
             /\ srInet3' = [n \in Node |-> IF n \in S THEN Inet3After(n, P[n]) ELSE srInet3[n]]
             /\ srMpls' = [n \in Node |-> IF n \in S THEN MplsAfter(n, P[n], DOMAIN srMpls[n])
                                          ELSE srMpls[n]]
             /\ UNCHANGED <<config, stopped, srCommands>>
        ELSE /\ Stop(IF \A n \in S \cap spring : fine(n) THEN "pointer" ELSE "assert")
             /\ ~hung /\ UNCHANGED srCommands

-----------------------------------------------------------------------------
(* Commands about segment routing (instance_node_spring_config_handler).   *)

SrCommand ==
  /\ stopped = "no" /\ ~hung
  /\ srCommands < MaxSrCommands /\ srCommands' = srCommands + 1

Configured == stopped' = "no" /\ UNCHANGED <<vars, srTables>>

EnableSr(n) ==
  /\ SrCommand /\ n \notin spring
  /\ spring' = spring \cup {n}
  /\ start' = [start EXCEPT ![n] = DefaultStart] /\ range' = [range EXCEPT ![n] = DefaultRange]
  /\ Configured /\ UNCHANGED sids

\* spring_disable_cleanup; there is no block to free where it is off.
DisableSr(n) ==
  /\ SrCommand
  /\ IF n \notin spring THEN Stop("pointer")
     ELSE /\ spring' = spring \ {n} /\ sids' = [sids EXCEPT ![n] = <<>>]
          /\ Configured /\ UNCHANGED <<start, range>>

Numbered(n, pfx) == {k \in DOMAIN sids[n] : sids[n][k].pfx = pfx}

\* set_node_sid, set_interface_address_prefix_sid and update_prefix_sid, which writes
\* through an unassigned pointer when the prefix has a SID.
SetSid(n, pfx, i) ==
  /\ SrCommand /\ n \in spring \cap pfx
  /\ IF i >= range[n] THEN Stop("assert")
     ELSE IF Numbered(n, pfx) # {} THEN Stop("pointer")
     ELSE /\ sids' = [sids EXCEPT ![n] = <<Sid(pfx, i)>> \o @]
          /\ Configured /\ UNCHANGED <<spring, start, range>>

\* unset_node_sid, unset_interface_address_prefix_sid
UnsetSid(n, pfx) ==
  /\ SrCommand /\ n \in spring
  /\ \E k \in Numbered(n, pfx) :
       IF sids[n][k].idx >= range[n] THEN Stop("assert")
       ELSE /\ sids' = [sids EXCEPT ![n] = RemoveAt(@, k)]
            /\ Configured /\ UNCHANGED <<spring, start, range>>

SetRange(n, r) ==
  /\ SrCommand /\ n \in spring
  /\ range' = [range EXCEPT ![n] = r]
  /\ Configured /\ UNCHANGED <<spring, start, sids>>

SetStart(n, s) ==
  /\ SrCommand /\ n \in spring
  /\ start' = [start EXCEPT ![n] = s]
  /\ Configured /\ UNCHANGED <<spring, range, sids>>

NextSr ==
  \/ \E l \in Flaky : Other(SetStatus(l))
  \/ \E S \in {{n} : n \in Node} \cup {Node} : SrRun(S)
  \/ \E n \in Node, e \in Egress :
       \/ Other(LdpTunnel(n, e))
       \/ \E name \in Name : Other(RsvpTunnel(n, e, name))
  \/ \E n \in Toggled, p \in Proto : Other(Toggle(p, n))
  \/ \E n \in Node : \/ EnableSr(n) \/ DisableSr(n)
                     \/ \E pfx \in Prefix : \/ UnsetSid(n, pfx)
                                            \/ \E i \in Index : SetSid(n, pfx, i)
                     \/ \E r \in Ranges : SetRange(n, r)
                     \/ \E s \in Starts : SetStart(n, s)

SrSpec == InitSr /\ [][NextSr]_<<vars, srVars>>

-----------------------------------------------------------------------------
(* Ping.                                                                   *)

\* transient_mpls_pfe_engine with a label of segment routing: the router the packet
\* leaves the labels at; "lost" on the way, "assert" at an entry without a next hop.
SrEnd(n, label) ==
  LET s[k \in 0..Cardinality(Node)] ==
        IF k = 0 THEN [at |-> n, label |-> label, how |-> "going"]
        ELSE LET b == s[k - 1]
             IN IF b.how # "going" \/ b.label = 0 THEN b
                ELSE IF b.label \notin DOMAIN srMpls[b.at] THEN [b EXCEPT !.how = "lost"]
                ELSE LET hop == srMpls[b.at][b.label]
                     IN IF hop = None THEN [b EXCEPT !.how = "assert"]
                        ELSE IF <<b.at, hop.to>> \notin up THEN [b EXCEPT !.how = "lost"]
                        ELSE [b EXCEPT !.at = hop.to, !.label = hop.out]
  IN s[Cardinality(Node)]

\* sr_pfe_engine comes before the engines of PingStep.  A packet for a direct neighbour
\* has no label, and transient_mpls_pfe_engine asserts one.
SrPingStep(e, s) ==
  LET hop == srInet3[s.at][e]
  IN IF s.how = "going" /\ ~s.ip /\ hop # None /\ <<s.at, hop.to>> \in up
     THEN IF hop.out = 0 THEN [s EXCEPT !.how = "assert"]
          ELSE LET out == SrEnd(hop.to, hop.out)
               IN [s EXCEPT !.at = out.at, !.how = out.how]
     ELSE PingStep(e, s)

Ping(n, e) ==
  LET s[k \in 0..(3 * Cardinality(Node))] ==
        IF k = 0 THEN [at |-> n, how |-> "going", ip |-> FALSE]
        ELSE LET before == s[k - 1] IN SrPingStep(e, before)
  IN s[3 * Cardinality(Node)]

-----------------------------------------------------------------------------
(* Properties.                                                             *)

\* Every variable keeps its type, and a router that has never run segment routing has
\* no SPRING routes.
SrTypeOK ==
  /\ TypeOK
  /\ spring \subseteq Node
  /\ start \in [Node -> Starts \cup {DefaultStart}]
  /\ range \in [Node -> Ranges \cup {DefaultRange}]
  /\ \A n \in Node :
       /\ \A k \in DOMAIN sids[n] :
            sids[n][k] \in [pfx : {p \in Prefix : n \in p}, idx : Index]
       /\ srRoutes[n] \subseteq Label /\ DOMAIN srMpls[n] \subseteq srRoutes[n]
       /\ sids[n] # <<>> => n \in spring
  /\ stopped \in {"no", "assert", "pointer"} /\ srCommands \in 0..MaxSrCommands

\* All routers have run after the last change.
Synchronised ==
  /\ up = Directed
  /\ \A n \in Node :
       LET P == Processed(n)
       IN /\ \A e \in Egress : inet0[n][e] = RouteTo(n, e, inet0[n][e])
          /\ srInet3[n] = Inet3After(n, P) /\ srMpls[n] = MplsAfter(n, P, DOMAIN srMpls[n])

Mappings == UNION {{Mapping(h, sids[h][k]) : k \in DOMAIN sids[h]} : h \in Node}

\* With all links up, all routers synchronised, no tunnel abandoned, and segment
\* routing off or on everywhere without two prefixes of one index, every ping ends at
\* the router it is for, over any mixture of SPRING labels, tunnels and routes; but not
\* from a direct neighbour with a SPRING route, where the simulator stops.
PingsDeliver ==
  /\ Synchronised /\ aborted = {} /\ stopped = "no" /\ spring \in {{}, Node}
  /\ \A m1, m2 \in Mappings : ~SidsConflict(m1, m2)
  => \A n \in Node, e \in Egress :
       \/ srInet3[n][e] # None /\ srInet3[n][e].to = e
       \/ Ping(n, e).at = e /\ Ping(n, e).how = "complete"

\* The program stops for these reasons only.  A new tunnel that never ends needs one
\* abandoned on its way or a router that has not run since a link changed.  A failed
\* assertion needs a block too short for an index, or a subnet whose routers do not
\* have the same SID.
StopsExplained ==
  /\ hung => \/ aborted # {}
             \/ \E n \in Node, e \in Egress : inet0[n][e] # RouteTo(n, e, inet0[n][e])
  /\ stopped = "assert" =>
       \/ \E n \in spring, i \in Index : i >= range[n]
       \/ \E m \in Mappings, h \in spring :
            /\ h \in m.pfx
            /\ ~\E x \in Mappings : x.host = h /\ x.idx = m.idx

\* Whatever the order of the list of prefixes, the resolution of conflicts leaves the
\* same mappings: of each prefix the lowest index, and of each index the best prefix.
ConflictsResolved ==
  \A list \in SetToSeqs(Mappings) :
    /\ ToSet(Resolved(list)) = Survivors(Mappings)
    /\ \A m1, m2 \in ToSet(Resolved(list)) : m1.pfx = m2.pfx <=> m1.idx = m2.idx
=============================================================================
