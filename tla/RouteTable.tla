----------------------------- MODULE RouteTable -----------------------------
(***************************************************************************)
(* The unicast routes and the inet.0 table of one router (routes.c and     *)
(* data_plane.c): what spf_postprocessing does with the results of an SPF  *)
(* run of level 1 or 2.                                                    *)
(*                                                                         *)
(* A run increments the version of its level, walks the results (the most  *)
(* distant router first) and folds every prefix of every router into the   *)
(* list of routes, deletes the routes of the level that kept an old        *)
(* version, flushes the level's next hops from the table and installs the  *)
(* routes again.  Both levels share one list and one table; preferences    *)
(* (route_preference) decide between them.  Every route also links the     *)
(* prefixes it stands for, best first (like_prefix_list); withdrawing a    *)
(* prefix frees it and leaves those pointers behind.                       *)
(*                                                                         *)
(* The deletion gives a macro the wrong list: the newest route, when it is *)
(* stale, stays in the list although it is freed, and the list counts the  *)
(* routes deleted from it for ever.  The next new route is then searched   *)
(* beyond the end of the list.  The process stops where the code faults or *)
(* an assertion fails (pc = "abort"); StopsExplained says when.            *)
(*                                                                         *)
(* The routers, prefixes, distances and next hops are the environment's:   *)
(* constants say which results a run may find.  Backup next hops, LSP next *)
(* hops and segment routing are off.                                       *)
(***************************************************************************)
EXTENDS Naturals, Sequences, SequencesExt, FiniteSets

CONSTANTS
  Root,         \* the router whose tables these are
  Key,          \* address and mask of a prefix
  Default,      \* the key 0.0.0.0/0
  Prefix,       \* prefixes that routers may advertise, Prefix records
  InitPrefixes, \* those advertised at first
  Results,      \* per level, the result lists a full run may compute
  AttachedNodes,\* routers with spff_multi_area set
  OtherArea,    \* two-way level 2 neighbours of Root in another area
  Inf,          \* INFINITE_METRIC
  MaxNh,        \* MAX_NXT_HOPS
  MaxCmds,      \* bound: commands
  Freed         \* a pointer to a freed prefix

Level == {1, 2}
Flags == {"down", "ext", "extmetric"}

\* All results that runs may find, and the next hops in them.
Result == UNION {ToSet(results) : results \in Results[1] \cup Results[2]}
Hop == UNION {r.hops : r \in Result}

\* Prefixes have the types of prefix_t, and a metric below INFINITE_METRIC: the
\* commands give them 0 or the metric of an interface.  A run finds a router
\* once, with a distance and no more next hops than there are places for.
ASSUME RouteConstants ==
  /\ Inf \in Nat /\ MaxNh \in Nat /\ MaxCmds \in Nat
  /\ Default \in Key /\ InitPrefixes \subseteq Prefix /\ Freed \notin Prefix
  /\ \A p \in Prefix : /\ p.level \in Level /\ p.key \in Key
                       /\ p.metric \in 0..Inf /\ p.flags \in SUBSET Flags
  /\ \A l \in Level : \A results \in Results[l] :
       /\ results \in Seq(Result)
       /\ \A i \in DOMAIN results : results[i].metric \in Nat
                                     /\ Cardinality(results[i].hops) <= MaxNh
       /\ \A i, j \in DOMAIN results : results[i].node = results[j].node => i = j

\* A router has finitely many ways out.
ASSUME FiniteHops == IsFiniteSet(Hop)

VARIABLES
  adv,      \* prefixes in the local_prefix_lists, of all routers
  ignore,   \* IGNOREATTACHED of Root
  multi,    \* spff_multi_area of Root
  spf,      \* spf_run_result per level: [node, metric, hops], most distant first
  version,  \* version per level
  routes,   \* routes_list[UNICAST_T], newest first
  count,    \* node_count of that list
  rib,      \* inet.0: key to [level, hops]
  pc, lvl,  \* phase and level of the run
  todo,     \* updates left in build_routing_table, with their router's position
  next,     \* position of the next route to clean or to install
  cmds      \* number of commands so far

cfgVars == <<adv, ignore>>
runVars == <<spf, version, multi>>
vars == <<adv, ignore, multi, spf, version, routes, count, rib, pc, lvl, todo, next, cmds>>

-----------------------------------------------------------------------------
(* Preferences and metrics.                                                *)

External(flags) == "extmetric" \in flags

\* A prefix with an external metric is external: no command sets the flag of the
\* metric, and a prefix that has it alone would have no preference.
ASSUME ExternalMetrics == \A p \in Prefix : External(p.flags) => "ext" \in p.flags

Unknown == 6     \* ROUTE_UNKNOWN_PREFERENCE
NoPreference == 7 \* route_preference ends in assert(0)

RoutePreference(flags, level) ==
  CASE External(flags) /\ "ext" \notin flags -> Unknown
    [] External(flags) /\ "ext" \in flags /\ level = 1 ->
         IF "down" \in flags THEN 5 ELSE 3
    [] External(flags) /\ "ext" \in flags /\ level = 2 ->
         IF "down" \in flags THEN NoPreference ELSE 4
    [] ~External(flags) /\ level = 1 -> IF "down" \in flags THEN 2 ELSE 0
    [] ~External(flags) /\ level = 2 ->
         IF "down" \in flags /\ "ext" \notin flags THEN NoPreference ELSE 1

Pref(p) == RoutePreference(p.flags, p.level)

ResultOf(l, n) == {r \in ToSet(spf[l]) : r.node = n}
DistOf(l, n) == (CHOOSE r \in ResultOf(l, n) : TRUE).metric

\* What an update brings: a prefix, the position of its router among the results,
\* the router's distance and next hops, and whether the prefix is linked to the
\* route.
Update(p, i, linked) ==
  [pfx |-> p, at |-> i, dist |-> spf[lvl][i].metric, hops |-> spf[lvl][i].hops,
   linked |-> linked]

\* What update_route compares: the external metric, or distance plus metric.
UpdateCost(u) == IF External(u.pfx.flags) THEN u.pfx.metric ELSE u.dist + u.pfx.metric
RouteCost(r) == IF External(r.flags) THEN r.ext ELSE r.spf

-----------------------------------------------------------------------------
(* like_prefix_list: link_prefix_to_route.                                 *)

\* The metric by which linked prefixes are ordered: external metrics are left out.
LinkMetric(p, dist) == IF External(p.flags) THEN dist ELSE dist + p.metric

\* What the comparison of the new prefix with a linked one may do.  Reading a
\* freed prefix may do anything; a tie reads the result of the linked prefix's
\* router, which must exist.
Ties(u, q) == q # Freed /\ Pref(u.pfx) = Pref(q)
LinkAfter(u, q) ==
  \/ q = Freed
  \/ q # Freed /\ Pref(u.pfx) > Pref(q)
  \/ /\ Ties(u, q)
     /\ ResultOf(q.level, q.host) # {}
     /\ LinkMetric(u.pfx, u.dist) > LinkMetric(q, DistOf(q.level, q.host))
LinkBefore(u, q) ==
  \/ q = Freed
  \/ q # Freed /\ Pref(u.pfx) < Pref(q)
  \/ /\ Ties(u, q)
     /\ ResultOf(q.level, q.host) # {}
     /\ LinkMetric(u.pfx, u.dist) <= LinkMetric(q, DistOf(q.level, q.host))
LinkFaults(u, q) == q = Freed \/ (Ties(u, q) /\ ResultOf(q.level, q.host) = {})

LinkPositions(like, u) ==
  {i \in 1..(Len(like) + 1) :
     /\ \A j \in 1..(i - 1) : LinkAfter(u, like[j])
     /\ i <= Len(like) => LinkBefore(u, like[i])}

LinkMayFault(like, u) ==
  \E i \in DOMAIN like :
    LinkFaults(u, like[i]) /\ \A j \in 1..(i - 1) : LinkAfter(u, like[j])

\* The lists that linking may result in.
Linked(like, u) ==
  IF u.linked THEN {InsertAt(like, i, u.pfx) : i \in LinkPositions(like, u)}
  ELSE {like}

-----------------------------------------------------------------------------
Init ==
  /\ adv = InitPrefixes /\ ignore = FALSE /\ multi = FALSE
  /\ spf = [l \in Level |-> <<>>]
  /\ version = [l \in Level |-> 0]
  /\ routes = <<>> /\ count = 0 /\ rib = <<>>
  /\ pc = "idle" /\ lvl = 1 /\ todo = {} /\ next = 1
  /\ cmds = 0

Command == pc = "idle" /\ cmds < MaxCmds /\ cmds' = cmds + 1

Attach(p) ==
  /\ Command
  /\ ~\E q \in adv : q.host = p.host /\ q.level = p.level /\ q.key = p.key
  /\ adv' = adv \cup {p}
  /\ UNCHANGED <<ignore, runVars, routes, count, rib, pc, lvl, todo, next>>

\* free_prefix: routes keep their pointers to it.
Deattach(p) ==
  /\ Command
  /\ p \in adv
  /\ adv' = adv \ {p}
  /\ routes' = [i \in DOMAIN routes |->
       [routes[i] EXCEPT !.like =
          [j \in DOMAIN @ |-> IF @[j] = p THEN Freed ELSE @[j]]]]
  /\ UNCHANGED <<ignore, runVars, count, rib, pc, lvl, todo, next>>

SetIgnoreAttached ==
  /\ Command
  /\ ignore' = ~ignore
  /\ UNCHANGED <<adv, runVars, routes, count, rib, pc, lvl, todo, next>>

-----------------------------------------------------------------------------
(* build_routing_table: the updates of a run, in order.                    *)

DefaultPrefix(n) == [host |-> n, level |-> 1, key |-> Default, metric |-> 0, flags |-> {}]

\* The prefixes of the router at place i of the results, and the default route
\* to a router that is attached to another area.
UpdatesOf(i) ==
  LET n == spf[lvl][i].node
  IN {Update(p, i, TRUE) : p \in {q \in adv : q.host = n /\ q.level = lvl}} \cup
     {Update(p, i, FALSE) :
        p \in {q \in {DefaultPrefix(n)} :
                lvl = 1 /\ ~ignore /\ n \in AttachedNodes /\ ~multi}}

Updates == UNION {UpdatesOf(i) : i \in DOMAIN spf[lvl]}

\* Routers come in the order of the results, the default route of a router before
\* its prefixes; these come in any order.
Before(u, v) == u.at < v.at \/ (u.at = v.at /\ ~u.linked /\ v.linked)

\* spf_determine_multi_area_attachment, in runs of level 2 after one of level 1.
MultiArea(l, results) ==
  IF l = 2 /\ version[1] > 0 THEN \E r \in ToSet(results) : r.node \in OtherArea
  ELSE multi

StartRun(l, results) ==
  /\ Command
  /\ version' = [version EXCEPT ![l] = @ + 1]
  /\ spf' = [spf EXCEPT ![l] = results]
  /\ multi' = MultiArea(l, results)
  /\ lvl' = l
  /\ UNCHANGED <<cfgVars, routes, count, rib>>
  /\ todo' = Updates'
  /\ pc' = "build" /\ next' = 1

FullRun(l) == \E results \in Results[l] : StartRun(l, results)

\* A partial run keeps the results; the first run of a level is always full.
PartialRun(l) == version[l] > 0 /\ StartRun(l, spf[l])

-----------------------------------------------------------------------------
(* update_route.                                                           *)

RoutesFor(k) == {i \in DOMAIN routes : routes[i].key = k}
Current(r) == r.version = version[lvl]

\* Mutant of Comparable: a route of the other level is replaced too.
ComparableOwn(r) == r.level = lvl /\ Current(r)

\* A route of this run's level that this run has not touched yet is replaced
\* without comparing.
Comparable(r) == r.level # lvl \/ Current(r)

\* Mutant of Overwritten: the version is that of the next run.
OverwrittenAhead(r, u) ==
  [r EXCEPT !.version = version[lvl] + 1, !.flags = u.pfx.flags, !.level = lvl,
            !.host = u.pfx.host, !.hops = u.hops, !.spf = u.dist, !.ext = 0, !.like = <<>>]

\* Mutant of Overwritten: the prefixes of earlier runs stay linked.
OverwrittenLinked(r, u) ==
  [r EXCEPT !.version = version[lvl], !.flags = u.pfx.flags, !.level = lvl,
            !.host = u.pfx.host, !.hops = u.hops, !.spf = u.dist + u.pfx.metric]

Overwritten(r, u) ==
  [r EXCEPT !.version = version[lvl], !.flags = u.pfx.flags, !.level = lvl,
            !.host = u.pfx.host, !.hops = u.hops,
            !.spf = IF External(u.pfx.flags) THEN u.dist ELSE u.dist + u.pfx.metric,
            !.ext = IF External(u.pfx.flags) THEN u.pfx.metric ELSE @,
            !.like = IF r.level = lvl THEN <<>> ELSE @]

NewRoute(u) ==
  Overwritten([key |-> u.pfx.key, level |-> lvl, version |-> 0, flags |-> {},
               host |-> u.pfx.host, spf |-> 0, ext |-> 0, hops |-> {}, like |-> <<>>], u)

\* rt_un_route_delete: free_rt_un_entry drops the next hops and keeps the entry,
\* because the entry's own list link, which it tests, is never empty.
RibDelete(k) == [x \in DOMAIN rib |-> IF x = k THEN [rib[x] EXCEPT !.hops = {}] ELSE rib[x]]

Better(r, u) ==
  \/ Pref(u.pfx) < RoutePreference(r.flags, r.level)
  \/ /\ Pref(u.pfx) = RoutePreference(r.flags, r.level)
     /\ UpdateCost(u) < RouteCost(r)
Equal(r, u) ==
  /\ Pref(u.pfx) = RoutePreference(r.flags, r.level)
  /\ UpdateCost(u) = RouteCost(r)

Overwrites(r, u) == ~Comparable(r) \/ Better(r, u)

Ignored(u) ==
  \/ u.pfx.metric = Inf
  \/ Pref(u.pfx) = Unknown /\ \E i \in RoutesFor(u.pfx.key) : Comparable(routes[i])

\* Mutant of Merged: the next hops of the last router win.
MergedLast(r, u) == [r EXCEPT !.hops = u.hops]

\* merge_route_primary_nexthops
Merged(r, u) == [r EXCEPT !.hops = @ \cup u.hops]

\* The route an update leaves, before the prefix is linked.
Updated(r, u) ==
  IF Overwrites(r, u) THEN Overwritten(r, u)
  ELSE IF Equal(r, u) THEN Merged(r, u) ELSE r

\* singly_ll_get_node_by_data_ptr looks for the new route at as many nodes as the
\* list counts, and follows the NULL after its last node when it counts too many.
SearchOverruns == routes # <<>> /\ Len(routes) < count

\* An assertion of the code fails, or the process reads a freed prefix or NULL.
UpdateFaults(u) ==
  /\ ~Ignored(u)
  /\ \/ Pref(u.pfx) = NoPreference
     \/ RoutesFor(u.pfx.key) = {} /\ SearchOverruns
     \/ \E i \in RoutesFor(u.pfx.key) :
          LET r == Updated(routes[i], u)
          IN Cardinality(r.hops) > MaxNh \/ (u.linked /\ LinkMayFault(r.like, u))

UpdateNext(u) ==
  /\ pc = "build" /\ ~\E v \in todo : Before(v, u)
  /\ todo' = todo \ {u}
  /\ UNCHANGED <<cfgVars, runVars, lvl, next, cmds>>

UpdateIgnored(u) ==
  /\ UpdateNext(u) /\ Ignored(u)
  /\ UNCHANGED <<routes, count, rib, pc>>

UpdateNew(u) ==
  /\ UpdateNext(u) /\ ~Ignored(u)
  /\ RoutesFor(u.pfx.key) = {} /\ ~SearchOverruns
  /\ Pref(u.pfx) # NoPreference
  /\ \E like \in Linked(<<>>, u) : routes' = <<[NewRoute(u) EXCEPT !.like = like]>> \o routes
  /\ count' = count + 1
  /\ UNCHANGED <<rib, pc>>

UpdateRoute(u) ==
  /\ UpdateNext(u) /\ ~Ignored(u)
  /\ Pref(u.pfx) # NoPreference
  /\ \E i \in RoutesFor(u.pfx.key) :
       LET r == Updated(routes[i], u)
       IN /\ Cardinality(r.hops) <= MaxNh
          /\ \E like \in Linked(r.like, u) :
               routes' = [routes EXCEPT ![i] = [r EXCEPT !.like = like]]
          /\ rib' = IF routes[i].level # r.level THEN RibDelete(r.key) ELSE rib
  /\ UNCHANGED <<count, pc>>

UpdateCrash(u) ==
  /\ UpdateNext(u) /\ UpdateFaults(u)
  /\ pc' = "abort"
  /\ UNCHANGED <<routes, count, rib>>

-----------------------------------------------------------------------------
(* delete_stale_routes, flush_rib, enhanced_start_route_installation.      *)

Stale(r) == r.level = lvl /\ ~Current(r)

CleanNext ==
  /\ pc = "build" /\ todo = {} /\ next <= Len(routes)
  /\ UNCHANGED <<cfgVars, runVars, count, rib, pc, lvl, todo, cmds>>

HasPredecessor == \E j \in 1..(next - 1) : ~Stale(routes[j])

\* The macro that unlinks the node is given the wrong list (priority_routes_list):
\* the count of that list goes down twice, that of routes_list not at all.
DeleteStale ==
  /\ CleanNext
  /\ Stale(routes[next]) /\ HasPredecessor
  /\ routes' = RemoveAt(routes, next)
  /\ UNCHANGED next

\* A stale route is unlinked through its predecessor; without one the head of
\* the wrong list is set, and the freed route stays.
KeepRoute ==
  /\ CleanNext
  /\ ~Stale(routes[next]) \/ ~HasPredecessor
  /\ next' = next + 1
  /\ UNCHANGED routes

CleanEnd == pc = "build" /\ todo = {} /\ next > Len(routes)

\* Mutant of FlushRib: the next hops stay.
FlushNothing ==
  /\ CleanEnd
  /\ pc' = "install" /\ next' = 1
  /\ UNCHANGED <<cfgVars, runVars, routes, count, rib, lvl, todo, cmds>>

FlushRib ==
  /\ CleanEnd
  /\ rib' = [k \in DOMAIN rib |->
               IF rib[k].level = lvl THEN [rib[k] EXCEPT !.hops = {}] ELSE rib[k]]
  /\ pc' = "install" /\ next' = 1
  /\ UNCHANGED <<cfgVars, runVars, routes, count, lvl, todo, cmds>>

InstallNext ==
  /\ pc = "install" /\ next <= Len(routes)
  /\ next' = next + 1
  /\ UNCHANGED <<cfgVars, runVars, routes, count, lvl, todo, cmds>>

\* The next hops that an entry of the same level has; others are dropped.
HopsBefore(k) == IF k \in DOMAIN rib /\ rib[k].level = lvl THEN rib[k].hops ELSE {}

\* A route without next hops is local: an entry without next hops.
InstallRoute ==
  /\ InstallNext
  /\ LET r == routes[next]
     IN /\ r.level = lvl /\ Current(r)
        /\ rib' = [k \in DOMAIN rib \cup {r.key} |->
                     IF k = r.key THEN [level |-> lvl, hops |-> HopsBefore(k) \cup r.hops]
                     ELSE rib[k]]
  /\ UNCHANGED pc

InstallOther ==
  /\ InstallNext
  /\ routes[next].level # lvl
  /\ UNCHANGED <<rib, pc>>

\* assert(route->version == spf_info->spf_level_info[level].version)
InstallCrash ==
  /\ InstallNext
  /\ Stale(routes[next])
  /\ pc' = "abort"
  /\ UNCHANGED rib

RunEnd ==
  /\ pc = "install" /\ next > Len(routes)
  /\ pc' = "idle"
  /\ UNCHANGED <<cfgVars, runVars, routes, count, rib, lvl, todo, next, cmds>>

-----------------------------------------------------------------------------
Operator ==
  \/ SetIgnoreAttached
  \/ \E p \in Prefix : Attach(p) \/ Deattach(p)
  \/ \E l \in Level : FullRun(l) \/ PartialRun(l)

Run ==
  \/ \E u \in todo : UpdateIgnored(u) \/ UpdateNew(u) \/ UpdateRoute(u)
                      \/ UpdateCrash(u)
  \/ DeleteStale \/ KeepRoute \/ FlushRib \/ InstallRoute \/ InstallOther \/ InstallCrash
  \/ RunEnd

Next == Operator \/ Run

Spec == Init /\ [][Next]_vars

-----------------------------------------------------------------------------
(* Properties.                                                             *)

Route ==
  [key : Key, level : Level, version : Nat, flags : SUBSET Flags,
   host : {p.host : p \in Prefix} \cup AttachedNodes, spf : Nat, ext : Nat,
   hops : SUBSET Hop, like : Seq(Prefix \cup {Freed})]

TablesOK ==
  /\ adv \subseteq Prefix /\ ignore \in BOOLEAN /\ multi \in BOOLEAN
  /\ lvl \in Level /\ next \in Nat \ {0} /\ cmds \in 0..MaxCmds
  /\ pc \in {"idle", "build", "install", "abort"}
  /\ spf \in [Level -> Seq(Result)]
  /\ version \in [Level -> 0..MaxCmds]
  /\ routes \in Seq(Route)
  /\ \A i \in DOMAIN routes :
       /\ Cardinality(routes[i].hops) <= MaxNh
       /\ RoutesFor(routes[i].key) = {i}
       /\ routes[i].version <= version[routes[i].level]
  /\ DOMAIN rib \subseteq Key
  /\ \A k \in DOMAIN rib : rib[k] \in [level : Level, hops : SUBSET Hop]

\* The list never counts fewer nodes than it has.
CountOK == count \in Nat /\ Len(routes) <= count

\* Routes and table entries have their types, the list of routes has one route
\* for a key and counts no fewer, no route carries a version of the future, and
\* none has more next hops than there are places.
TypeOK == TablesOK /\ CountOK

\* The updates of the last run for a key that count: finite metric.
Candidates(k) == {u \in Updates : u.pfx.key = k /\ u.pfx.metric < Inf}

Beats(u, v) == Pref(u.pfx) < Pref(v.pfx)
               \/ (Pref(u.pfx) = Pref(v.pfx) /\ UpdateCost(u) < UpdateCost(v))
BestOf(cands) == {u \in cands : ~\E v \in cands : Beats(v, u)}

\* The run of a level has just ended: no command came after it.
RunEnded == pc = "install" /\ next > Len(routes)

\* When a run ends, the routes of its level are exactly the best ones the
\* advertised prefixes of the reached routers allow: a route has the preference,
\* the cost and all next hops of the best prefixes of its key, a route none
\* advertises any more is gone, and a key without a route of this level has a
\* route of the other level that is preferred.
RoutesAreBest ==
  RunEnded =>
    \A k \in Key :
      LET cands == Candidates(k)
          best == BestOf(cands)
      IN \A i \in DOMAIN routes : routes[i].key = k =>
           IF routes[i].level = lvl
           THEN /\ best # {}
                /\ \A u \in best :
                     /\ RoutePreference(routes[i].flags, lvl) = Pref(u.pfx)
                     /\ RouteCost(routes[i]) = UpdateCost(u)
                /\ routes[i].hops = UNION {u.hops : u \in best}
           ELSE \A u \in best : RoutePreference(routes[i].flags, routes[i].level) < Pref(u.pfx)

\* When a run ends, every key that a reached router advertises has a route.
AdvertisedKeysHaveRoutes ==
  RunEnded => \A k \in Key : Candidates(k) # {} => RoutesFor(k) # {}

\* Between runs the table forwards exactly as the routes of both levels say: a
\* route's entry has its level and its next hops, whichever level was installed
\* last, and an entry without a route has no next hop left.
RibFollowsRoutes ==
  pc = "idle" =>
    /\ \A i \in DOMAIN routes :
         /\ routes[i].key \in DOMAIN rib
         /\ rib[routes[i].key] = [level |-> routes[i].level, hops |-> routes[i].hops]
    /\ \A k \in DOMAIN rib : rib[k].hops # {} => RoutesFor(k) # {}

\* A run of one level takes a route of the other level away only to replace it
\* by a preferred route of its own level.
OtherLevelKept ==
  [][\A i \in DOMAIN routes :
       pc # "idle" /\ routes[i].level # lvl =>
         \E j \in DOMAIN routes' :
           LET r == routes'[j]
           IN /\ r.key = routes[i].key
              /\ \/ [r EXCEPT !.like = <<>>] = [routes[i] EXCEPT !.like = <<>>]
                 \/ r.level = lvl /\ RoutePreference(r.flags, r.level)
                                     < RoutePreference(routes[i].flags, routes[i].level)]_vars

LiveLinks(r) == Freed \notin ToSet(r.like)

\* ROUTE_GET_BEST_PREFIX: the first linked prefix of a route with an internal
\* metric is one of the best prefixes of its key, also when runs of the other
\* level have left their prefixes in the list, unless one of these was freed.
BestPrefixFirst ==
  RunEnded =>
    \A i \in DOMAIN routes :
      LET r == routes[i]
      IN r.level = lvl /\ ~External(r.flags) /\ r.key # Default /\ LiveLinks(r) =>
           /\ r.like # <<>>
           /\ r.like[1] \in {u.pfx : u \in BestOf(Candidates(r.key))}

\* assert(route->version == ...) of the installation: no stale route is left.
InstalledAreCurrent ==
  pc = "install" => \A i \in DOMAIN routes : ~Stale(routes[i])

\* A linked prefix that was withdrawn, or whose router is not reached any more.
DeadLink(q) == q = Freed \/ ResultOf(q.level, q.host) = {}

\* What may stop a run: its newest route has become stale; an earlier run deleted
\* a route and this one meets a new one; a prefix has no preference; prefixes that
\* are equally good have too many next hops; a link is dead, after both levels ran.
HeadIsStale == next = 2 /\ Stale(routes[1])
NewAfterDeletion == SearchOverruns /\ \E k \in Key : Candidates(k) # {} /\ RoutesFor(k) = {}
PreferenceMissing == \E k \in Key : \E u \in Candidates(k) : Pref(u.pfx) = NoPreference
HopsOverflow ==
  \E k \in Key : \E some \in SUBSET Candidates(k) :
    /\ \A u, v \in some : ~Beats(u, v)
    /\ Cardinality(UNION {u.hops : u \in some}) > MaxNh
LinkIsDead ==
  /\ \A l \in Level : version[l] > 0
  /\ \E i \in DOMAIN routes : \E q \in ToSet(routes[i].like) : DeadLink(q)

\* A run stops the process for one of these reasons only.  In particular, while a
\* router runs one level, no prefix that was withdrawn and no router that was lost
\* leaves a link that a later run follows.
StopsExplained ==
  pc = "abort" =>
    HeadIsStale \/ NewAfterDeletion \/ PreferenceMissing \/ HopsOverflow \/ LinkIsDead

\* The routes a run leaves depend on what is advertised and reached, not on the
\* order in which prefixes arrive, nor on the routes of earlier runs.
RoutesExact == RoutesAreBest /\ AdvertisedKeysHaveRoutes /\ BestPrefixFirst
=============================================================================
