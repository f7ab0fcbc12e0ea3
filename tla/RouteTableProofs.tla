-------------------------- MODULE RouteTableProofs --------------------------
(***************************************************************************)
(* The route table: one inductive invariant, RouteInv, and what follows    *)
(* from it: the types, that a run leaves exactly the best routes if it     *)
(* ends, that inet.0 follows the routes, that a run of one level respects  *)
(* the routes of the other, and why a run may stop the process instead of  *)
(* ending, for any prefixes, results and number of commands.               *)
(***************************************************************************)
EXTENDS RouteTable, SequenceLemmas, FiniteSetTheorems

\* The updates for a key that a run has worked off.
Done(k) == {u \in Candidates(k) : u \notin todo}

\* A route stands for the best of a set of updates.
Stands(r, done) ==
  /\ \E u \in done : Equal(r, u)
  /\ \A u \in done : ~Better(r, u)
  /\ r.hops = UNION {u.hops : u \in {v \in done : Equal(r, v)}}

\* What a run that has worked off these updates has made of their route: one of
\* the other level is preferred to them all, one of this level is the best of
\* them or still as it was.
Built(r, done) ==
  IF r.level # lvl THEN \A u \in done : RoutePreference(r.flags, r.level) < Pref(u.pfx)
  ELSE IF Current(r) THEN Stands(r, done) ELSE done = {}

\* The first linked prefix is one of the best.
FirstIsBest(r, done) ==
  r.level = lvl /\ Current(r) /\ ~External(r.flags) /\ r.key # Default /\ LiveLinks(r) =>
    /\ r.like # <<>>
    /\ \E u \in done : Equal(r, u) /\ u.linked /\ u.pfx = r.like[1]

\* No linked prefix is preferred to its route.
LinksOK(r) ==
  /\ RoutePreference(r.flags, r.level) < Unknown
  /\ LiveLinks(r) => \A j \in DOMAIN r.like :
                       RoutePreference(r.flags, r.level) <= Pref(r.like[j])

RunOK ==
  pc \in {"build", "install"} =>
    /\ todo \subseteq Updates
    /\ pc = "install" => todo = {}
    /\ \A k \in Key : Done(k) # {} => RoutesFor(k) # {}
    /\ \A i \in DOMAIN routes : /\ Built(routes[i], Done(routes[i].key))
                                /\ FirstIsBest(routes[i], Done(routes[i].key))

\* The table has the route's next hops.
Forwards(r) == r.key \in DOMAIN rib /\ rib[r.key] = [level |-> r.level, hops |-> r.hops]

\* The table during a run: what the other level installed is untouched, and next
\* hops without a route are those of the run's level, until these are flushed.
RibOK ==
  /\ pc = "idle" => RibFollowsRoutes
  /\ pc \in {"build", "install"} =>
       /\ \A i \in DOMAIN routes : routes[i].level # lvl => Forwards(routes[i])
       /\ \A k \in DOMAIN rib : rib[k].hops # {} =>
            \/ pc = "build" /\ rib[k].level = lvl
            \/ \E i \in DOMAIN routes : /\ routes[i].key = k
                                        /\ \/ routes[i].level # lvl
                                           \/ pc = "install" /\ i < next
  /\ pc = "install" =>
       \A i \in DOMAIN routes : i < next /\ routes[i].level = lvl =>
         Current(routes[i]) /\ Forwards(routes[i])

Versions == \A l \in Level : version[l] <= cmds
Found == \A l \in Level : spf[l] \in Results[l] \cup {<<>>}

AllLinksOK == \A i \in DOMAIN routes : LinksOK(routes[i])

RouteInv == TablesOK /\ RunOK /\ AllLinksOK /\ RibOK /\ Versions /\ Found

-----------------------------------------------------------------------------
(* Preferences.                                                            *)

\* The preferences of the two levels differ, and a preference tells whether the
\* metric is external.
LEMMA PrefFacts ==
  ASSUME NEW f \in SUBSET Flags, NEW l \in Level
  PROVE  /\ RoutePreference(f, l) \in 0..7
         /\ l = 1 => RoutePreference(f, l) \in {0, 2, 3, 5, 6}
         /\ l = 2 => RoutePreference(f, l) \in {1, 4, 6, 7}
         /\ RoutePreference(f, l) < 6 => (External(f) <=> RoutePreference(f, l) \in {3, 4, 5})
         /\ External(f) /\ "ext" \in f => RoutePreference(f, l) # 6
         /\ ~External(f) => RoutePreference(f, l) # 6
  BY DEF RoutePreference, Level, Unknown, NoPreference

\* What is known of an update.
UpdateOK(u) ==
  /\ u.at \in DOMAIN spf[lvl]
  /\ u.dist = spf[lvl][u.at].metric /\ u.dist \in Nat
  /\ u.hops \in SUBSET Hop /\ Cardinality(u.hops) <= MaxNh
  /\ u.pfx.level = lvl /\ u.pfx.key \in Key /\ u.pfx.metric \in 0..Inf
  /\ u.pfx.flags \in SUBSET Flags
  /\ u.pfx.host = spf[lvl][u.at].node
  /\ u.pfx.host \in {p.host : p \in Prefix} \cup AttachedNodes
  /\ Pref(u.pfx) \in Nat /\ Pref(u.pfx) # Unknown
  /\ UpdateCost(u) \in Nat
  /\ u.linked \in BOOLEAN
  /\ u.linked => u.pfx \in Prefix
  /\ ~u.linked => u.pfx.key = Default

LEMMA UpdateFacts ==
  ASSUME TablesOK, Found, NEW u \in Updates
  PROVE  UpdateOK(u)
<1>1. PICK i \in DOMAIN spf[lvl] : u \in UpdatesOf(i)
  BY DEF Updates
<1>2. /\ spf[lvl] \in Seq(Result) /\ lvl \in Level
      /\ \A j \in DOMAIN spf[lvl] : /\ spf[lvl][j].metric \in Nat
                                   /\ Cardinality(spf[lvl][j].hops) <= MaxNh
  BY RouteConstants DEF TablesOK, Found
<1>3. spf[lvl][i] \in Result
  BY <1>1, <1>2
<1>4. spf[lvl][i].hops \in SUBSET Hop
  BY <1>3 DEF Hop
<1>5. u \in {Update(p, i, TRUE) : p \in {q \in adv : q.host = spf[lvl][i].node /\ q.level = lvl}}
        \/ (lvl = 1 /\ spf[lvl][i].node \in AttachedNodes
            /\ u = Update(DefaultPrefix(spf[lvl][i].node), i, FALSE))
  BY <1>1 DEF UpdatesOf
<1>6. CASE \E p \in adv : /\ p.host = spf[lvl][i].node /\ p.level = lvl
                          /\ u = Update(p, i, TRUE)
  <2>1. PICK p \in adv : /\ p.host = spf[lvl][i].node /\ p.level = lvl
                         /\ u = Update(p, i, TRUE)
    BY <1>6
  <2>2. /\ p \in Prefix /\ p.level \in Level /\ p.key \in Key
        /\ p.metric \in 0..Inf /\ p.flags \in SUBSET Flags
        /\ External(p.flags) => "ext" \in p.flags
    BY RouteConstants, ExternalMetrics DEF TablesOK
  <2>3. u.pfx = p /\ u.at = i /\ u.dist = spf[lvl][i].metric /\ u.hops = spf[lvl][i].hops
        /\ u.linked = TRUE
    BY <2>1 DEF Update
  <2>4. Pref(p) \in Nat /\ Pref(p) # Unknown
    BY <2>2, PrefFacts DEF Pref, Unknown
  <2>5. UpdateCost(u) \in Nat
    BY <2>2, <2>3, <1>2, RouteConstants DEF UpdateCost
  <2> QED
    BY <1>1, <1>2, <1>4, <2>1, <2>2, <2>3, <2>4, <2>5 DEF UpdateOK
<1>7. CASE /\ lvl = 1 /\ spf[lvl][i].node \in AttachedNodes
           /\ u = Update(DefaultPrefix(spf[lvl][i].node), i, FALSE)
  <2>1. /\ u.pfx = DefaultPrefix(spf[lvl][i].node) /\ u.at = i
        /\ u.dist = spf[lvl][i].metric /\ u.hops = spf[lvl][i].hops /\ u.linked = FALSE
    BY <1>7 DEF Update
  <2>2. /\ u.pfx.host = spf[lvl][i].node /\ u.pfx.level = 1 /\ u.pfx.key = Default
        /\ u.pfx.metric = 0 /\ u.pfx.flags = {}
    BY <2>1 DEF DefaultPrefix
  <2>3. Pref(u.pfx) \in Nat /\ Pref(u.pfx) # Unknown
    <3>1. {} \in SUBSET Flags /\ 1 \in Level /\ ~External({})
      BY DEF Level, External
    <3> QED
      BY <2>2, <3>1, PrefFacts DEF Pref, Unknown
  <2>4. UpdateCost(u) \in Nat
    BY <2>1, <2>2, <1>1, <1>2 DEF UpdateCost
  <2> QED
    <3>1. Default \in Key /\ 0 \in 0..Inf
      BY RouteConstants
    <3> QED
      BY <1>1, <1>2, <1>4, <1>7, <2>1, <2>2, <2>3, <2>4, <3>1 DEF UpdateOK
<1> QED
  BY <1>5, <1>6, <1>7

\* What a run reads does not change while it works.
SameRun == UNCHANGED <<adv, ignore, multi, spf, version, lvl>>

LEMMA SameUpdates ==
  ASSUME SameRun
  PROVE  Updates' = Updates /\ \A k : Candidates(k)' = Candidates(k)
<1>1. Updates' = Updates
  BY DEF SameRun, Updates, UpdatesOf, Update
<1> QED
  BY <1>1 DEF Candidates

-----------------------------------------------------------------------------
(* Standing for the best of a set of updates.                              *)

\* An update that neither replaces a route nor is merged into it.
Worse(r, u) == ~Better(r, u) /\ ~Equal(r, u)

\* The numbers that are compared.
Ranked(r) == /\ r.flags \in SUBSET Flags /\ r.level \in Level
             /\ RouteCost(r) \in Nat /\ RoutePreference(r.flags, r.level) \in Nat
Rankable(u) == Pref(u.pfx) \in Nat /\ UpdateCost(u) \in Nat

\* What is no better than a route is worse than an update that is.
LEMMA BetterIsTransitive ==
  ASSUME NEW r, NEW q, NEW u, NEW v, Ranked(r), Ranked(q), Rankable(u), Rankable(v),
         Better(r, u), ~Better(r, v), Equal(q, u)
  PROVE  Worse(q, v)
  BY DEF Ranked, Rankable, Better, Equal, Worse

\* Updates that are all worse leave an update as the only best one.
LEMMA StandsAlone ==
  ASSUME NEW q, NEW u, NEW done, \A v \in done : Worse(q, v),
         Ranked(q), Rankable(u), Equal(q, u), q.hops = u.hops
  PROVE  Stands(q, done \cup {u})
<1>1. ~Better(q, u)
  BY DEF Ranked, Rankable, Better, Equal
<1>2. {v \in done \cup {u} : Equal(q, v)} = {u}
  BY DEF Worse
<1>3. UNION {w.hops : w \in {u}} = u.hops
  OBVIOUS
<1> QED
  BY <1>1, <1>2, <1>3 DEF Stands, Worse

\* One more update adds its next hops.
LEMMA HopsAdded ==
  ASSUME NEW A, NEW u
  PROVE  UNION {w.hops : w \in A \cup {u}} = (UNION {w.hops : w \in A}) \cup u.hops
  OBVIOUS

\* An equal update adds its next hops.
LEMMA StandsMerged ==
  ASSUME NEW r, NEW q, NEW u, NEW done, Stands(r, done),
         Ranked(q), Rankable(u), Equal(q, u), q.hops = r.hops \cup u.hops,
         \A v : (Better(q, v) <=> Better(r, v)) /\ (Equal(q, v) <=> Equal(r, v))
  PROVE  Stands(q, done \cup {u})
<1>1. ~Better(q, u)
  BY DEF Ranked, Rankable, Better, Equal
<1>2. {v \in done \cup {u} : Equal(q, v)} = {v \in done : Equal(r, v)} \cup {u}
  OBVIOUS
<1>3. UNION {w.hops : w \in {v \in done : Equal(r, v)} \cup {u}} =
        (UNION {w.hops : w \in {v \in done : Equal(r, v)}}) \cup u.hops
  BY HopsAdded
<1>4. /\ \E v \in done : Equal(r, v)
      /\ \A v \in done : ~Better(r, v)
      /\ r.hops = UNION {v.hops : v \in {w \in done : Equal(r, w)}}
  BY DEF Stands
<1>5. q.hops = UNION {v.hops : v \in {w \in done \cup {u} : Equal(q, w)}}
  BY <1>2, <1>3, <1>4
<1> QED
  BY <1>1, <1>4, <1>5 DEF Stands

\* A worse update changes nothing.
LEMMA StandsStill ==
  ASSUME NEW r, NEW q, NEW u, NEW done, Stands(r, done), Worse(r, u), q.hops = r.hops,
         \A v : (Better(q, v) <=> Better(r, v)) /\ (Equal(q, v) <=> Equal(r, v))
  PROVE  Stands(q, done \cup {u})
<1>1. {v \in done \cup {u} : Equal(q, v)} = {v \in done : Equal(r, v)}
  BY DEF Worse
<1>2. /\ \E v \in done : Equal(r, v)
      /\ \A v \in done : ~Better(r, v)
      /\ r.hops = UNION {v.hops : v \in {w \in done : Equal(r, w)}}
  BY DEF Stands
<1>3. q.hops = UNION {v.hops : v \in {w \in done \cup {u} : Equal(q, w)}}
  BY <1>1, <1>2
<1> QED
  BY <1>2, <1>3 DEF Stands, Worse

\* A route that stands for a set of updates has the preference, the cost and the
\* next hops of the best of them.
LEMMA StandsForBest ==
  ASSUME NEW r, NEW done, Ranked(r), \A v \in done : Rankable(v), Stands(r, done)
  PROVE  /\ BestOf(done) = {u \in done : Equal(r, u)}
         /\ BestOf(done) # {}
         /\ \A u \in BestOf(done) : Equal(r, u)
         /\ r.hops = UNION {u.hops : u \in BestOf(done)}
<1>1. PICK w \in done : Equal(r, w)
  BY DEF Stands
<1>2. \A v \in done : ~Better(r, v)
  BY DEF Stands
<1>3. ASSUME NEW u \in done, Equal(r, u)  PROVE u \in BestOf(done)
  <2>1. ASSUME NEW v \in done, Beats(v, u)  PROVE FALSE
    <3>1. Rankable(u) /\ Rankable(v) /\ ~Better(r, v)
      BY <1>2
    <3> QED
      BY <1>3, <2>1, <3>1 DEF Beats, Equal, Better, Rankable, Ranked
  <2> QED
    BY <2>1 DEF BestOf
<1>4. ASSUME NEW u \in BestOf(done)  PROVE u \in done /\ Equal(r, u)
  <2>1. u \in done /\ ~Beats(w, u)
    BY DEF BestOf
  <2>2. Rankable(u) /\ Rankable(w) /\ ~Better(r, u)
    BY <1>2, <2>1
  <2> QED
    BY <1>1, <2>1, <2>2 DEF Beats, Equal, Better, Rankable, Ranked
<1>5. BestOf(done) = {u \in done : Equal(r, u)}
  BY <1>3, <1>4 DEF BestOf
<1>6. r.hops = UNION {u.hops : u \in {v \in done : Equal(r, v)}}
  BY DEF Stands
<1> QED
  BY <1>1, <1>3, <1>4, <1>5, <1>6

-----------------------------------------------------------------------------
(* Linked prefixes.                                                        *)

Pointer == Prefix \cup {Freed}

\* What linking the prefix of an update to a list of prefixes may leave.
LinkedIn(like, u, q) ==
  /\ q \in Seq(Pointer) /\ q # <<>>
  /\ \A j \in DOMAIN q : q[j] = u.pfx \/ \E h \in DOMAIN like : q[j] = like[h]
  /\ \A h \in DOMAIN like : \E j \in DOMAIN q : q[j] = like[h]
  /\ \/ q[1] = u.pfx /\ (like # <<>> => LinkBefore(u, like[1]))
     \/ like # <<>> /\ q[1] = like[1] /\ LinkAfter(u, like[1])

LEMMA LinkFacts ==
  ASSUME NEW like \in Seq(Pointer), NEW u, u.linked, u.pfx \in Prefix,
         NEW q \in Linked(like, u)
  PROVE  LinkedIn(like, u, q)
<1>1. PICK i \in LinkPositions(like, u) : q = InsertAt(like, i, u.pfx)
  BY DEF Linked
<1>2. /\ i \in 1..(Len(like) + 1)
      /\ \A j \in 1..(i - 1) : LinkAfter(u, like[j])
      /\ i <= Len(like) => LinkBefore(u, like[i])
  BY DEF LinkPositions
<1>3. PICK n \in Nat : Len(like) = n /\ DOMAIN like = 1..n
  BY LenProperties
<1>4. /\ q \in Seq(Pointer) /\ Len(q) = n + 1
      /\ \A j \in 1..(n + 1) : q[j] = IF j < i THEN like[j]
                                      ELSE IF j = i THEN u.pfx ELSE like[j - 1]
  <2>1. u.pfx \in Pointer
    BY DEF Pointer
  <2>2. InsertAt(like, i, u.pfx) \in Seq(Pointer)
    BY <1>2, <2>1, InsertAtFacts
  <2>3. Len(InsertAt(like, i, u.pfx)) = Len(like) + 1
    BY <1>2, <2>1, InsertAtFacts
  <2>4. \A j \in 1..(Len(like) + 1) : InsertAt(like, i, u.pfx)[j] =
          IF j < i THEN like[j] ELSE IF j = i THEN u.pfx ELSE like[j - 1]
    BY <1>2, <2>1, InsertAtFacts
  <2> QED
    BY <1>1, <1>3, <2>2, <2>3, <2>4
<1>5. DOMAIN q = 1..(n + 1) /\ q # <<>>
  BY <1>4, LenProperties
<1>6. i \in 1..(n + 1)
  BY <1>2, <1>3
<1>7. ASSUME NEW j \in DOMAIN q
      PROVE  q[j] = u.pfx \/ \E h \in DOMAIN like : q[j] = like[h]
  <2>1. CASE j < i
    BY <1>3, <1>4, <1>5, <1>6, <2>1
  <2>2. CASE j = i
    BY <1>4, <1>5, <1>6, <2>2
  <2>3. CASE j > i
    <3>1. j - 1 \in 1..n /\ q[j] = like[j - 1]
      BY <1>4, <1>5, <1>6, <2>3
    <3> QED
      BY <1>3, <3>1
  <2> QED
    BY <1>5, <1>6, <2>1, <2>2, <2>3
<1>8. ASSUME NEW h \in DOMAIN like
      PROVE  \E j \in DOMAIN q : q[j] = like[h]
  <2>1. CASE h < i
    BY <1>3, <1>4, <1>5, <1>6, <2>1
  <2>2. CASE h >= i
    <3>1. h + 1 \in 1..(n + 1) /\ q[h + 1] = like[h]
      BY <1>3, <1>4, <1>6, <2>2
    <3> QED
      BY <1>5, <3>1
  <2> QED
    BY <1>3, <1>6, <2>1, <2>2
<1>9. \/ q[1] = u.pfx /\ (like # <<>> => LinkBefore(u, like[1]))
      \/ like # <<>> /\ q[1] = like[1] /\ LinkAfter(u, like[1])
  <2>1. CASE i = 1
    <3>1. q[1] = u.pfx
      BY <1>4, <1>6, <2>1
    <3>2. like # <<>> => i <= Len(like)
      BY <1>3, <2>1, EmptySeq
    <3> QED
      BY <1>2, <2>1, <3>1, <3>2
  <2>2. CASE i # 1
    <3>1. q[1] = like[1] /\ 1 \in 1..(i - 1) /\ n # 0
      BY <1>4, <1>6, <2>2
    <3> QED
      BY <1>2, <1>3, <3>1
  <2> QED
    BY <2>1, <2>2
<1> QED
  BY <1>4, <1>5, <1>7, <1>8, <1>9 DEF LinkedIn

\* An update that does not link leaves the list alone.
LEMMA UnlinkedFacts ==
  ASSUME NEW like, NEW u, ~u.linked, NEW q \in Linked(like, u)
  PROVE  q = like
  BY DEF Linked

LEMMA LinkedType ==
  ASSUME NEW u, UpdateOK(u), NEW like \in Seq(Pointer), NEW q \in Linked(like, u)
  PROVE  q \in Seq(Pointer)
<1>1. CASE u.linked
  <2>1. LinkedIn(like, u, q)
    BY <1>1, LinkFacts DEF UpdateOK
  <2> QED
    BY <2>1 DEF LinkedIn
<1>2. CASE ~u.linked
  BY <1>2, UnlinkedFacts
<1> QED
  BY <1>1, <1>2

-----------------------------------------------------------------------------
(* What an update does to a route.                                         *)

\* A route that differs in its linked prefixes only.
SameButLike(s, r) ==
  /\ s.key = r.key /\ s.level = r.level /\ s.version = r.version /\ s.flags = r.flags
  /\ s.spf = r.spf /\ s.ext = r.ext /\ s.hops = r.hops

Relinked(r, q, s) == s \in Route /\ s.like = q /\ SameButLike(s, r)

LEMMA RelinkFacts ==
  ASSUME NEW r \in Route, NEW q \in Seq(Pointer)
  PROVE  Relinked(r, q, [r EXCEPT !.like = q])
  BY DEF Relinked, SameButLike, Route, Pointer

\* A route that has just been taken over by an update.
Takes(s, u) ==
  /\ s \in Route /\ s.key = u.pfx.key /\ s.level = lvl /\ s.version = version[lvl]
  /\ s.flags = u.pfx.flags /\ s.hops = u.hops /\ RouteCost(s) = UpdateCost(u)

LEMMA OverwriteFacts ==
  ASSUME TablesOK, NEW u, UpdateOK(u), NEW r \in Route, r.key = u.pfx.key
  PROVE  /\ Takes(Overwritten(r, u), u)
         /\ Overwritten(r, u).like = IF r.level = lvl THEN <<>> ELSE r.like
<1>1. PICK s : s = Overwritten(r, u)
  OBVIOUS
<1>2. /\ lvl \in Level /\ version[lvl] \in Nat
      /\ u.pfx.flags \in SUBSET Flags /\ u.hops \in SUBSET Hop /\ u.dist \in Nat
      /\ u.pfx.metric \in Nat
      /\ u.pfx.host \in {p.host : p \in Prefix} \cup AttachedNodes
  BY RouteConstants DEF TablesOK, UpdateOK
<1>3. /\ s \in Route
      /\ s.key = r.key /\ s.level = lvl /\ s.version = version[lvl] /\ s.flags = u.pfx.flags
      /\ s.hops = u.hops /\ s.like = IF r.level = lvl THEN <<>> ELSE r.like
      /\ s.spf = IF External(u.pfx.flags) THEN u.dist ELSE u.dist + u.pfx.metric
      /\ s.ext = IF External(u.pfx.flags) THEN u.pfx.metric ELSE r.ext
  <2> DEFINE a == IF External(u.pfx.flags) THEN u.dist ELSE u.dist + u.pfx.metric
             b == IF External(u.pfx.flags) THEN u.pfx.metric ELSE r.ext
             c == IF r.level = lvl THEN <<>> ELSE r.like
  <2>1. r.ext \in Nat /\ r.like \in Seq(Pointer)
    BY DEF Route, Pointer
  <2>2. a \in Nat /\ b \in Nat
    BY <1>2, <2>1
  <2>3. c \in Seq(Pointer)
    BY <2>1
  <2>4. s = [r EXCEPT !.version = version[lvl], !.flags = u.pfx.flags, !.level = lvl,
                      !.host = u.pfx.host, !.hops = u.hops, !.spf = a, !.ext = b, !.like = c]
    BY <1>1 DEF Overwritten
  <2> HIDE DEF a, b, c
  <2>5. /\ s \in Route
        /\ s.key = r.key /\ s.level = lvl /\ s.version = version[lvl]
        /\ s.flags = u.pfx.flags /\ s.hops = u.hops /\ s.spf = a /\ s.ext = b /\ s.like = c
    BY <1>2, <2>2, <2>3, <2>4 DEF Route, Pointer
  <2> QED
    BY <2>5 DEF a, b, c
<1>4. RouteCost(s) = UpdateCost(u)
  BY <1>3 DEF RouteCost, UpdateCost
<1> QED
  BY <1>1, <1>3, <1>4 DEF Takes

LEMMA TakesIsEqual ==
  ASSUME TablesOK, NEW u, UpdateOK(u), NEW s, Takes(s, u)
  PROVE  Equal(s, u) /\ Ranked(s) /\ Rankable(u)
<1>1. RoutePreference(s.flags, s.level) = Pref(u.pfx)
  BY DEF Takes, UpdateOK, Pref
<1> QED
  BY <1>1 DEF Takes, UpdateOK, Equal, Ranked, Rankable, TablesOK

LEMMA RouteIsRanked ==
  ASSUME NEW r \in Route
  PROVE  Ranked(r)
<1>1. /\ r.flags \in SUBSET Flags /\ r.level \in Level /\ r.spf \in Nat /\ r.ext \in Nat
  BY DEF Route
<1> QED
  BY <1>1, PrefFacts DEF Ranked, RouteCost

\* The result list finds the router of an update at the update's distance.
LEMMA DistFacts ==
  ASSUME TablesOK, Found, NEW u, UpdateOK(u)
  PROVE  ResultOf(u.pfx.level, u.pfx.host) # {} /\ DistOf(u.pfx.level, u.pfx.host) = u.dist
<1>1. /\ u.at \in DOMAIN spf[lvl] /\ u.pfx.level = lvl
      /\ u.dist = spf[lvl][u.at].metric /\ u.pfx.host = spf[lvl][u.at].node
  BY DEF UpdateOK
<1>2. /\ lvl \in Level /\ spf[lvl] \in Seq(Result)
      /\ \A i, j \in DOMAIN spf[lvl] : spf[lvl][i].node = spf[lvl][j].node => i = j
  BY RouteConstants DEF TablesOK, Found
<1>3. ToSet(spf[lvl]) = {spf[lvl][i] : i \in DOMAIN spf[lvl]}
  BY DEF ToSet
<1>4. ResultOf(lvl, u.pfx.host) = {spf[lvl][u.at]}
  BY <1>1, <1>2, <1>3 DEF ResultOf
<1> QED
  BY <1>1, <1>4 DEF DistOf

\* How an update of this run compares with one that is linked.
LEMMA TieFacts ==
  ASSUME TablesOK, Found, NEW u, UpdateOK(u), NEW v, UpdateOK(v), v.linked,
         ~External(v.pfx.flags), Pref(v.pfx) < Unknown
  PROVE  /\ LinkBefore(u, v.pfx) => \/ Pref(u.pfx) < Pref(v.pfx)
                                    \/ Pref(u.pfx) = Pref(v.pfx) /\ UpdateCost(u) <= UpdateCost(v)
         /\ LinkAfter(u, v.pfx) => \/ Pref(u.pfx) > Pref(v.pfx)
                                   \/ Pref(u.pfx) = Pref(v.pfx) /\ UpdateCost(u) > UpdateCost(v)
<1>1. v.pfx # Freed
  BY RouteConstants DEF UpdateOK
<1>2. DistOf(v.pfx.level, v.pfx.host) = v.dist
  BY DistFacts
<1>3. Pref(u.pfx) = Pref(v.pfx) => ~External(u.pfx.flags)
  <2>1. /\ u.pfx.flags \in SUBSET Flags /\ v.pfx.flags \in SUBSET Flags
        /\ u.pfx.level \in Level /\ v.pfx.level \in Level
    BY DEF UpdateOK, TablesOK
  <2> QED
    BY <2>1, PrefFacts DEF Pref, Unknown
<1>4. Pref(u.pfx) = Pref(v.pfx) =>
        /\ LinkMetric(u.pfx, u.dist) = UpdateCost(u)
        /\ LinkMetric(v.pfx, v.dist) = UpdateCost(v)
  BY <1>3 DEF LinkMetric, UpdateCost
<1>5. UpdateCost(u) \in Nat /\ UpdateCost(v) \in Nat /\ Pref(u.pfx) \in Nat /\ Pref(v.pfx) \in Nat
  BY DEF UpdateOK
<1> QED
  BY <1>1, <1>2, <1>4, <1>5 DEF LinkBefore, LinkAfter, Ties

\* An update that passes the assertions on preferences.
Usable(u) == UpdateOK(u) /\ Pref(u.pfx) # NoPreference

\* A set of updates for one key.
UpdatesFor(done, k) == \A v \in done : UpdateOK(v) /\ v.pfx.key = k

\* A route after an update: it is right for one update more.
Right(s, done) ==
  s \in Route /\ Built(s, done) /\ FirstIsBest(s, done) /\ LinksOK(s)

LEMMA UsablePref ==
  ASSUME TablesOK, NEW u, Usable(u)
  PROVE  Pref(u.pfx) \in 0..5
<1>1. u.pfx.flags \in SUBSET Flags /\ u.pfx.level \in Level /\ Pref(u.pfx) # Unknown
  BY DEF Usable, UpdateOK, TablesOK
<1> QED
  BY <1>1, PrefFacts DEF Usable, Pref, Unknown, NoPreference

\* Preferences of different levels are different.
LEMMA LevelsDiffer ==
  ASSUME TablesOK, NEW u, Usable(u), NEW r \in Route, r.level # lvl, LinksOK(r)
  PROVE  RoutePreference(r.flags, r.level) # Pref(u.pfx)
<1>1. /\ u.pfx.flags \in SUBSET Flags /\ u.pfx.level = lvl /\ lvl \in Level
      /\ r.flags \in SUBSET Flags /\ r.level \in Level
  BY DEF Usable, UpdateOK, TablesOK, Route
<1>2. Pref(u.pfx) \in 0..5 /\ RoutePreference(r.flags, r.level) < 6
  BY UsablePref DEF LinksOK, Unknown
<1>3. Pref(u.pfx) = RoutePreference(u.pfx.flags, lvl)
  BY <1>1 DEF Pref
<1>4. CASE lvl = 1 /\ r.level = 2
  <2>1. Pref(u.pfx) \in {0, 2, 3, 5, 6} /\ RoutePreference(r.flags, r.level) \in {1, 4, 6, 7}
    BY <1>1, <1>3, <1>4, PrefFacts
  <2> QED
    BY <1>2, <2>1
<1>5. CASE lvl = 2 /\ r.level = 1
  <2>1. Pref(u.pfx) \in {1, 4, 6, 7} /\ RoutePreference(r.flags, r.level) \in {0, 2, 3, 5, 6}
    BY <1>1, <1>3, <1>5, PrefFacts
  <2> QED
    BY <1>2, <2>1
<1> QED
  BY <1>1, <1>4, <1>5 DEF Level

LEMMA PointerPref ==
  ASSUME NEW like \in Seq(Pointer), NEW h \in DOMAIN like, like[h] # Freed
  PROVE  Pref(like[h]) \in 0..7
<1>1. like[h] \in Prefix
  BY LenProperties DEF Pointer
<1>2. like[h].flags \in SUBSET Flags /\ like[h].level \in Level
  BY <1>1, RouteConstants
<1> QED
  BY <1>2, PrefFacts DEF Pref

\* A list without a freed prefix was so before something was linked to it.
LEMMA LiveBefore ==
  ASSUME NEW like, NEW u, NEW q, LinkedIn(like, u, q), Freed \notin ToSet(q)
  PROVE  Freed \notin ToSet(like)
  BY DEF LinkedIn, ToSet

\* A route that an update has taken over, when all earlier updates are worse and
\* the prefixes that stay linked belong to less preferred ones.
LEMMA TakenOver ==
  ASSUME TablesOK, Found, NEW u, Usable(u), NEW s, Takes(s, u),
         NEW like \in Seq(Pointer), s.like \in Linked(like, u),
         Freed \notin ToSet(like) => \A h \in DOMAIN like : Pref(u.pfx) < Pref(like[h]),
         NEW done, \A v \in done : Worse(s, v)
  PROVE  Right(s, done \cup {u})
<1>1. UpdateOK(u) /\ s \in Route /\ s.level = lvl /\ Current(s)
  BY DEF Usable, Takes, Current
<1>2. Equal(s, u) /\ Ranked(s) /\ Rankable(u)
  BY <1>1, TakesIsEqual
<1>3. Built(s, done \cup {u})
  BY <1>1, <1>2, StandsAlone DEF Built, Takes
<1>4. RoutePreference(s.flags, s.level) = Pref(u.pfx) /\ Pref(u.pfx) \in 0..5
  BY <1>2, UsablePref DEF Equal
<1>5. LinksOK(s)
  <2>1. CASE u.linked
    <3>1. LinkedIn(like, u, s.like)
      BY <1>1, <2>1, LinkFacts DEF UpdateOK
    <3>2. ASSUME LiveLinks(s), NEW j \in DOMAIN s.like
          PROVE  RoutePreference(s.flags, s.level) <= Pref(s.like[j])
      <4>1. Freed \notin ToSet(like)
        BY <3>1, <3>2, LiveBefore DEF LiveLinks
      <4>2. CASE s.like[j] = u.pfx
        BY <1>4, <4>2
      <4>3. CASE \E h \in DOMAIN like : s.like[j] = like[h]
        <5>1. PICK h \in DOMAIN like : s.like[j] = like[h]
          BY <4>3
        <5>2. Pref(u.pfx) < Pref(s.like[j])
          BY <4>1, <5>1
        <5>3. Pref(s.like[j]) \in 0..7
          BY <4>1, <5>1, PointerPref DEF ToSet
        <5> QED
          BY <1>4, <5>2, <5>3
      <4> QED
        BY <3>1, <3>2, <4>2, <4>3 DEF LinkedIn
    <3> QED
      BY <1>4, <3>2 DEF LinksOK, Unknown
  <2>2. CASE ~u.linked
    <3>1. s.like = like
      BY <2>2, UnlinkedFacts
    <3>2. ASSUME LiveLinks(s), NEW j \in DOMAIN s.like
          PROVE  RoutePreference(s.flags, s.level) <= Pref(s.like[j])
      <4>1. Pref(u.pfx) < Pref(s.like[j])
        BY <3>1, <3>2 DEF LiveLinks
      <4>2. Pref(s.like[j]) \in 0..7
        BY <3>1, <3>2, PointerPref DEF LiveLinks, ToSet
      <4> QED
        BY <1>4, <4>1, <4>2
    <3> QED
      BY <1>4, <3>2 DEF LinksOK, Unknown
  <2> QED
    BY <2>1, <2>2
<1>6. FirstIsBest(s, done \cup {u})
  <2> SUFFICES ASSUME s.key # Default, LiveLinks(s)
               PROVE  s.like # <<>> /\ s.like[1] = u.pfx /\ u.linked
    BY <1>2 DEF FirstIsBest
  <2>1. u.linked
    BY <1>1 DEF UpdateOK, Takes
  <2>2. LinkedIn(like, u, s.like)
    BY <1>1, <2>1, LinkFacts DEF UpdateOK
  <2>3. Freed \notin ToSet(like)
    BY <2>2, LiveBefore DEF LiveLinks
  <2>4. ASSUME like # <<>>, LinkAfter(u, like[1])  PROVE FALSE
    <3>1. 1 \in DOMAIN like
      BY <2>4, EmptySeq, LenProperties
    <3>2. Pref(u.pfx) < Pref(like[1]) /\ like[1] # Freed
      BY <2>3, <3>1 DEF ToSet
    <3>3. Pref(like[1]) \in 0..7
      BY <3>1, <3>2, PointerPref
    <3> QED
      BY <1>4, <2>4, <3>2, <3>3 DEF LinkAfter, Ties
  <2> QED
    BY <2>1, <2>2, <2>4 DEF LinkedIn
<1> QED
  BY <1>1, <1>3, <1>5, <1>6 DEF Right

\* Linking a prefix that is not preferred to the route.
LEMMA LinksStayOK ==
  ASSUME TablesOK, NEW u, UpdateOK(u), NEW r \in Route, LinksOK(r), NEW s \in Route,
         RoutePreference(s.flags, s.level) = RoutePreference(r.flags, r.level),
         RoutePreference(r.flags, r.level) <= Pref(u.pfx), s.like \in Linked(r.like, u)
  PROVE  LinksOK(s)
<1>1. r.like \in Seq(Pointer)
  BY DEF Route, Pointer
<1>2. CASE u.linked
  <2>1. LinkedIn(r.like, u, s.like)
    BY <1>1, <1>2, LinkFacts DEF UpdateOK
  <2>2. LiveLinks(s) => LiveLinks(r)
    BY <2>1, LiveBefore DEF LiveLinks
  <2> QED
    BY <2>1, <2>2 DEF LinksOK, LinkedIn
<1>3. CASE ~u.linked
  <2>1. s.like = r.like
    BY <1>3, UnlinkedFacts
  <2> QED
    BY <2>1 DEF LinksOK, LiveLinks
<1> QED
  BY <1>2, <1>3

\* A route that did not exist before.
LEMMA NewIsRight ==
  ASSUME TablesOK, Found, NEW u, Usable(u), NEW like \in Linked(<<>>, u),
         NEW s, s = [NewRoute(u) EXCEPT !.like = like]
  PROVE  Takes(s, u) /\ Right(s, {u})
<1> DEFINE r == [key |-> u.pfx.key, level |-> lvl, version |-> 0, flags |-> {},
                 host |-> u.pfx.host, spf |-> 0, ext |-> 0, hops |-> {}, like |-> <<>>]
<1>1. UpdateOK(u)
  BY DEF Usable
<1>2. r \in Route /\ r.key = u.pfx.key /\ r.level = lvl /\ r.like = <<>>
  <2>1. /\ u.pfx.key \in Key /\ lvl \in Level
        /\ u.pfx.host \in {p.host : p \in Prefix} \cup AttachedNodes
    BY <1>1 DEF UpdateOK, TablesOK
  <2>2. <<>> \in Seq(Prefix \cup {Freed}) /\ {} \in SUBSET Flags /\ {} \in SUBSET Hop
    OBVIOUS
  <2> QED
    BY <2>1, <2>2 DEF Route
<1>3. PICK o : o = Overwritten(r, u)
  OBVIOUS
<1>4. Takes(o, u) /\ o.like = <<>>
  BY <1>1, <1>2, <1>3, OverwriteFacts
<1>5. s = [o EXCEPT !.like = like]
  BY <1>3 DEF NewRoute
<1>6. like \in Seq(Pointer)
  <2>1. <<>> \in Seq(Pointer)
    OBVIOUS
  <2> QED
    BY <1>1, <2>1, LinkedType
<1>7. Takes(s, u) /\ s.like = like
  <2>1. o \in Route
    BY <1>4 DEF Takes
  <2>2. Relinked(o, like, s)
    BY <1>5, <1>6, <2>1, RelinkFacts
  <2> QED
    BY <1>4, <2>2 DEF Takes, RouteCost, Relinked, SameButLike
<1>8. <<>> \in Seq(Pointer) /\ \A h \in DOMAIN <<>> : FALSE
  OBVIOUS
<1>9. Right(s, {} \cup {u})
  BY <1>7, <1>8, TakenOver
<1>10. {} \cup {u} = {u}
  OBVIOUS
<1> QED
  BY <1>7, <1>9, <1>10

\* A route that an update overwrites.
LEMMA OverwrittenIsRight ==
  ASSUME TablesOK, Found, NEW u, Usable(u), NEW r \in Route, r.key = u.pfx.key,
         NEW done, UpdatesFor(done, u.pfx.key), Right(r, done), Overwrites(r, u),
         NEW like \in Linked(Overwritten(r, u).like, u),
         NEW s, s = [Overwritten(r, u) EXCEPT !.like = like]
  PROVE  Takes(s, u) /\ Right(s, done \cup {u})
<1>1. UpdateOK(u) /\ Built(r, done) /\ LinksOK(r)
  BY DEF Usable, Right
<1>2. PICK o : o = Overwritten(r, u)
  OBVIOUS
<1>3. Takes(o, u) /\ o.like = IF r.level = lvl THEN <<>> ELSE r.like
  BY <1>1, <1>2, OverwriteFacts
<1>4. r.like \in Seq(Pointer) /\ o.like \in Seq(Pointer) /\ r.level \in Level
  BY <1>3 DEF Route, Pointer
<1>5. like \in Seq(Pointer)
  BY <1>1, <1>2, <1>4, LinkedType
<1>6. s = [o EXCEPT !.like = like]
  BY <1>2
<1>7. Takes(s, u) /\ s.like = like
  <2>1. o \in Route
    BY <1>3 DEF Takes
  <2>2. Relinked(o, like, s)
    BY <1>5, <1>6, <2>1, RelinkFacts
  <2> QED
    BY <1>3, <2>2 DEF Takes, RouteCost, Relinked, SameButLike
<1>8. Equal(s, u) /\ Ranked(s) /\ Rankable(u) /\ Ranked(r)
  BY <1>1, <1>7, TakesIsEqual, RouteIsRanked
<1>9. RoutePreference(s.flags, s.level) = Pref(u.pfx) /\ Pref(u.pfx) \in 0..5
  BY <1>8, UsablePref DEF Equal
<1>10. r.level # lvl => Pref(u.pfx) < RoutePreference(r.flags, r.level)
  <2>1. r.level # lvl => Better(r, u)
    BY DEF Overwrites, Comparable
  <2> QED
    BY <1>1, <2>1, LevelsDiffer DEF Better
<1>11. \A v \in done : Worse(s, v)
  <2> SUFFICES ASSUME NEW v \in done  PROVE Worse(s, v)
    OBVIOUS
  <2>1. UpdateOK(v) /\ Rankable(v)
    BY DEF UpdatesFor, UpdateOK, Rankable
  <2>2. CASE r.level # lvl
    <3>1. RoutePreference(r.flags, r.level) < Pref(v.pfx)
      BY <1>1, <2>2 DEF Built
    <3> QED
      BY <1>8, <1>9, <1>10, <2>1, <2>2, <3>1 DEF Worse, Better, Equal, Ranked, Rankable
  <2>3. CASE r.level = lvl
    <3>1. Current(r)
      BY <1>1, <2>3 DEF Built
    <3>2. Stands(r, done) /\ Better(r, u)
      BY <1>1, <2>3, <3>1 DEF Built, Overwrites, Comparable
    <3>3. ~Better(r, v)
      BY <3>2 DEF Stands
    <3> QED
      BY <1>8, <2>1, <3>2, <3>3, BetterIsTransitive
  <2> QED
    BY <2>2, <2>3
<1>12. Freed \notin ToSet(o.like) => \A h \in DOMAIN o.like : Pref(u.pfx) < Pref(o.like[h])
  <2> SUFFICES ASSUME Freed \notin ToSet(o.like), NEW h \in DOMAIN o.like
               PROVE  Pref(u.pfx) < Pref(o.like[h])
    OBVIOUS
  <2>1. r.level # lvl /\ o.like = r.like
    BY <1>3
  <2>2. RoutePreference(r.flags, r.level) <= Pref(o.like[h])
    BY <1>1, <2>1 DEF LinksOK, LiveLinks
  <2>3. Pref(o.like[h]) \in 0..7
    BY <1>4, PointerPref DEF ToSet
  <2> QED
    BY <1>8, <1>9, <1>10, <2>1, <2>2, <2>3 DEF Ranked
<1>13. s.like \in Linked(o.like, u)
  BY <1>2, <1>7
<1> QED
  BY <1>4, <1>7, <1>11, <1>12, <1>13, TakenOver

\* A route with the next hops of an update added.
Remerged(r, u, q, s) ==
  /\ s \in Route /\ s.like = q /\ s.hops = r.hops \cup u.hops
  /\ s.key = r.key /\ s.level = r.level /\ s.version = r.version /\ s.flags = r.flags
  /\ s.spf = r.spf /\ s.ext = r.ext

LEMMA RemergeFacts ==
  ASSUME NEW r \in Route, NEW q \in Seq(Pointer), NEW u, UpdateOK(u)
  PROVE  Remerged(r, u, q, [Merged(r, u) EXCEPT !.like = q])
<1>1. PICK m : m = Merged(r, u)
  OBVIOUS
<1>2. /\ m \in Route /\ m.hops = r.hops \cup u.hops
      /\ m.key = r.key /\ m.level = r.level /\ m.version = r.version /\ m.flags = r.flags
      /\ m.spf = r.spf /\ m.ext = r.ext
  BY <1>1 DEF Merged, Route, UpdateOK
<1>3. Relinked(m, q, [m EXCEPT !.like = q])
  BY <1>2, RelinkFacts
<1> QED
  BY <1>1, <1>2, <1>3 DEF Remerged, Relinked, SameButLike

\* A route that an update is merged into, or that it leaves alone.
LEMMA MergedIsRight ==
  ASSUME TablesOK, Found, NEW u, Usable(u), NEW r \in Route, r.key = u.pfx.key,
         NEW done, UpdatesFor(done, u.pfx.key), Right(r, done), ~Overwrites(r, u), Equal(r, u),
         NEW like \in Linked(r.like, u),
         NEW s, Remerged(r, u, like, s)
  PROVE  s.level = lvl /\ Right(s, done \cup {u})
<1>1. /\ UpdateOK(u) /\ Built(r, done) /\ LinksOK(r) /\ FirstIsBest(r, done)
      /\ r.like \in Seq(Pointer)
  BY DEF Usable, Right, Route, Pointer
<1>0. /\ s \in Route /\ s.like = like /\ s.hops = r.hops \cup u.hops
      /\ s.key = r.key /\ s.level = r.level /\ s.version = r.version /\ s.flags = r.flags
      /\ s.spf = r.spf /\ s.ext = r.ext
  BY DEF Remerged
<1> USE <1>0
<1>2. r.level = lvl
  BY <1>1, LevelsDiffer DEF Equal
<1>3. Current(r) /\ Stands(r, done)
  BY <1>1, <1>2 DEF Overwrites, Comparable, Built
<1>4. RoutePreference(s.flags, s.level) = RoutePreference(r.flags, r.level)
      /\ RouteCost(s) = RouteCost(r) /\ Current(s)
  BY <1>3 DEF RouteCost, Current
<1>5. \A v : (Better(s, v) <=> Better(r, v)) /\ (Equal(s, v) <=> Equal(r, v))
  BY <1>4 DEF Better, Equal
<1>6. Ranked(s) /\ Rankable(u)
  BY <1>1, RouteIsRanked DEF UpdateOK, Rankable
<1>7. Stands(s, done \cup {u})
  BY <1>3, <1>5, <1>6, StandsMerged
<1>8. Built(s, done \cup {u})
  BY <1>2, <1>4, <1>7 DEF Built
<1>9. LinksOK(s)
  <2>1. RoutePreference(r.flags, r.level) <= Pref(u.pfx)
    BY <1>6 DEF Equal, Rankable
  <2> QED
    BY <1>1, <1>4, <2>1, LinksStayOK
<1>10. FirstIsBest(s, done \cup {u})
  <2> SUFFICES ASSUME ~External(s.flags), s.key # Default, LiveLinks(s)
               PROVE  /\ s.like # <<>>
                      /\ \E v \in done \cup {u} : Equal(s, v) /\ v.linked /\ v.pfx = s.like[1]
    BY DEF FirstIsBest
  <2>1. u.linked
    BY <1>1 DEF UpdateOK
  <2>2. LinkedIn(r.like, u, s.like)
    BY <1>1, <2>1, LinkFacts DEF UpdateOK
  <2>3. LiveLinks(r)
    BY <2>2, LiveBefore DEF LiveLinks
  <2>4. PICK v \in done : Equal(r, v) /\ v.linked /\ v.pfx = r.like[1]
    BY <1>1, <1>2, <1>3, <2>3 DEF FirstIsBest
  <2>5. s.like # <<>> /\ (s.like[1] = u.pfx \/ s.like[1] = r.like[1])
    BY <2>2 DEF LinkedIn
  <2> QED
    BY <1>5, <2>1, <2>4, <2>5
<1> QED
  BY <1>2, <1>8, <1>9, <1>10 DEF Right

LEMMA StillIsRight ==
  ASSUME TablesOK, Found, NEW u, Usable(u), NEW r \in Route, r.key = u.pfx.key,
         NEW done, UpdatesFor(done, u.pfx.key), Right(r, done), ~Overwrites(r, u), ~Equal(r, u),
         NEW like \in Linked(r.like, u),
         NEW s, Relinked(r, like, s)
  PROVE  Right(s, done \cup {u})
<1>1. /\ UpdateOK(u) /\ Built(r, done) /\ LinksOK(r) /\ FirstIsBest(r, done)
      /\ r.like \in Seq(Pointer)
  BY DEF Usable, Right, Route, Pointer
<1>0. s \in Route /\ s.like = like /\ SameButLike(s, r)
  BY DEF Relinked
<1> USE <1>0
<1>2. /\ RoutePreference(s.flags, s.level) = RoutePreference(r.flags, r.level)
      /\ RouteCost(s) = RouteCost(r) /\ s.level = r.level /\ (Current(s) <=> Current(r))
      /\ s.flags = r.flags /\ s.key = r.key /\ s.hops = r.hops
  BY DEF RouteCost, Current, SameButLike
<1>3. \A v : (Better(s, v) <=> Better(r, v)) /\ (Equal(s, v) <=> Equal(r, v))
  BY <1>2 DEF Better, Equal
<1>4. Comparable(r) /\ Worse(r, u)
  BY DEF Overwrites, Worse
<1>5. Ranked(r) /\ Rankable(u)
  BY <1>1, RouteIsRanked DEF UpdateOK, Rankable
<1>6. RoutePreference(r.flags, r.level) <= Pref(u.pfx)
  BY <1>4, <1>5 DEF Worse, Better, Ranked, Rankable
<1>7. Built(s, done \cup {u})
  <2>1. CASE r.level # lvl
    <3>1. RoutePreference(r.flags, r.level) # Pref(u.pfx)
      BY <1>1, <2>1, LevelsDiffer
    <3>2. RoutePreference(r.flags, r.level) < Pref(u.pfx)
      BY <1>5, <1>6, <3>1 DEF Ranked, Rankable
    <3> QED
      BY <1>1, <1>2, <2>1, <3>2 DEF Built
  <2>2. CASE r.level = lvl
    <3>1. Current(r) /\ Stands(r, done)
      BY <1>1, <1>4, <2>2 DEF Comparable, Built
    <3>2. Stands(s, done \cup {u})
      BY <1>2, <1>3, <1>4, <3>1, StandsStill
    <3> QED
      BY <1>2, <2>2, <3>1, <3>2 DEF Built
  <2> QED
    BY <2>1, <2>2
<1>8. LinksOK(s)
  BY <1>1, <1>2, <1>6, LinksStayOK
<1>9. FirstIsBest(s, done \cup {u})
  <2> SUFFICES ASSUME s.level = lvl, Current(s), ~External(s.flags), s.key # Default,
                      LiveLinks(s)
               PROVE  /\ s.like # <<>>
                      /\ \E v \in done : Equal(s, v) /\ v.linked /\ v.pfx = s.like[1]
    BY DEF FirstIsBest
  <2>1. u.linked
    BY <1>1, <1>2 DEF UpdateOK
  <2>2. LinkedIn(r.like, u, s.like)
    BY <1>1, <2>1, LinkFacts DEF UpdateOK
  <2>3. LiveLinks(r)
    BY <2>2, LiveBefore DEF LiveLinks
  <2>4. /\ r.like # <<>>
        /\ \E v \in done : Equal(r, v) /\ v.linked /\ v.pfx = r.like[1]
    BY <1>1, <1>2, <2>3 DEF FirstIsBest
  <2>5. PICK v \in done : Equal(r, v) /\ v.linked /\ v.pfx = r.like[1]
    BY <2>4
  <2>6. ~LinkBefore(u, v.pfx)
    <3>1. UpdateOK(v)
      BY DEF UpdatesFor
    <3>2. Pref(v.pfx) = RoutePreference(r.flags, r.level) /\ Pref(v.pfx) < Unknown
          /\ UpdateCost(v) = RouteCost(r)
      BY <1>1, <2>5 DEF Equal, LinksOK
    <3>3. ~External(v.pfx.flags)
      <4>1. /\ v.pfx.flags \in SUBSET Flags /\ v.pfx.level \in Level
            /\ r.flags \in SUBSET Flags /\ r.level \in Level
        BY <3>1 DEF UpdateOK, TablesOK, Route
      <4> QED
        BY <1>2, <3>2, <4>1, PrefFacts DEF Pref, Unknown
    <3>4. LinkBefore(u, v.pfx) =>
            \/ Pref(u.pfx) < Pref(v.pfx)
            \/ Pref(u.pfx) = Pref(v.pfx) /\ UpdateCost(u) <= UpdateCost(v)
      BY <1>1, <2>5, <3>1, <3>2, <3>3, TieFacts
    <3> QED
      BY <1>4, <1>5, <3>2, <3>4 DEF Worse, Better, Equal, Ranked, Rankable
  <2>7. s.like # <<>> /\ s.like[1] = r.like[1]
    BY <2>2, <2>4, <2>5, <2>6 DEF LinkedIn
  <2> QED
    BY <1>3, <2>5, <2>7
<1> QED
  BY <1>7, <1>8, <1>9 DEF Right

\* What an update makes of a route: it takes it over, adds its next hops, or
\* leaves all but the linked prefixes.
Outcome(r, u, done, s) ==
  /\ Right(s, done \cup {u}) /\ s.key = r.key
  /\ s.hops = Updated(r, u).hops
  /\ s.level = Updated(r, u).level
  /\ \/ Takes(s, u) /\ Overwrites(r, u)
     \/ s.level = lvl /\ r.level = lvl /\ s.version = r.version
     \/ SameButLike(s, r) /\ [s EXCEPT !.like = <<>>] = [r EXCEPT !.like = <<>>]

\* Whatever an update does to a route, it is right for one update more.
LEMMA UpdatedIsRight ==
  ASSUME TablesOK, Found, NEW u, Usable(u), NEW r \in Route, r.key = u.pfx.key,
         NEW done, UpdatesFor(done, u.pfx.key), Right(r, done),
         NEW like \in Linked(Updated(r, u).like, u)
  PROVE  Outcome(r, u, done, [Updated(r, u) EXCEPT !.like = like])
<1> DEFINE s == [Updated(r, u) EXCEPT !.like = like]
<1>1. UpdateOK(u) /\ r.like \in Seq(Pointer)
  BY DEF Usable, Route, Pointer
<1>2. CASE Overwrites(r, u)
  <2>1. PICK o : o = Overwritten(r, u)
    OBVIOUS
  <2>2. Updated(r, u) = o
    BY <1>2, <2>1 DEF Updated
  <2>3. Takes(o, u) /\ o.like = IF r.level = lvl THEN <<>> ELSE r.like
    BY <1>1, <2>1, OverwriteFacts
  <2>4. Takes(s, u) /\ Right(s, done \cup {u})
    BY <1>2, <2>1, <2>2, OverwrittenIsRight
  <2>5. s.hops = o.hops /\ s.level = o.level /\ s.key = r.key
    BY <2>3, <2>4 DEF Takes
  <2> QED
    BY <1>2, <2>2, <2>4, <2>5 DEF Outcome
<1>3. CASE ~Overwrites(r, u) /\ Equal(r, u)
  <2>1. PICK m : m = Merged(r, u)
    OBVIOUS
  <2>2. Updated(r, u) = m
    BY <1>3, <2>1 DEF Updated
  <2>3. m.like = r.like /\ m.hops = r.hops \cup u.hops /\ m.level = r.level
    BY <2>1 DEF Merged, Route
  <2>4. like \in Linked(r.like, u) /\ like \in Seq(Pointer)
    BY <1>1, <2>2, <2>3, LinkedType
  <2>5. Remerged(r, u, like, s)
    BY <1>1, <2>1, <2>2, <2>4, RemergeFacts
  <2>6. s.level = lvl /\ Right(s, done \cup {u})
    BY <1>3, <2>4, <2>5, MergedIsRight
  <2> QED
    BY <2>2, <2>3, <2>5, <2>6 DEF Remerged, Outcome
<1>4. CASE ~Overwrites(r, u) /\ ~Equal(r, u)
  <2>1. Updated(r, u) = r
    BY <1>4 DEF Updated
  <2>2. like \in Linked(r.like, u) /\ like \in Seq(Pointer)
    BY <1>1, <2>1, LinkedType
  <2>3. Relinked(r, like, s)
    BY <2>1, <2>2, RelinkFacts
  <2>4. Right(s, done \cup {u})
    BY <1>4, <2>2, <2>3, StillIsRight
  <2>5. [s EXCEPT !.like = <<>>] = [r EXCEPT !.like = <<>>]
    BY <2>1 DEF Route
  <2> QED
    BY <2>1, <2>3, <2>4, <2>5 DEF Relinked, SameButLike, Outcome
<1> QED
  BY <1>2, <1>3, <1>4

-----------------------------------------------------------------------------
(* The list of routes.                                                     *)

\* One route for a key.
OneForKey(list) ==
  \A i, j \in DOMAIN list : list[i].key = list[j].key => i = j

LEMMA KeysAreUnique ==
  OneForKey(routes) <=> \A i \in DOMAIN routes : RoutesFor(routes[i].key) = {i}
  BY DEF OneForKey, RoutesFor

\* The list of routes with one route entered, new or in the place of another.
Entered(s) ==
  /\ routes' \in Seq(Route) /\ OneForKey(routes')
  /\ \E j \in DOMAIN routes' : routes'[j] = s
  /\ \A j \in DOMAIN routes' :
       routes'[j] = s \/ \E h \in DOMAIN routes : routes[h].key # s.key /\ routes'[j] = routes[h]
  /\ \A h \in DOMAIN routes :
       routes[h].key # s.key => \E j \in DOMAIN routes' : routes'[j] = routes[h]

LEMMA NewEntered ==
  ASSUME TablesOK, NEW s \in Route, RoutesFor(s.key) = {}, routes' = <<s>> \o routes
  PROVE  Entered(s)
<1>1. PICK n \in Nat : Len(routes) = n /\ DOMAIN routes = 1..n /\ routes \in Seq(Route)
  BY LenProperties DEF TablesOK
<1>2. <<s>> \in Seq(Route) /\ Len(<<s>>) = 1 /\ <<s>>[1] = s
  OBVIOUS
<1>3. /\ routes' \in Seq(Route) /\ Len(routes') = 1 + n
      /\ \A j \in 1..1 : routes'[j] = <<s>>[j]
      /\ \A j \in 1..n : routes'[1 + j] = routes[j]
  BY <1>1, <1>2, ConcatFacts
<1>4. DOMAIN routes' = 1..(n + 1) /\ routes'[1] = s
  BY <1>2, <1>3, LenProperties
<1>5. \A h \in DOMAIN routes : routes[h].key # s.key
  BY DEF RoutesFor
<1>6. \A j \in 2..(n + 1) : j - 1 \in 1..n /\ routes'[j] = routes[j - 1]
  <2> SUFFICES ASSUME NEW j \in 2..(n + 1)  PROVE j - 1 \in 1..n /\ routes'[j] = routes[j - 1]
    OBVIOUS
  <2>1. j - 1 \in 1..n /\ 1 + (j - 1) = j
    OBVIOUS
  <2> QED
    BY <1>3, <2>1
<1>7. OneForKey(routes)
  BY KeysAreUnique DEF TablesOK
<1>8. ASSUME NEW i \in DOMAIN routes', NEW j \in DOMAIN routes',
             routes'[i].key = routes'[j].key
      PROVE  i = j
  <2>1. CASE i = 1 \/ j = 1
    BY <1>1, <1>4, <1>5, <1>6, <1>8, <2>1
  <2>2. CASE i # 1 /\ j # 1
    <3>1. i - 1 = j - 1
      BY <1>1, <1>4, <1>6, <1>7, <1>8, <2>2 DEF OneForKey
    <3> QED
      BY <1>4, <3>1
  <2> QED
    BY <2>1, <2>2
<1>9. \A j \in DOMAIN routes' :
        routes'[j] = s \/ \E h \in DOMAIN routes : routes[h].key # s.key /\ routes'[j] = routes[h]
  <2> SUFFICES ASSUME NEW j \in DOMAIN routes', j # 1
               PROVE  \E h \in DOMAIN routes : routes[h].key # s.key /\ routes'[j] = routes[h]
    BY <1>4
  <2>1. j \in 2..(n + 1)
    BY <1>4
  <2> QED
    BY <1>1, <1>5, <1>6, <2>1
<1>10. \A h \in DOMAIN routes : \E j \in DOMAIN routes' : routes'[j] = routes[h]
  <2> SUFFICES ASSUME NEW h \in DOMAIN routes  PROVE \E j \in DOMAIN routes' : routes'[j] = routes[h]
    OBVIOUS
  <2>1. 1 + h \in DOMAIN routes' /\ routes'[1 + h] = routes[h]
    BY <1>1, <1>3, <1>4
  <2> QED
    BY <2>1
<1>11. 1 \in DOMAIN routes'
  BY <1>4
<1> QED
  BY <1>3, <1>4, <1>8, <1>9, <1>10, <1>11 DEF Entered, OneForKey

LEMMA ReplacedEntered ==
  ASSUME TablesOK, NEW i \in DOMAIN routes, NEW s \in Route, s.key = routes[i].key,
         routes' = [routes EXCEPT ![i] = s]
  PROVE  Entered(s) /\ Len(routes') = Len(routes)
<1>1. PICK n \in Nat : Len(routes) = n /\ DOMAIN routes = 1..n /\ routes \in Seq(Route)
  BY LenProperties DEF TablesOK
<1>2. routes \in [1..n -> Route]
  BY <1>1, LenProperties
<1>3. routes' \in [1..n -> Route] /\ routes'[i] = s
      /\ \A j \in 1..n : j # i => routes'[j] = routes[j]
  BY <1>1, <1>2
<1>4. routes' \in Seq(Route) /\ Len(routes') = n /\ DOMAIN routes' = 1..n
  <2>1. routes' \in Seq(Route)
    BY <1>1, ExceptSeq
  <2> QED
    BY <1>3, <2>1, LenProperties
<1>5. OneForKey(routes)
  BY KeysAreUnique DEF TablesOK
<1>6. \A j \in DOMAIN routes' : routes'[j].key = routes[j].key
  BY <1>3, <1>4
<1>7. OneForKey(routes')
  BY <1>1, <1>4, <1>5, <1>6 DEF OneForKey
<1>8. \A h \in DOMAIN routes : h # i <=> routes[h].key # s.key
  BY <1>5 DEF OneForKey
<1> QED
  BY <1>1, <1>3, <1>4, <1>7, <1>8 DEF Entered

\* What the list of routes keeps of its types.
ListOK == /\ routes \in Seq(Route) /\ OneForKey(routes)
          /\ \A i \in DOMAIN routes : /\ Cardinality(routes[i].hops) <= MaxNh
                                      /\ routes[i].version <= version[routes[i].level]

LEMMA ListFacts == TablesOK => ListOK
  BY KeysAreUnique DEF TablesOK, ListOK

LEMMA EnteredKeepsTypes ==
  ASSUME TablesOK, NEW s, Entered(s), Cardinality(s.hops) <= MaxNh,
         s.version <= version[s.level], version' = version
  PROVE  ListOK'
<1>1. ListOK
  BY ListFacts
<1> QED
  BY <1>1 DEF Entered, ListOK

-----------------------------------------------------------------------------
(* The steps of build_routing_table.                                       *)

RibType == DOMAIN rib \subseteq Key /\ \A k \in DOMAIN rib : rib[k] \in [level : Level, hops : SUBSET Hop]

LEMMA RunTypes ==
  ASSUME TablesOK, SameRun, cmds' = cmds, ListOK', RibType',
         pc' \in {"idle", "build", "install", "abort"}, next' \in Nat \ {0}
  PROVE  TablesOK'
<1>1. \A i \in DOMAIN routes' : RoutesFor(routes[i].key)' = {i}
  BY DEF ListOK, OneForKey, RoutesFor
<1> QED
  BY <1>1 DEF TablesOK, SameRun, ListOK, RibType

LEMMA DoneFacts ==
  ASSUME TablesOK, Found, SameRun, NEW u \in todo, u \in Updates, todo' = todo \ {u}
  PROVE  /\ u.pfx.metric # Inf =>
              /\ Done(u.pfx.key)' = Done(u.pfx.key) \cup {u}
              /\ \A k : k # u.pfx.key => Done(k)' = Done(k)
         /\ u.pfx.metric = Inf => \A k : Done(k)' = Done(k)
<1>1. \A k : Candidates(k)' = Candidates(k)
  BY SameUpdates
<1>2. u.pfx.metric \in 0..Inf /\ Inf \in Nat
  BY UpdateFacts, RouteConstants DEF UpdateOK
<1>3. \A k : u \in Candidates(k) <=> k = u.pfx.key /\ u.pfx.metric # Inf
  BY <1>2 DEF Candidates
<1> QED
  BY <1>1, <1>3 DEF Done

LEMMA DoneAreUpdates ==
  ASSUME TablesOK, Found, NEW k
  PROVE  UpdatesFor(Done(k), k)
  BY UpdateFacts DEF UpdatesFor, Done, Candidates

\* The route at a place is right.
RightAt(i) == /\ Built(routes[i], Done(routes[i].key))
              /\ FirstIsBest(routes[i], Done(routes[i].key))
              /\ LinksOK(routes[i])

\* Being right depends on the run only.
LEMMA RightSame ==
  ASSUME SameRun, NEW s, NEW done, Right(s, done)
  PROVE  Built(s, done)' /\ FirstIsBest(s, done)' /\ LinksOK(s)'
  BY DEF Right, SameRun, Built, FirstIsBest, LinksOK, Current, LiveLinks, Stands

LEMMA RoutesAreRight ==
  ASSUME TablesOK, RunOK, AllLinksOK, pc = "build"
  PROVE  \A i \in DOMAIN routes : Right(routes[i], Done(routes[i].key))
<1>1. \A i \in DOMAIN routes : routes[i] \in Route
  BY LenProperties DEF TablesOK
<1> QED
  BY <1>1 DEF RunOK, AllLinksOK, Right

LEMMA EnteredKeepsRun ==
  ASSUME TablesOK, Found, RunOK, AllLinksOK, pc = "build", NEW u \in todo, SameRun,
         todo' = todo \ {u}, pc' = pc, u.pfx.metric # Inf,
         NEW s, Entered(s), s.key = u.pfx.key, Right(s, Done(s.key) \cup {u})
  PROVE  RunOK' /\ AllLinksOK'
<1>1. todo \subseteq Updates /\ \A k \in Key : Done(k) # {} => RoutesFor(k) # {}
  BY DEF RunOK
<1>2. /\ Done(s.key)' = Done(s.key) \cup {u}
      /\ \A k : k # s.key => Done(k)' = Done(k)
  BY <1>1, DoneFacts
<1>3. Updates' = Updates
  BY SameUpdates
<1>4. \A h \in DOMAIN routes : Right(routes[h], Done(routes[h].key))
  BY RoutesAreRight
<1>5. ASSUME NEW j \in DOMAIN routes'
      PROVE  RightAt(j)'
  <2>1. PICK r : r = routes'[j]
    OBVIOUS
  <2>2. PICK done : done = Done(r.key)'
    OBVIOUS
  <2>3. Right(r, done)
    <3>1. CASE r = s
      BY <1>2, <2>2, <3>1
    <3>2. CASE \E h \in DOMAIN routes : routes[h].key # s.key /\ r = routes[h]
      BY <1>2, <1>4, <2>2, <3>2
    <3> QED
      BY <2>1, <3>1, <3>2 DEF Entered
  <2>4. Built(r, done)' /\ FirstIsBest(r, done)' /\ LinksOK(r)'
    BY <2>3, RightSame
  <2> QED
    BY <2>1, <2>2, <2>4 DEF Built, FirstIsBest, LinksOK, RightAt, LiveLinks, Current
<1>6. \A k \in Key : Done(k)' # {} => RoutesFor(k)' # {}
  <2> SUFFICES ASSUME NEW k \in Key, Done(k)' # {}  PROVE \E j \in DOMAIN routes' : routes'[j].key = k
    BY DEF RoutesFor
  <2>1. CASE k = s.key
    BY <2>1 DEF Entered
  <2>2. CASE k # s.key
    <3>1. PICK h \in DOMAIN routes : routes[h].key = k
      BY <1>1, <1>2, <2>2 DEF RoutesFor
    <3> QED
      BY <2>2, <3>1 DEF Entered
  <2> QED
    BY <2>1, <2>2
<1> QED
  BY <1>1, <1>3, <1>5, <1>6 DEF RunOK, AllLinksOK, RightAt

LEMMA UpdateSame ==
  ASSUME NEW u, UpdateNext(u)
  PROVE  /\ pc = "build" /\ SameRun /\ cmds' = cmds /\ next' = next /\ todo' = todo \ {u}
         /\ Versions => Versions'
         /\ Found => Found'
  BY DEF UpdateNext, SameRun, Versions, Found, cfgVars, runVars

\* The table stays right when the routes of the other level stay.
LEMMA RibKept ==
  ASSUME TablesOK, RibOK, pc = "build", pc' = "build", lvl' = lvl, rib' = rib,
         \A j \in DOMAIN routes' : routes'[j].level # lvl =>
           \E h \in DOMAIN routes : SameButLike(routes'[j], routes[h]),
         \A h \in DOMAIN routes : routes[h].level # lvl =>
           \E j \in DOMAIN routes' : SameButLike(routes'[j], routes[h])
  PROVE  RibOK'
<1>1. /\ \A i \in DOMAIN routes : routes[i].level # lvl => Forwards(routes[i])
      /\ \A k \in DOMAIN rib : rib[k].hops # {} =>
           \/ rib[k].level = lvl
           \/ \E i \in DOMAIN routes : routes[i].key = k /\ routes[i].level # lvl
  BY DEF RibOK
<1>2. ASSUME NEW j \in DOMAIN routes', routes'[j].level # lvl
      PROVE  Forwards(routes[j])'
  BY <1>1, <1>2 DEF SameButLike, Forwards
<1>3. ASSUME NEW k \in DOMAIN rib, rib[k].hops # {}, rib[k].level # lvl
      PROVE  \E j \in DOMAIN routes' : routes'[j].key = k /\ routes'[j].level # lvl
  <2>1. PICK i \in DOMAIN routes : routes[i].key = k /\ routes[i].level # lvl
    BY <1>1, <1>3
  <2> QED
    BY <2>1 DEF SameButLike
<1> QED
  BY <1>2, <1>3 DEF RibOK

LEMMA UpdateIgnoredKeeps ==
  ASSUME RouteInv, NEW u \in todo, UpdateIgnored(u)
  PROVE  RouteInv'
<1>1. /\ TablesOK /\ Found /\ RunOK /\ AllLinksOK /\ RibOK /\ Versions
      /\ UpdateNext(u) /\ Ignored(u) /\ UNCHANGED <<routes, rib, pc>>
  BY DEF RouteInv, UpdateIgnored
<1>2. /\ pc = "build" /\ SameRun /\ cmds' = cmds /\ next' = next /\ todo' = todo \ {u}
      /\ Versions' /\ Found'
  BY <1>1, UpdateSame
<1>3. todo \subseteq Updates /\ u \in Updates
  BY <1>1, <1>2 DEF RunOK
<1>4. u.pfx.metric = Inf
  <2>1. Pref(u.pfx) # Unknown
    BY <1>1, <1>3, UpdateFacts DEF UpdateOK
  <2> QED
    BY <1>1, <2>1 DEF Ignored
<1>5. \A k : Done(k)' = Done(k)
  BY <1>1, <1>2, <1>3, <1>4, DoneFacts
<1>6. Updates' = Updates
  BY <1>2, SameUpdates
<1>7. TablesOK'
  <2>1. ListOK' /\ RibType'
    BY <1>1, <1>2, ListFacts DEF ListOK, RibType, TablesOK, SameRun
  <2> QED
    BY <1>1, <1>2, <2>1, RunTypes DEF TablesOK
<1>8. RunOK' /\ AllLinksOK'
  <2>1. \A j \in DOMAIN routes : RightAt(j)'
    <3> SUFFICES ASSUME NEW j \in DOMAIN routes  PROVE RightAt(j)'
      OBVIOUS
    <3>1. PICK r : r = routes[j]
      OBVIOUS
    <3>2. PICK done : done = Done(r.key)
      OBVIOUS
    <3>3. Right(r, done)
      BY <1>1, <1>2, <3>1, <3>2, RoutesAreRight
    <3>4. Built(r, done)' /\ FirstIsBest(r, done)' /\ LinksOK(r)'
      BY <1>2, <3>3, RightSame
    <3> QED
      BY <1>1, <1>5, <3>1, <3>2, <3>4
      DEF Built, FirstIsBest, LinksOK, RightAt, LiveLinks, Current
  <2>2. \A k : RoutesFor(k)' = RoutesFor(k)
    BY <1>1 DEF RoutesFor
  <2> QED
    BY <1>1, <1>2, <1>3, <1>5, <1>6, <2>1, <2>2 DEF RunOK, AllLinksOK, RightAt
<1>9. RibOK'
  <2>1. \A j \in DOMAIN routes : SameButLike(routes[j], routes[j])
    BY DEF SameButLike
  <2> QED
    BY <1>1, <1>2, <2>1, RibKept DEF SameRun
<1> QED
  BY <1>2, <1>7, <1>8, <1>9 DEF RouteInv

LEMMA UpdateNewKeeps ==
  ASSUME RouteInv, NEW u \in todo, UpdateNew(u)
  PROVE  RouteInv'
<1>1. /\ TablesOK /\ Found /\ RunOK /\ AllLinksOK /\ RibOK /\ Versions
      /\ UpdateNext(u) /\ ~Ignored(u) /\ UNCHANGED <<rib, pc>>
      /\ RoutesFor(u.pfx.key) = {} /\ Pref(u.pfx) # NoPreference
  BY DEF RouteInv, UpdateNew
<1>2. /\ pc = "build" /\ SameRun /\ cmds' = cmds /\ next' = next /\ todo' = todo \ {u}
      /\ Versions' /\ Found'
  BY <1>1, UpdateSame
<1>3. u \in Updates
  BY <1>1, <1>2 DEF RunOK
<1>4. UpdateOK(u) /\ Usable(u) /\ u.pfx.metric # Inf
  BY <1>1, <1>3, UpdateFacts DEF Usable, Ignored
<1>5. PICK like \in Linked(<<>>, u) : routes' = <<[NewRoute(u) EXCEPT !.like = like]>> \o routes
  BY DEF UpdateNew
<1>6. PICK s : s = [NewRoute(u) EXCEPT !.like = like]
  OBVIOUS
<1>7. Takes(s, u) /\ Right(s, {u})
  BY <1>1, <1>4, <1>6, NewIsRight
<1>8. s \in Route /\ s.key = u.pfx.key /\ s.level = lvl
      /\ Cardinality(s.hops) <= MaxNh /\ s.version = version[s.level]
  BY <1>4, <1>7 DEF Takes, UpdateOK
<1>9. Entered(s)
  BY <1>1, <1>5, <1>6, <1>8, NewEntered
<1>10. TablesOK'
  <2>1. version' = version /\ s.version <= version[s.level]
    BY <1>1, <1>2, <1>8 DEF SameRun, TablesOK
  <2>2. ListOK'
    BY <1>1, <1>8, <1>9, <2>1, EnteredKeepsTypes
  <2>3. RibType'
    BY <1>1 DEF TablesOK, RibType
  <2> QED
    BY <1>1, <1>2, <2>2, <2>3, RunTypes DEF TablesOK
<1>11. RunOK' /\ AllLinksOK'
  <2>1. Done(s.key) = {}
    BY <1>1, <1>2, <1>4, <1>8 DEF RunOK, UpdateOK
  <2>2. Done(s.key) \cup {u} = {u}
    BY <2>1
  <2> QED
    BY <1>1, <1>2, <1>4, <1>7, <1>8, <1>9, <2>2, EnteredKeepsRun
<1>12. RibOK'
  <2>1. \A j \in DOMAIN routes' : routes'[j].level # lvl =>
          \E h \in DOMAIN routes : SameButLike(routes'[j], routes[h])
    BY <1>8, <1>9 DEF Entered, SameButLike
  <2>2. \A h \in DOMAIN routes : \E j \in DOMAIN routes' : SameButLike(routes'[j], routes[h])
    <3>1. \A h \in DOMAIN routes : routes[h].key # s.key
      BY <1>1, <1>8 DEF RoutesFor
    <3> QED
      BY <1>9, <3>1 DEF Entered, SameButLike
  <2> QED
    BY <1>1, <1>2, <2>1, <2>2, RibKept DEF SameRun
<1> QED
  BY <1>2, <1>10, <1>11, <1>12 DEF RouteInv

\* The route that an update finds, and what it makes of it.
UpdateAt(u, i, s) ==
  /\ i \in DOMAIN routes /\ routes[i].key = u.pfx.key /\ routes[i] \in Route
  /\ s \in Route /\ s.key = u.pfx.key
  /\ Cardinality(s.hops) <= MaxNh /\ s.version <= version[s.level]
  /\ Outcome(routes[i], u, Done(u.pfx.key), s)
  /\ Entered(s) /\ routes' = [routes EXCEPT ![i] = s]
  /\ rib' = IF routes[i].level # s.level THEN RibDelete(s.key) ELSE rib

LEMMA UpdateRouteFacts ==
  ASSUME RouteInv, NEW u \in todo, UpdateRoute(u)
  PROVE  Usable(u) /\ u.pfx.metric # Inf /\ \E i, s : UpdateAt(u, i, s)
<1>1. /\ TablesOK /\ Found /\ RunOK /\ AllLinksOK
      /\ UpdateNext(u) /\ ~Ignored(u) /\ Pref(u.pfx) # NoPreference
  BY DEF RouteInv, UpdateRoute
<1>2. u \in Updates /\ pc = "build"
  BY <1>1, UpdateSame DEF RunOK
<1>3. UpdateOK(u) /\ Usable(u) /\ u.pfx.metric # Inf
  BY <1>1, <1>2, UpdateFacts DEF Usable, Ignored
<1>4. PICK i \in RoutesFor(u.pfx.key) :
        LET r == Updated(routes[i], u)
        IN /\ Cardinality(r.hops) <= MaxNh
           /\ \E like \in Linked(r.like, u) :
                routes' = [routes EXCEPT ![i] = [r EXCEPT !.like = like]]
           /\ rib' = IF routes[i].level # r.level THEN RibDelete(r.key) ELSE rib
  BY DEF UpdateRoute
<1>5. PICK r : r = routes[i]
  OBVIOUS
<1>6. PICK m : m = Updated(r, u)
  OBVIOUS
<1>7. PICK like \in Linked(m.like, u) : routes' = [routes EXCEPT ![i] = [m EXCEPT !.like = like]]
  BY <1>4, <1>5, <1>6
<1>8. PICK s : s = [m EXCEPT !.like = like]
  OBVIOUS
<1>9. /\ Cardinality(m.hops) <= MaxNh
      /\ rib' = IF r.level # m.level THEN RibDelete(m.key) ELSE rib
  BY <1>4, <1>5, <1>6
<1>10. i \in DOMAIN routes /\ r.key = u.pfx.key /\ r \in Route /\ Right(r, Done(u.pfx.key))
  <2>1. i \in DOMAIN routes /\ r.key = u.pfx.key
    BY <1>5 DEF RoutesFor
  <2>2. Right(routes[i], Done(routes[i].key))
    BY <1>1, <1>2, <2>1, RoutesAreRight
  <2> QED
    BY <1>5, <2>1, <2>2 DEF Right
<1>11. Outcome(r, u, Done(u.pfx.key), s)
  BY <1>1, <1>3, <1>6, <1>7, <1>8, <1>10, DoneAreUpdates, UpdatedIsRight
<1>12. /\ s \in Route /\ s.key = u.pfx.key /\ s.hops = m.hops /\ s.level = m.level
  BY <1>6, <1>10, <1>11 DEF Outcome, Right
<1>13. s.version <= version[s.level]
  <2>1. r.version <= version[r.level] /\ r.version \in Nat
        /\ lvl \in Level /\ version \in [Level -> 0..MaxCmds]
    BY <1>1, <1>5, <1>10 DEF TablesOK, Route
  <2>2. s.version = version[s.level] \/ (s.version = r.version /\ s.level = r.level)
    BY <1>11 DEF Outcome, Takes, SameButLike
  <2>3. version[lvl] \in Nat /\ s.version \in Nat
    BY <2>1, <1>12 DEF Route
  <2> QED
    BY <2>1, <2>2, <2>3
<1>14. m.key = s.key
  <2>1. CASE Overwrites(r, u)
    <3>1. m = Overwritten(r, u)
      BY <1>6, <2>1 DEF Updated
    <3> QED
      BY <1>1, <1>3, <1>10, <1>12, <3>1, OverwriteFacts DEF Takes
  <2>2. CASE ~Overwrites(r, u)
    BY <1>6, <1>10, <1>12, <2>2 DEF Updated, Merged, Route
  <2> QED
    BY <2>1, <2>2
<1>15. routes' = [routes EXCEPT ![i] = s]
  BY <1>7, <1>8
<1>16. Entered(s)
  BY <1>1, <1>5, <1>10, <1>12, <1>15, ReplacedEntered
<1>17. UpdateAt(u, i, s)
  BY <1>5, <1>9, <1>10, <1>11, <1>12, <1>13, <1>14, <1>15, <1>16 DEF UpdateAt
<1> QED
  BY <1>3, <1>17

\* The table when a route changes its level: the entry of the key loses its next
\* hops.
LEMMA RibDeleted ==
  ASSUME TablesOK, RibOK, pc = "build", pc' = "build", lvl' = lvl, NEW s, Entered(s),
         s.level = lvl, rib' = RibDelete(s.key)
  PROVE  RibOK' /\ RibType'
<1>1. /\ \A i \in DOMAIN routes : routes[i].level # lvl => Forwards(routes[i])
      /\ \A k \in DOMAIN rib : rib[k].hops # {} =>
           \/ rib[k].level = lvl
           \/ \E i \in DOMAIN routes : routes[i].key = k /\ routes[i].level # lvl
  BY DEF RibOK
<1>2. /\ DOMAIN rib' = DOMAIN rib
      /\ \A k \in DOMAIN rib : k # s.key => rib'[k] = rib[k]
      /\ \A k \in DOMAIN rib : rib[k] \in [level : Level, hops : SUBSET Hop]
      /\ \A k \in DOMAIN rib : rib'[k] = IF k = s.key THEN [rib[k] EXCEPT !.hops = {}] ELSE rib[k]
  BY DEF RibDelete, TablesOK
<1>3. \A k \in DOMAIN rib : /\ rib'[k] \in [level : Level, hops : SUBSET Hop]
                            /\ k = s.key => rib'[k].hops = {}
  BY <1>2
<1>4. ASSUME NEW j \in DOMAIN routes', routes'[j].level # lvl
      PROVE  Forwards(routes[j])'
  <2>1. PICK h \in DOMAIN routes : routes[h].key # s.key /\ routes'[j] = routes[h]
    BY <1>4 DEF Entered
  <2> QED
    BY <1>1, <1>2, <1>4, <2>1 DEF Forwards
<1>5. ASSUME NEW k \in DOMAIN rib, rib'[k].hops # {}, rib'[k].level # lvl
      PROVE  \E j \in DOMAIN routes' : routes'[j].key = k /\ routes'[j].level # lvl
  <2>1. k # s.key /\ rib'[k] = rib[k]
    BY <1>2, <1>3, <1>5
  <2>2. PICK i \in DOMAIN routes : routes[i].key = k /\ routes[i].level # lvl
    BY <1>1, <1>5, <2>1
  <2> QED
    BY <2>1, <2>2 DEF Entered
<1>6. RibType'
  BY <1>2, <1>3 DEF RibType, TablesOK
<1> QED
  BY <1>2, <1>4, <1>5, <1>6 DEF RibOK

LEMMA UpdateRouteKeeps ==
  ASSUME RouteInv, NEW u \in todo, UpdateRoute(u)
  PROVE  RouteInv'
<1>1. /\ TablesOK /\ Found /\ RunOK /\ AllLinksOK /\ RibOK /\ Versions
      /\ UpdateNext(u) /\ pc' = pc
  BY DEF RouteInv, UpdateRoute
<1>2. /\ pc = "build" /\ SameRun /\ cmds' = cmds /\ next' = next /\ todo' = todo \ {u}
      /\ Versions' /\ Found'
  BY <1>1, UpdateSame
<1>3. Usable(u) /\ u.pfx.metric # Inf
  BY UpdateRouteFacts
<1>4. PICK i, s : UpdateAt(u, i, s)
  BY UpdateRouteFacts
<1>5. PICK r : r = routes[i]
  OBVIOUS
<1>6. /\ i \in DOMAIN routes /\ r.key = u.pfx.key /\ r \in Route
      /\ s \in Route /\ s.key = u.pfx.key
      /\ Cardinality(s.hops) <= MaxNh /\ s.version <= version[s.level]
      /\ Outcome(r, u, Done(u.pfx.key), s) /\ Entered(s)
      /\ routes' = [routes EXCEPT ![i] = s]
      /\ rib' = IF r.level # s.level THEN RibDelete(s.key) ELSE rib
  BY <1>4, <1>5 DEF UpdateAt
<1>7. Right(s, Done(s.key) \cup {u})
  BY <1>6 DEF Outcome
<1>8. RunOK' /\ AllLinksOK'
  BY <1>1, <1>2, <1>3, <1>6, <1>7, EnteredKeepsRun
<1>9. RibOK' /\ RibType'
  <2>1. CASE r.level # s.level
    <3>1. s.level = lvl
      BY <1>6, <2>1 DEF Outcome, Takes, SameButLike
    <3> QED
      BY <1>1, <1>2, <1>6, <2>1, <3>1, RibDeleted DEF SameRun
  <2>2. CASE r.level = s.level
    <3>1. s.level # lvl => SameButLike(s, r)
      BY <1>6, <2>2 DEF Outcome, Takes
    <3>2. SameButLike(r, s) <=> SameButLike(s, r)
      BY DEF SameButLike
    <3>3. \A h \in DOMAIN routes : SameButLike(routes[h], routes[h])
      BY DEF SameButLike
    <3>4. \A j \in DOMAIN routes' : routes'[j].level # lvl =>
            \E h \in DOMAIN routes : SameButLike(routes'[j], routes[h])
      BY <1>5, <1>6, <3>1, <3>3 DEF Entered
    <3>5. OneForKey(routes)
      BY <1>1, KeysAreUnique DEF TablesOK
    <3>6. \A h \in DOMAIN routes : routes[h].level # lvl =>
            \E j \in DOMAIN routes' : SameButLike(routes'[j], routes[h])
      <4> SUFFICES ASSUME NEW h \in DOMAIN routes, routes[h].level # lvl
                   PROVE  \E j \in DOMAIN routes' : SameButLike(routes'[j], routes[h])
        OBVIOUS
      <4>1. CASE routes[h].key # s.key
        BY <1>6, <3>3, <4>1 DEF Entered
      <4>2. CASE routes[h].key = s.key
        <5>1. routes[h] = r
          BY <1>5, <1>6, <3>5, <4>2 DEF OneForKey
        <5> QED
          BY <1>6, <2>2, <3>1, <5>1 DEF Entered
      <4> QED
        BY <4>1, <4>2
    <3>7. rib' = rib /\ RibType'
      BY <1>1, <1>6, <2>2 DEF RibType, TablesOK
    <3> QED
      BY <1>1, <1>2, <3>4, <3>6, <3>7, RibKept DEF SameRun
  <2> QED
    BY <2>1, <2>2
<1>10. TablesOK'
  <2>1. ListOK'
    BY <1>1, <1>2, <1>6, EnteredKeepsTypes DEF SameRun
  <2> QED
    BY <1>1, <1>2, <1>9, <2>1, RunTypes DEF TablesOK
<1> QED
  BY <1>2, <1>8, <1>9, <1>10 DEF RouteInv

LEMMA UpdateCrashKeeps ==
  ASSUME RouteInv, NEW u \in todo, UpdateCrash(u)
  PROVE  RouteInv'
<1>1. /\ TablesOK /\ AllLinksOK /\ Versions /\ Found
      /\ UpdateNext(u) /\ pc' = "abort" /\ UNCHANGED <<routes, rib>>
  BY DEF RouteInv, UpdateCrash
<1>2. SameRun /\ cmds' = cmds /\ next' = next /\ Versions' /\ Found'
  BY <1>1, UpdateSame
<1>3. TablesOK'
  <2>1. ListOK' /\ RibType'
    BY <1>1, <1>2, ListFacts DEF ListOK, RibType, TablesOK, SameRun
  <2> QED
    BY <1>1, <1>2, <2>1, RunTypes DEF TablesOK
<1>4. AllLinksOK'
  BY <1>1 DEF AllLinksOK, LinksOK, LiveLinks
<1> QED
  BY <1>1, <1>2, <1>3, <1>4 DEF RouteInv, RunOK, RibOK

-----------------------------------------------------------------------------
(* The walk over the list of routes.                                       *)

\* The list without the route at one place.
Shrunk(i) ==
  /\ routes' \in Seq(Route) /\ OneForKey(routes')
  /\ \A j \in DOMAIN routes' : \E h \in DOMAIN routes : routes'[j] = routes[h]
  /\ \A h \in DOMAIN routes : h # i => \E j \in DOMAIN routes' : routes'[j] = routes[h]

LEMMA RemovedShrinks ==
  ASSUME TablesOK, NEW i \in DOMAIN routes, routes' = RemoveAt(routes, i)
  PROVE  Shrunk(i)
<1>1. PICK n \in Nat : Len(routes) = n /\ DOMAIN routes = 1..n /\ routes \in Seq(Route)
  BY LenProperties DEF TablesOK
<1>2. /\ routes' \in Seq(Route) /\ Len(routes') = Len(routes) - 1
      /\ \A j \in 1..(Len(routes) - 1) :
           routes'[j] = IF j < i THEN routes[j] ELSE routes[j + 1]
  BY <1>1, RemoveAtFacts
<1>3. DOMAIN routes' = 1..(n - 1) /\ i \in 1..n
  BY <1>1, <1>2, LenProperties
<1>4. \A j \in 1..(n - 1) : routes'[j] = IF j < i THEN routes[j] ELSE routes[j + 1]
  BY <1>1, <1>2
<1>5. OneForKey(routes)
  BY KeysAreUnique DEF TablesOK
<1>6. ASSUME NEW j \in 1..(n - 1), NEW h \in 1..(n - 1), routes'[j].key = routes'[h].key
      PROVE  j = h
  <2> DEFINE place(x) == IF x < i THEN x ELSE x + 1
  <2>1. place(j) \in 1..n /\ place(h) \in 1..n
    BY <1>3
  <2>2. routes'[j] = routes[place(j)] /\ routes'[h] = routes[place(h)]
    BY <1>4
  <2> HIDE DEF place
  <2>3. place(j) = place(h)
    BY <1>1, <1>5, <1>6, <2>1, <2>2 DEF OneForKey
  <2> QED
    BY <1>3, <2>3 DEF place
<1>7. ASSUME NEW j \in 1..(n - 1)  PROVE \E h \in DOMAIN routes : routes'[j] = routes[h]
  <2>1. CASE j < i
    BY <1>1, <1>3, <1>4, <2>1
  <2>2. CASE j >= i
    <3>1. j + 1 \in DOMAIN routes /\ routes'[j] = routes[j + 1]
      BY <1>1, <1>3, <1>4, <2>2
    <3> QED
      BY <3>1
  <2> QED
    BY <1>3, <2>1, <2>2
<1>8. ASSUME NEW h \in DOMAIN routes, h # i  PROVE \E j \in DOMAIN routes' : routes'[j] = routes[h]
  <2>1. CASE h < i
    BY <1>1, <1>3, <1>4, <2>1
  <2>2. CASE h > i
    <3>1. h - 1 \in DOMAIN routes' /\ routes'[h - 1] = routes[h]
      BY <1>1, <1>3, <1>4, <2>2
    <3> QED
      BY <3>1
  <2> QED
    BY <1>1, <1>3, <1>8, <2>1, <2>2
<1> QED
  BY <1>2, <1>3, <1>6, <1>7, <1>8 DEF Shrunk, OneForKey

LEMMA CleanSame ==
  ASSUME CleanNext
  PROVE  /\ SameRun /\ cmds' = cmds /\ todo' = todo /\ pc' = pc /\ rib' = rib
         /\ Versions => Versions'
         /\ Found => Found'
  BY DEF CleanNext, SameRun, Versions, Found, cfgVars, runVars

\* What a run has done so far stays when it changes neither updates nor routes.
LEMMA StaysRight ==
  ASSUME TablesOK, RunOK, AllLinksOK, pc \in {"build", "install"}, pc' \in {"build", "install"},
         SameRun, todo' = todo, routes' = routes, pc' = "install" => todo = {}
  PROVE  RunOK' /\ AllLinksOK'
<1>1. Updates' = Updates /\ \A k : Candidates(k)' = Candidates(k)
  BY SameUpdates
<1>2. \A k : Done(k)' = Done(k) /\ RoutesFor(k)' = RoutesFor(k)
  BY <1>1 DEF Done, RoutesFor
<1>3. \A j \in DOMAIN routes : RightAt(j)'
  <2> SUFFICES ASSUME NEW j \in DOMAIN routes  PROVE RightAt(j)'
    OBVIOUS
  <2>1. PICK r : r = routes[j]
    OBVIOUS
  <2>2. PICK done : done = Done(r.key)
    OBVIOUS
  <2>3. r \in Route /\ Right(r, done)
    BY <2>1, <2>2, LenProperties DEF RunOK, AllLinksOK, Right, TablesOK
  <2>4. Built(r, done)' /\ FirstIsBest(r, done)' /\ LinksOK(r)'
    BY <2>3, RightSame
  <2> QED
    BY <1>2, <2>1, <2>2, <2>4
    DEF Built, FirstIsBest, LinksOK, RightAt, LiveLinks, Current
<1> QED
  BY <1>1, <1>2, <1>3 DEF RunOK, AllLinksOK, RightAt

\* The types stay when the routes stay.
LEMMA StaysTyped ==
  ASSUME TablesOK, SameRun, cmds' = cmds, routes' = routes, RibType',
         pc' \in {"idle", "build", "install", "abort"}, next' \in Nat \ {0}
  PROVE  TablesOK'
<1>1. ListOK'
  BY ListFacts DEF ListOK, SameRun
<1> QED
  BY <1>1, RunTypes

LEMMA DeleteStaleKeeps ==
  ASSUME RouteInv, DeleteStale
  PROVE  RouteInv'
<1>1. /\ TablesOK /\ Found /\ RunOK /\ AllLinksOK /\ RibOK /\ Versions
      /\ CleanNext /\ Stale(routes[next]) /\ routes' = RemoveAt(routes, next) /\ next' = next
  BY DEF RouteInv, DeleteStale
<1>2. /\ pc = "build" /\ todo = {} /\ SameRun /\ cmds' = cmds /\ todo' = todo /\ pc' = pc
      /\ rib' = rib /\ Versions' /\ Found'
  BY <1>1, CleanSame DEF CleanNext
<1>3. next \in DOMAIN routes
  BY <1>1, LenProperties DEF CleanNext, TablesOK
<1>4. Shrunk(next)
  BY <1>1, <1>3, RemovedShrinks
<1>5. routes[next].level = lvl /\ Done(routes[next].key) = {}
  BY <1>1, <1>2, <1>3 DEF Stale, RunOK, Built
<1>6. Updates' = Updates /\ \A k : Candidates(k)' = Candidates(k)
  BY <1>2, SameUpdates
<1>7. \A k : Done(k)' = Done(k)
  BY <1>2, <1>6 DEF Done
<1>8. TablesOK'
  <2>1. ListOK
    BY <1>1, ListFacts
  <2>2. ListOK' /\ RibType'
    BY <1>1, <1>2, <1>4, <2>1 DEF Shrunk, ListOK, SameRun, RibType, TablesOK
  <2> QED
    BY <1>1, <1>2, <2>2, RunTypes DEF TablesOK
<1>9. \A j \in DOMAIN routes' : RightAt(j)'
  <2> SUFFICES ASSUME NEW j \in DOMAIN routes'  PROVE RightAt(j)'
    OBVIOUS
  <2>1. PICK r : r = routes'[j]
    OBVIOUS
  <2>2. PICK done : done = Done(r.key)
    OBVIOUS
  <2>3. PICK h \in DOMAIN routes : r = routes[h]
    BY <1>4, <2>1 DEF Shrunk
  <2>4. Right(r, done)
    BY <1>1, <1>2, <2>2, <2>3, RoutesAreRight
  <2>5. Built(r, done)' /\ FirstIsBest(r, done)' /\ LinksOK(r)'
    BY <1>2, <2>4, RightSame
  <2> QED
    BY <1>7, <2>1, <2>2, <2>5
    DEF Built, FirstIsBest, LinksOK, RightAt, LiveLinks, Current
<1>10. \A k \in Key : Done(k)' # {} => RoutesFor(k)' # {}
  <2> SUFFICES ASSUME NEW k \in Key, Done(k) # {}
               PROVE  \E j \in DOMAIN routes' : routes'[j].key = k
    BY <1>7 DEF RoutesFor
  <2>1. PICK h \in DOMAIN routes : routes[h].key = k
    BY <1>1, <1>2 DEF RunOK, RoutesFor
  <2>2. h # next
    BY <1>5, <2>1
  <2> QED
    BY <1>4, <2>1, <2>2 DEF Shrunk
<1>11. RunOK' /\ AllLinksOK'
  BY <1>1, <1>2, <1>6, <1>9, <1>10 DEF RunOK, AllLinksOK, RightAt
<1>12. RibOK'
  <2>1. \A h \in DOMAIN routes : SameButLike(routes[h], routes[h])
    BY DEF SameButLike
  <2>2. \A j \in DOMAIN routes' : \E h \in DOMAIN routes : SameButLike(routes'[j], routes[h])
    BY <1>4, <2>1 DEF Shrunk
  <2>3. \A h \in DOMAIN routes : routes[h].level # lvl =>
          \E j \in DOMAIN routes' : SameButLike(routes'[j], routes[h])
    BY <1>4, <1>5, <2>1 DEF Shrunk
  <2> QED
    BY <1>1, <1>2, <2>2, <2>3, RibKept DEF SameRun
<1> QED
  BY <1>2, <1>8, <1>11, <1>12 DEF RouteInv

LEMMA KeepRouteKeeps ==
  ASSUME RouteInv, KeepRoute
  PROVE  RouteInv'
<1>1. /\ TablesOK /\ Found /\ RunOK /\ AllLinksOK /\ RibOK /\ Versions
      /\ CleanNext /\ routes' = routes /\ next' = next + 1
  BY DEF RouteInv, KeepRoute
<1>2. /\ pc = "build" /\ todo = {} /\ SameRun /\ cmds' = cmds /\ todo' = todo /\ pc' = pc
      /\ rib' = rib /\ Versions' /\ Found'
  BY <1>1, CleanSame DEF CleanNext
<1>3. RunOK' /\ AllLinksOK'
  BY <1>1, <1>2, StaysRight
<1>4. TablesOK'
  <2>1. RibType' /\ next' \in Nat \ {0}
    BY <1>1, <1>2 DEF RibType, TablesOK
  <2> QED
    BY <1>1, <1>2, <2>1, StaysTyped
<1>5. RibOK'
  <2>1. \A h \in DOMAIN routes : SameButLike(routes[h], routes[h])
    BY DEF SameButLike
  <2> QED
    BY <1>1, <1>2, <2>1, RibKept DEF SameRun
<1> QED
  BY <1>2, <1>3, <1>4, <1>5 DEF RouteInv

-----------------------------------------------------------------------------
(* Flushing and installing.                                                *)

LEMMA FlushRibKeeps ==
  ASSUME RouteInv, FlushRib
  PROVE  RouteInv'
<1>1. /\ TablesOK /\ Found /\ RunOK /\ AllLinksOK /\ RibOK /\ Versions
      /\ pc = "build" /\ todo = {} /\ pc' = "install" /\ next' = 1
      /\ routes' = routes /\ todo' = todo /\ cmds' = cmds /\ SameRun
      /\ Versions' /\ Found'
  BY DEF RouteInv, FlushRib, CleanEnd, SameRun, cfgVars, runVars, Versions, Found
<1>2. /\ DOMAIN rib' = DOMAIN rib
      /\ \A k \in DOMAIN rib : /\ rib[k] \in [level : Level, hops : SUBSET Hop]
                               /\ rib'[k] = IF rib[k].level = lvl THEN [rib[k] EXCEPT !.hops = {}]
                                            ELSE rib[k]
  BY <1>1 DEF FlushRib, TablesOK
<1>3. \A k \in DOMAIN rib : /\ rib'[k] \in [level : Level, hops : SUBSET Hop]
                            /\ rib'[k].level = rib[k].level
                            /\ rib[k].level = lvl => rib'[k].hops = {}
                            /\ rib[k].level # lvl => rib'[k] = rib[k]
  BY <1>2
<1>4. RunOK' /\ AllLinksOK'
  BY <1>1, StaysRight
<1>5. TablesOK'
  <2>1. RibType' /\ next' \in Nat \ {0}
    BY <1>1, <1>2, <1>3 DEF RibType, TablesOK
  <2> QED
    BY <1>1, <2>1, StaysTyped
<1>6. RibOK'
  <2>1. /\ \A i \in DOMAIN routes : routes[i].level # lvl => Forwards(routes[i])
        /\ \A k \in DOMAIN rib : rib[k].hops # {} =>
             \/ rib[k].level = lvl
             \/ \E i \in DOMAIN routes : routes[i].key = k /\ routes[i].level # lvl
    BY <1>1 DEF RibOK
  <2>2. ASSUME NEW i \in DOMAIN routes, routes[i].level # lvl  PROVE Forwards(routes[i])'
    <3>1. routes[i].key \in DOMAIN rib
          /\ rib[routes[i].key] = [level |-> routes[i].level, hops |-> routes[i].hops]
      BY <2>1, <2>2 DEF Forwards
    <3> QED
      BY <1>1, <1>2, <1>3, <2>2, <3>1 DEF Forwards
  <2>3. ASSUME NEW k \in DOMAIN rib, rib'[k].hops # {}
        PROVE  \E i \in DOMAIN routes : routes[i].key = k /\ routes[i].level # lvl
    BY <1>3, <2>1, <2>3
  <2>4. ~\E i \in DOMAIN routes : i < 1
    BY <1>1, LenProperties DEF TablesOK
  <2> QED
    BY <1>1, <1>2, <2>2, <2>3, <2>4 DEF RibOK, SameRun
<1> QED
  BY <1>1, <1>4, <1>5, <1>6 DEF RouteInv

LEMMA InstallSame ==
  ASSUME InstallNext
  PROVE  /\ pc = "install" /\ next' = next + 1 /\ SameRun /\ cmds' = cmds
         /\ todo' = todo /\ routes' = routes
         /\ Versions => Versions'
         /\ Found => Found'
  BY DEF InstallNext, SameRun, Versions, Found, cfgVars, runVars

LEMMA InstallRouteKeeps ==
  ASSUME RouteInv, InstallRoute
  PROVE  RouteInv'
<1>1. /\ TablesOK /\ Found /\ RunOK /\ AllLinksOK /\ RibOK /\ Versions
      /\ InstallNext /\ pc' = pc
  BY DEF RouteInv, InstallRoute
<1>2. /\ pc = "install" /\ next' = next + 1 /\ SameRun /\ cmds' = cmds
      /\ todo' = todo /\ routes' = routes /\ Versions' /\ Found' /\ todo = {}
  BY <1>1, InstallSame DEF RunOK
<1>3. next \in DOMAIN routes
  BY <1>1, LenProperties DEF InstallNext, TablesOK
<1>4. PICK r : r = routes[next]
  OBVIOUS
<1>5. /\ r.level = lvl /\ Current(r)
      /\ rib' = [k \in DOMAIN rib \cup {r.key} |->
                   IF k = r.key THEN [level |-> lvl, hops |-> HopsBefore(k) \cup r.hops]
                   ELSE rib[k]]
  BY <1>4 DEF InstallRoute
<1>6. r \in Route /\ r.key \in Key /\ r.hops \in SUBSET Hop /\ lvl \in Level
  <2>1. r \in Route /\ lvl \in Level
    BY <1>1, <1>3, <1>4, LenProperties DEF TablesOK
  <2> QED
    BY <2>1 DEF Route
<1>7. OneForKey(routes)
  BY <1>1, KeysAreUnique DEF TablesOK
<1>8. /\ \A i \in DOMAIN routes : routes[i].level # lvl => Forwards(routes[i])
      /\ \A k \in DOMAIN rib : rib[k].hops # {} =>
           \E i \in DOMAIN routes : routes[i].key = k /\ (routes[i].level # lvl \/ i < next)
      /\ \A i \in DOMAIN routes : i < next /\ routes[i].level = lvl =>
           Current(routes[i]) /\ Forwards(routes[i])
  BY <1>1, <1>2 DEF RibOK
<1>9. HopsBefore(r.key) = {}
  <2>1. ASSUME r.key \in DOMAIN rib, rib[r.key].hops # {}  PROVE rib[r.key].level # lvl
    <3>1. PICK i \in DOMAIN routes : routes[i].key = r.key /\ (routes[i].level # lvl \/ i < next)
      BY <1>8, <2>1
    <3>2. i = next
      BY <1>3, <1>4, <1>7, <3>1 DEF OneForKey
    <3> QED
      BY <1>1, <1>4, <1>5, <3>1, <3>2 DEF TablesOK
  <2> QED
    BY <2>1 DEF HopsBefore
<1>10. /\ DOMAIN rib' = DOMAIN rib \cup {r.key}
       /\ rib'[r.key] = [level |-> r.level, hops |-> r.hops]
       /\ \A k \in DOMAIN rib : k # r.key => rib'[k] = rib[k]
  BY <1>5, <1>9
<1>11. TablesOK'
  <2>1. RibType'
    BY <1>1, <1>5, <1>6, <1>10 DEF RibType, TablesOK
  <2>2. next' \in Nat \ {0}
    BY <1>1, <1>2 DEF TablesOK
  <2> QED
    BY <1>1, <1>2, <2>1, <2>2, StaysTyped
<1>12. RunOK' /\ AllLinksOK'
  BY <1>1, <1>2, StaysRight
<1>13. \A i \in DOMAIN routes : i # next => routes[i].key # r.key
  BY <1>3, <1>4, <1>7 DEF OneForKey
<1>14. ASSUME NEW i \in DOMAIN routes, routes[i].level # lvl \/ i < next \/ i = next
       PROVE  Forwards(routes[i])' /\ (routes[i].level = lvl => Current(routes[i])')
  <2>1. CASE i = next
    BY <1>2, <1>4, <1>5, <1>10, <2>1 DEF Forwards, Current, SameRun
  <2>2. CASE i # next
    <3>1. Forwards(routes[i]) /\ (routes[i].level = lvl => Current(routes[i]))
      BY <1>8, <1>14, <2>2
    <3> QED
      BY <1>2, <1>10, <1>13, <2>2, <3>1 DEF Forwards, Current, SameRun
  <2> QED
    BY <2>1, <2>2
<1>15. \A i \in DOMAIN routes : i < next + 1 <=> i < next \/ i = next
  BY <1>1, <1>3, LenProperties DEF TablesOK
<1>16. ASSUME NEW k \in DOMAIN rib', rib'[k].hops # {}
       PROVE  \E i \in DOMAIN routes : /\ routes[i].key = k
                                       /\ routes[i].level # lvl \/ i < next \/ i = next
  <2>1. CASE k = r.key
    BY <1>3, <1>4, <2>1
  <2>2. CASE k # r.key
    BY <1>8, <1>10, <1>16, <2>2
  <2> QED
    BY <2>1, <2>2
<1>17. RibOK'
  BY <1>1, <1>2, <1>14, <1>15, <1>16 DEF RibOK, SameRun
<1> QED
  BY <1>2, <1>11, <1>12, <1>17 DEF RouteInv

LEMMA InstallOtherKeeps ==
  ASSUME RouteInv, InstallOther
  PROVE  RouteInv'
<1>1. /\ TablesOK /\ Found /\ RunOK /\ AllLinksOK /\ RibOK /\ Versions
      /\ InstallNext /\ pc' = pc /\ rib' = rib /\ routes[next].level # lvl
  BY DEF RouteInv, InstallOther
<1>2. /\ pc = "install" /\ next' = next + 1 /\ SameRun /\ cmds' = cmds
      /\ todo' = todo /\ routes' = routes /\ Versions' /\ Found' /\ todo = {}
  BY <1>1, InstallSame DEF RunOK
<1>3. next \in DOMAIN routes
  BY <1>1, LenProperties DEF InstallNext, TablesOK
<1>4. TablesOK'
  <2>1. RibType' /\ next' \in Nat \ {0}
    BY <1>1, <1>2 DEF RibType, TablesOK
  <2> QED
    BY <1>1, <1>2, <2>1, StaysTyped
<1>5. RunOK' /\ AllLinksOK'
  BY <1>1, <1>2, StaysRight
<1>6. \A i \in DOMAIN routes : i < next + 1 <=> i < next \/ i = next
  BY <1>1, <1>3, LenProperties DEF TablesOK
<1>7. RibOK'
  BY <1>1, <1>2, <1>6 DEF RibOK, SameRun, Forwards, Current
<1> QED
  BY <1>2, <1>4, <1>5, <1>7 DEF RouteInv

LEMMA InstallCrashKeeps ==
  ASSUME RouteInv, InstallCrash
  PROVE  RouteInv'
<1>1. /\ TablesOK /\ Found /\ AllLinksOK /\ Versions
      /\ InstallNext /\ pc' = "abort" /\ rib' = rib
  BY DEF RouteInv, InstallCrash
<1>2. /\ next' = next + 1 /\ SameRun /\ cmds' = cmds
      /\ todo' = todo /\ routes' = routes /\ Versions' /\ Found'
  BY <1>1, InstallSame
<1>3. TablesOK'
  <2>1. RibType' /\ next' \in Nat \ {0}
    BY <1>1, <1>2 DEF RibType, TablesOK
  <2> QED
    BY <1>1, <1>2, <2>1, StaysTyped
<1>4. AllLinksOK'
  BY <1>1, <1>2 DEF AllLinksOK, LinksOK, LiveLinks
<1> QED
  BY <1>1, <1>2, <1>3, <1>4 DEF RouteInv, RunOK, RibOK

LEMMA RunEndKeeps ==
  ASSUME RouteInv, RunEnd
  PROVE  RouteInv'
<1>1. /\ TablesOK /\ Found /\ AllLinksOK /\ RibOK /\ Versions
      /\ pc = "install" /\ pc' = "idle" /\ next > Len(routes)
      /\ SameRun /\ cmds' = cmds /\ next' = next
      /\ routes' = routes /\ rib' = rib /\ Versions' /\ Found'
  BY DEF RouteInv, RunEnd, SameRun, cfgVars, runVars, Versions, Found
<1>2. TablesOK'
  <2>1. RibType' /\ next' \in Nat \ {0}
    BY <1>1 DEF RibType, TablesOK
  <2> QED
    BY <1>1, <2>1, StaysTyped
<1>3. AllLinksOK'
  BY <1>1 DEF AllLinksOK, LinksOK, LiveLinks
<1>4. \A i \in DOMAIN routes : i < next
  BY <1>1, LenProperties DEF TablesOK
<1>5. \A i \in DOMAIN routes : Forwards(routes[i])
  BY <1>1, <1>4 DEF RibOK
<1>6. \A k \in DOMAIN rib : rib[k].hops # {} => RoutesFor(k) # {}
  BY <1>1 DEF RibOK, RoutesFor
<1>7. RibOK'
  BY <1>1, <1>5, <1>6 DEF RibOK, RibFollowsRoutes, Forwards, RoutesFor
<1> QED
  BY <1>1, <1>2, <1>3, <1>7 DEF RouteInv, RunOK

-----------------------------------------------------------------------------
(* Commands.                                                               *)

LEMMA AttachKeeps ==
  ASSUME RouteInv, NEW p \in Prefix, Attach(p)
  PROVE  RouteInv'
<1>1. /\ TablesOK /\ Found /\ AllLinksOK /\ RibOK /\ Versions /\ pc = "idle" /\ pc' = "idle"
      /\ cmds < MaxCmds /\ cmds' = cmds + 1 /\ adv' = adv \cup {p}
      /\ UNCHANGED <<ignore, spf, version, multi, routes, rib, lvl, todo, next>>
  BY DEF RouteInv, Attach, Command, runVars
<1>2. TablesOK'
  <2>1. cmds + 1 \in 0..MaxCmds
    BY <1>1, RouteConstants DEF TablesOK
  <2>2. \A i \in DOMAIN routes : RoutesFor(routes[i].key)' = RoutesFor(routes[i].key)
    BY <1>1 DEF RoutesFor
  <2> QED
    BY <1>1, <2>1, <2>2 DEF TablesOK
<1>3. Versions'
  BY <1>1 DEF Versions, TablesOK
<1>4. AllLinksOK' /\ Found'
  BY <1>1 DEF AllLinksOK, LinksOK, LiveLinks, Found
<1>5. RibOK'
  BY <1>1 DEF RibOK, RibFollowsRoutes, RoutesFor
<1> QED
  BY <1>1, <1>2, <1>3, <1>4, <1>5 DEF RouteInv, RunOK

LEMMA SetIgnoreAttachedKeeps ==
  ASSUME RouteInv, SetIgnoreAttached
  PROVE  RouteInv'
<1>1. /\ TablesOK /\ Found /\ AllLinksOK /\ RibOK /\ Versions /\ pc = "idle" /\ pc' = "idle"
      /\ cmds < MaxCmds /\ cmds' = cmds + 1 /\ ignore' \in BOOLEAN
      /\ UNCHANGED <<adv, spf, version, multi, routes, rib, lvl, todo, next>>
  BY DEF RouteInv, SetIgnoreAttached, Command, runVars
<1>2. TablesOK'
  <2>1. cmds + 1 \in 0..MaxCmds
    BY <1>1, RouteConstants DEF TablesOK
  <2>2. \A i \in DOMAIN routes : RoutesFor(routes[i].key)' = RoutesFor(routes[i].key)
    BY <1>1 DEF RoutesFor
  <2> QED
    BY <1>1, <2>1, <2>2 DEF TablesOK
<1>3. Versions'
  BY <1>1 DEF Versions, TablesOK
<1>4. AllLinksOK' /\ Found'
  BY <1>1 DEF AllLinksOK, LinksOK, LiveLinks, Found
<1>5. RibOK'
  BY <1>1 DEF RibOK, RibFollowsRoutes, RoutesFor
<1> QED
  BY <1>1, <1>2, <1>3, <1>4, <1>5 DEF RouteInv, RunOK

\* The linked prefixes after one of them has been freed.
LEMMA FreedLike ==
  ASSUME NEW like \in Seq(Pointer), NEW p,
         NEW q, q = [j \in DOMAIN like |-> IF like[j] = p THEN Freed ELSE like[j]]
  PROVE  /\ q \in Seq(Pointer) /\ DOMAIN q = DOMAIN like
         /\ \A j \in DOMAIN q : q[j] # Freed => like[j] = q[j]
<1>1. PICK n \in Nat : Len(like) = n /\ DOMAIN like = 1..n
  BY LenProperties
<1>2. \A j \in 1..n : like[j] \in Pointer
  BY <1>1, LenProperties
<1>3. Freed \in Pointer
  BY DEF Pointer
<1>4. q \in [1..n -> Pointer] /\ \A j \in 1..n : q[j] = IF like[j] = p THEN Freed ELSE like[j]
  BY <1>1, <1>2, <1>3
<1>5. q \in Seq(Pointer)
  BY <1>4, SeqDef
<1> QED
  BY <1>1, <1>4, <1>5

LEMMA DeattachKeeps ==
  ASSUME RouteInv, NEW p \in Prefix, Deattach(p)
  PROVE  RouteInv'
<1>1. /\ TablesOK /\ Found /\ AllLinksOK /\ RibOK /\ Versions /\ pc = "idle" /\ pc' = "idle"
      /\ cmds < MaxCmds /\ cmds' = cmds + 1 /\ adv' = adv \ {p}
      /\ routes' = [i \in DOMAIN routes |->
                      [routes[i] EXCEPT !.like =
                         [j \in DOMAIN @ |-> IF @[j] = p THEN Freed ELSE @[j]]]]
      /\ UNCHANGED <<ignore, spf, version, multi, rib, lvl, todo, next>>
  BY DEF RouteInv, Deattach, Command, runVars
<1>2. PICK n \in Nat : Len(routes) = n /\ DOMAIN routes = 1..n
  BY <1>1, LenProperties DEF TablesOK
<1>3. \A i \in 1..n : routes[i] \in Route
  BY <1>1, <1>2, LenProperties DEF TablesOK
<1> DEFINE freed(i) == [j \in DOMAIN routes[i].like |->
                          IF routes[i].like[j] = p THEN Freed ELSE routes[i].like[j]]
<1>4. DOMAIN routes' = 1..n /\ \A i \in 1..n : routes'[i] = [routes[i] EXCEPT !.like = freed(i)]
  BY <1>1, <1>2
<1>5. ASSUME NEW i \in 1..n
      PROVE  /\ routes'[i] \in Route /\ SameButLike(routes'[i], routes[i])
             /\ LinksOK(routes'[i])
  <2>1. routes[i].like \in Seq(Pointer)
    BY <1>3 DEF Route, Pointer
  <2>2. PICK q : q = freed(i)
    OBVIOUS
  <2>3. /\ q \in Seq(Pointer) /\ DOMAIN q = DOMAIN routes[i].like
        /\ \A j \in DOMAIN q : q[j] # Freed => routes[i].like[j] = q[j]
    BY <2>1, <2>2, FreedLike
  <2>4. Relinked(routes[i], q, routes'[i])
    BY <1>3, <1>4, <2>2, <2>3, RelinkFacts
  <2>5. LinksOK(routes[i])
    BY <1>1, <1>2 DEF AllLinksOK
  <2>6. Freed \notin ToSet(q) => /\ Freed \notin ToSet(routes[i].like)
                                 /\ \A j \in DOMAIN q : routes[i].like[j] = q[j]
    BY <2>3 DEF ToSet
  <2> QED
    BY <2>3, <2>4, <2>5, <2>6 DEF Relinked, SameButLike, LinksOK, LiveLinks
<1>6. routes' \in Seq(Route)
  <2>1. routes' \in [1..n -> Route]
    BY <1>1, <1>2, <1>5
  <2> QED
    BY <2>1, SeqDef
<1>7. TablesOK'
  <2>1. cmds + 1 \in 0..MaxCmds
    BY <1>1, RouteConstants DEF TablesOK
  <2>2. ListOK
    BY <1>1, ListFacts
  <2>3. OneForKey(routes')
    BY <1>2, <1>4, <1>5, <2>2 DEF ListOK, OneForKey, SameButLike
  <2>4. \A i \in DOMAIN routes' :
          Cardinality(routes'[i].hops) <= MaxNh /\ routes'[i].version <= version[routes'[i].level]
    BY <1>2, <1>4, <1>5, <2>2 DEF ListOK, SameButLike
  <2>5. ListOK'
    BY <1>1, <1>6, <2>3, <2>4 DEF ListOK
  <2>6. \A i \in DOMAIN routes' : RoutesFor(routes[i].key)' = {i}
    BY <2>5 DEF ListOK, OneForKey, RoutesFor
  <2> QED
    BY <1>1, <2>1, <2>5, <2>6 DEF TablesOK, ListOK
<1>8. Versions' /\ Found'
  BY <1>1 DEF Versions, TablesOK, Found
<1>9. AllLinksOK'
  BY <1>4, <1>5 DEF AllLinksOK, LinksOK, LiveLinks
<1>10. RibOK'
  <2>1. /\ \A i \in DOMAIN routes :
             /\ routes[i].key \in DOMAIN rib
             /\ rib[routes[i].key] = [level |-> routes[i].level, hops |-> routes[i].hops]
        /\ \A k \in DOMAIN rib : rib[k].hops # {} => \E i \in DOMAIN routes : routes[i].key = k
    BY <1>1 DEF RibOK, RibFollowsRoutes, RoutesFor
  <2>2. \A i \in DOMAIN routes' :
          /\ routes'[i].key \in DOMAIN rib
          /\ rib[routes'[i].key] = [level |-> routes'[i].level, hops |-> routes'[i].hops]
    BY <1>2, <1>4, <1>5, <2>1 DEF SameButLike
  <2>3. \A k \in DOMAIN rib : rib[k].hops # {} => \E i \in DOMAIN routes' : routes'[i].key = k
    BY <1>2, <1>4, <1>5, <2>1 DEF SameButLike
  <2>4. RibFollowsRoutes'
    BY <1>1, <2>2, <2>3 DEF RibFollowsRoutes, RoutesFor
  <2> QED
    BY <1>1, <2>4 DEF RibOK
<1> QED
  BY <1>1, <1>7, <1>8, <1>9, <1>10 DEF RouteInv, RunOK

\* The results that a run starts with are results of its level.
LEMMA StartRunKeeps ==
  ASSUME RouteInv, NEW l \in Level, NEW results, results \in Results[l] \cup {spf[l]},
         StartRun(l, results)
  PROVE  RouteInv'
<1>1. /\ TablesOK /\ Found /\ AllLinksOK /\ RibOK /\ Versions /\ pc = "idle" /\ pc' = "build"
      /\ cmds < MaxCmds /\ cmds' = cmds + 1 /\ next' = 1 /\ lvl' = l /\ todo' = Updates'
      /\ version' = [version EXCEPT ![l] = @ + 1] /\ spf' = [spf EXCEPT ![l] = results]
      /\ multi' = MultiArea(l, results)
      /\ UNCHANGED <<adv, ignore, routes, rib>>
  BY DEF RouteInv, StartRun, Command, cfgVars
<1>2. /\ version \in [Level -> 0..MaxCmds] /\ spf \in [Level -> Seq(Result)]
      /\ cmds \in 0..MaxCmds /\ MaxCmds \in Nat
      /\ \A k \in Level : version[k] <= cmds
  BY <1>1, RouteConstants DEF TablesOK, Versions
<1>3. /\ version'[l] = version[l] + 1
      /\ \A k \in Level : version'[k] \in 0..MaxCmds /\ version[k] <= version'[k]
                          /\ version'[k] <= cmds + 1
  BY <1>1, <1>2
<1>4. results \in Seq(Result) /\ results \in Results[l] \cup {<<>>}
  BY <1>1, <1>2, RouteConstants DEF Found
<1>5. TablesOK'
  <2>1. cmds + 1 \in 0..MaxCmds /\ version' \in [Level -> 0..MaxCmds]
    BY <1>1, <1>2, <1>3
  <2>2. spf' \in [Level -> Seq(Result)]
    BY <1>1, <1>2, <1>4
  <2>3. multi' \in BOOLEAN
    BY <1>1 DEF MultiArea, TablesOK
  <2>4. ListOK
    BY <1>1, ListFacts
  <2>5. \A i \in DOMAIN routes : routes[i].version \in Nat /\ routes[i].level \in Level
    <3>1. \A i \in DOMAIN routes : routes[i] \in Route
      BY <1>1, LenProperties DEF TablesOK
    <3> QED
      BY <3>1 DEF Route
  <2>6. \A i \in DOMAIN routes : routes[i].version <= version'[routes[i].level]
    <3> SUFFICES ASSUME NEW i \in DOMAIN routes
                 PROVE  routes[i].version <= version'[routes[i].level]
      OBVIOUS
    <3>1. PICK a : a = routes[i].level
      OBVIOUS
    <3>2. a \in Level /\ routes[i].version <= version[a] /\ version[a] <= version'[a]
          /\ version[a] \in Nat /\ version'[a] \in Nat
      BY <1>2, <1>3, <2>4, <2>5, <3>1 DEF ListOK
    <3> QED
      BY <2>5, <3>1, <3>2
  <2>7. \A i \in DOMAIN routes : RoutesFor(routes[i].key)' = {i}
    BY <1>1, <2>4 DEF ListOK, OneForKey, RoutesFor
  <2> QED
    <3>1. /\ adv \subseteq Prefix /\ ignore \in BOOLEAN /\ l \in Level
          /\ DOMAIN rib \subseteq Key
          /\ \A k \in DOMAIN rib : rib[k] \in [level : Level, hops : SUBSET Hop]
      BY <1>1 DEF TablesOK
    <3>2. /\ routes \in Seq(Route)
          /\ \A i \in DOMAIN routes : Cardinality(routes[i].hops) <= MaxNh
      BY <2>4 DEF ListOK
    <3>3. \A i \in DOMAIN routes' : /\ Cardinality(routes'[i].hops) <= MaxNh
                                    /\ RoutesFor(routes[i].key)' = {i}
                                    /\ routes'[i].version <= version'[routes'[i].level]
      BY <1>1, <2>6, <2>7, <3>2
    <3>4. /\ adv' \subseteq Prefix /\ ignore' \in BOOLEAN /\ lvl' \in Level
          /\ routes' \in Seq(Route) /\ DOMAIN rib' \subseteq Key
          /\ \A k \in DOMAIN rib' : rib'[k] \in [level : Level, hops : SUBSET Hop]
      BY <1>1, <3>1, <3>2
    <3>5. /\ next' \in Nat \ {0} /\ cmds' \in 0..MaxCmds
          /\ pc' \in {"idle", "build", "install", "abort"}
      BY <1>1, <2>1
    <3> QED
      BY <2>1, <2>2, <2>3, <3>3, <3>4, <3>5 DEF TablesOK
<1>6. Versions' /\ Found'
  BY <1>1, <1>2, <1>3, <1>4 DEF Versions, Found
<1>7. \A k : Done(k)' = {}
  BY <1>1 DEF Done, Candidates
<1>8. \A i \in DOMAIN routes : routes[i].level = l => routes[i].version # version'[l]
  <2> SUFFICES ASSUME NEW i \in DOMAIN routes, routes[i].level = l
               PROVE  routes[i].version # version'[l]
    OBVIOUS
  <2>1. routes[i] \in Route /\ routes[i].version <= version[l]
    BY <1>1, LenProperties DEF TablesOK
  <2>2. routes[i].version \in Nat /\ version[l] \in Nat
    BY <1>2, <2>1 DEF Route
  <2> QED
    BY <1>3, <2>1, <2>2
<1>9. ASSUME NEW i \in DOMAIN routes
      PROVE  Built(routes[i], Done(routes[i].key))' /\ FirstIsBest(routes[i], Done(routes[i].key))'
  <2>1. routes[i].level = l => ~Current(routes[i])'
    BY <1>1, <1>8 DEF Current
  <2> QED
    BY <1>1, <1>7, <2>1 DEF Built, FirstIsBest
<1>10. RunOK'
  BY <1>1, <1>7, <1>9 DEF RunOK
<1>11. AllLinksOK'
  BY <1>1 DEF AllLinksOK, LinksOK, LiveLinks
<1>12. RibOK'
  <2>1. /\ \A i \in DOMAIN routes : Forwards(routes[i])
        /\ \A k \in DOMAIN rib : rib[k].hops # {} => \E i \in DOMAIN routes : routes[i].key = k
    BY <1>1 DEF RibOK, RibFollowsRoutes, RoutesFor, Forwards
  <2>2. \A k \in DOMAIN rib : rib[k].hops # {} =>
          \E i \in DOMAIN routes : routes[i].key = k /\ rib[k].level = routes[i].level
    <3> SUFFICES ASSUME NEW k \in DOMAIN rib, rib[k].hops # {}
                 PROVE  \E i \in DOMAIN routes : routes[i].key = k /\ rib[k].level = routes[i].level
      OBVIOUS
    <3>1. PICK i \in DOMAIN routes : routes[i].key = k
      BY <2>1
    <3>2. rib[k] = [level |-> routes[i].level, hops |-> routes[i].hops]
      BY <2>1, <3>1 DEF Forwards
    <3> QED
      BY <3>1, <3>2
  <2> QED
    BY <1>1, <2>1, <2>2 DEF RibOK, Forwards
<1> QED
  BY <1>5, <1>6, <1>10, <1>11, <1>12 DEF RouteInv

-----------------------------------------------------------------------------
LEMMA RouteInit == Init => RouteInv
<1> SUFFICES ASSUME Init  PROVE RouteInv
  OBVIOUS
<1>1. /\ adv \subseteq Prefix /\ ignore = FALSE /\ multi = FALSE
      /\ spf = [l \in Level |-> <<>>] /\ version = [l \in Level |-> 0]
      /\ routes = <<>> /\ rib = <<>> /\ pc = "idle" /\ lvl = 1 /\ next = 1 /\ cmds = 0
      /\ MaxCmds \in Nat /\ 1 \in Level
  BY RouteConstants DEF Init, Level
<1>2. /\ <<>> \in Seq(Result) /\ <<>> \in Seq(Route)
      /\ \A i : i \notin DOMAIN <<>>
  BY EmptySeq
<1>3. TablesOK
  <2>1. spf \in [Level -> Seq(Result)] /\ version \in [Level -> 0..MaxCmds]
    BY <1>1, <1>2
  <2>2. /\ DOMAIN rib \subseteq Key /\ routes \in Seq(Route)
        /\ \A k : k \notin DOMAIN rib
    BY <1>1, <1>2
  <2>3. \A i : i \notin DOMAIN routes
    BY <1>1, <1>2
  <2>4. next \in Nat \ {0} /\ cmds \in 0..MaxCmds
    BY <1>1
  <2> QED
    BY <1>1, <2>1, <2>2, <2>3, <2>4 DEF TablesOK
<1>4. AllLinksOK /\ RibOK /\ RunOK
  BY <1>1, <1>2 DEF AllLinksOK, RibOK, RibFollowsRoutes, RunOK
<1>5. Versions /\ Found
  BY <1>1 DEF Versions, Found
<1> QED
  BY <1>3, <1>4, <1>5 DEF RouteInv

LEMMA RouteStep == RouteInv /\ [Next]_vars => RouteInv'
<1> SUFFICES ASSUME RouteInv, [Next]_vars  PROVE RouteInv'
  OBVIOUS
<1>1. CASE SetIgnoreAttached
  BY <1>1, SetIgnoreAttachedKeeps
<1>2. CASE \E p \in Prefix : Attach(p) \/ Deattach(p)
  BY <1>2, AttachKeeps, DeattachKeeps
<1>3. CASE \E l \in Level : FullRun(l) \/ PartialRun(l)
  BY <1>3, StartRunKeeps DEF FullRun, PartialRun
<1>4. CASE \E u \in todo : UpdateIgnored(u) \/ UpdateNew(u) \/ UpdateRoute(u) \/ UpdateCrash(u)
  BY <1>4, UpdateIgnoredKeeps, UpdateNewKeeps, UpdateRouteKeeps, UpdateCrashKeeps
<1>5. CASE DeleteStale \/ KeepRoute \/ FlushRib
  BY <1>5, DeleteStaleKeeps, KeepRouteKeeps, FlushRibKeeps
<1>6. CASE InstallRoute \/ InstallOther \/ InstallCrash \/ RunEnd
  BY <1>6, InstallRouteKeeps, InstallOtherKeeps, InstallCrashKeeps, RunEndKeeps
<1>7. CASE UNCHANGED vars
  <2>1. UNCHANGED <<adv, ignore, multi, spf, version, routes, count, rib, pc, lvl, todo, next, cmds>>
    BY <1>7 DEF vars
  <2>2. /\ TablesOK /\ RunOK /\ AllLinksOK /\ RibOK /\ Versions /\ Found
    BY DEF RouteInv
  <2>3. TablesOK'
    BY <2>1, <2>2 DEF TablesOK, RoutesFor
  <2>4. AllLinksOK' /\ Versions' /\ Found'
    BY <2>1, <2>2 DEF AllLinksOK, LinksOK, LiveLinks, Versions, Found
  <2>5. RibOK'
    BY <2>1, <2>2 DEF RibOK, RibFollowsRoutes, RoutesFor, Forwards, Current
  <2>6. RunOK'
    <3>1. CASE pc \in {"build", "install"}
      <4>1. SameRun
        BY <2>1 DEF SameRun
      <4>2. pc' = "install" => todo = {}
        BY <2>1, <2>2 DEF RunOK
      <4> QED
        BY <2>1, <2>2, <3>1, <4>1, <4>2, StaysRight
    <3>2. CASE pc \notin {"build", "install"}
      BY <2>1, <3>2 DEF RunOK
    <3> QED
      BY <3>1, <3>2
  <2> QED
    BY <2>3, <2>4, <2>5, <2>6 DEF RouteInv
<1> QED
  BY <1>1, <1>2, <1>3, <1>4, <1>5, <1>6, <1>7 DEF Next, Operator, Run

\* The invariant holds in every state.
THEOREM RouteInvariant == Spec => []RouteInv
  BY RouteInit, RouteStep, PTL DEF Spec

\* The count of the list grows with every new route and never shrinks.
LEMMA CountStep == RouteInv /\ CountOK /\ [Next]_vars => CountOK'
<1> SUFFICES ASSUME RouteInv, CountOK, [Next]_vars  PROVE CountOK'
  OBVIOUS
<1>1. PICK n \in Nat : Len(routes) = n /\ DOMAIN routes = 1..n /\ routes \in Seq(Route)
  BY LenProperties DEF RouteInv, TablesOK
<1>2. TablesOK /\ TablesOK'
  BY RouteStep DEF RouteInv
<1>3. PICK m \in Nat : Len(routes') = m /\ DOMAIN routes' = 1..m
  BY <1>2, LenProperties DEF TablesOK
<1>4. CASE routes' = routes /\ count' = count
  BY <1>4 DEF CountOK
<1>5. CASE \E u \in todo : UpdateNew(u)
  <2>1. PICK s : routes' = <<s>> \o routes /\ count' = count + 1
    BY <1>5 DEF UpdateNew
  <2> DEFINE S == Route \cup {s}
  <2>2. <<s>> \in Seq(S) /\ Len(<<s>>) = 1 /\ routes \in Seq(S)
    BY <1>1, LenProperties, SeqDef
  <2> HIDE DEF S
  <2>3. Len(<<s>> \o routes) = 1 + n
    BY <1>1, <2>2, ConcatFacts
  <2> QED
    BY <1>1, <2>1, <2>3 DEF CountOK
<1>6. CASE \E u \in todo : UpdateRoute(u)
  <2>1. count' = count /\ DOMAIN routes' = DOMAIN routes
    BY <1>6 DEF UpdateRoute
  <2>2. m = n
    BY <1>1, <1>3, <2>1
  <2> QED
    BY <1>1, <1>3, <2>1, <2>2 DEF CountOK
<1>7. CASE DeleteStale
  <2>1. /\ routes' = RemoveAt(routes, next) /\ count' = count /\ next \in 1..n
    BY <1>1, <1>2, <1>7 DEF DeleteStale, CleanNext, TablesOK
  <2>2. Len(routes') = n - 1
    BY <1>1, <2>1, RemoveAtFacts
  <2> QED
    BY <1>1, <2>1, <2>2 DEF CountOK
<1>8. CASE \E p \in Prefix : Deattach(p)
  <2>1. count' = count /\ DOMAIN routes' = DOMAIN routes
    BY <1>8 DEF Deattach
  <2>2. m = n
    BY <1>1, <1>3, <2>1
  <2> QED
    BY <1>1, <1>3, <2>1, <2>2 DEF CountOK
<1>9. ASSUME ~UNCHANGED <<routes, count>>
      PROVE  \/ \E u \in todo : UpdateNew(u) \/ UpdateRoute(u)
             \/ DeleteStale \/ \E p \in Prefix : Deattach(p)
  BY <1>9 DEF Next, Operator, Run, vars, Attach, SetIgnoreAttached, FullRun,
              PartialRun, StartRun, Command, UpdateIgnored, UpdateCrash, KeepRoute, CleanNext,
              FlushRib, InstallRoute, InstallOther, InstallCrash, InstallNext, RunEnd
<1> QED
  BY <1>4, <1>5, <1>6, <1>7, <1>8, <1>9

\* Routes, table and run have their types, a key has one route, the list counts no
\* fewer nodes than it has, and no route has more next hops than the array has
\* places, for any prefixes and results.
THEOREM RouteTypes == Spec => []TypeOK
<1>1. Init => CountOK
  BY EmptySeq DEF Init, CountOK
<1>2. RouteInv => TablesOK
  BY DEF RouteInv
<1>3. TablesOK /\ CountOK => TypeOK
  BY DEF TypeOK
<1> QED
  BY RouteInvariant, CountStep, <1>1, <1>2, <1>3, PTL DEF Spec

\* Between runs inet.0 forwards exactly as the routes of both levels say.
THEOREM RibFollows == Spec => []RibFollowsRoutes
<1>1. RouteInv => RibFollowsRoutes
  BY DEF RouteInv, RibOK, RibFollowsRoutes
<1> QED
  BY RouteInvariant, <1>1, PTL

\* At the end of a run nothing is left to do and no route is stale.
LEMMA EndFacts ==
  ASSUME RouteInv, RunEnded
  PROVE  /\ \A k : Done(k) = Candidates(k)
         /\ \A i \in DOMAIN routes : routes[i].level = lvl => Current(routes[i])
<1>1. pc = "install" /\ todo = {} /\ next > Len(routes) /\ TablesOK /\ RibOK
  BY DEF RouteInv, RunEnded, RunOK
<1>2. \A i \in DOMAIN routes : i < next
  BY <1>1, LenProperties DEF TablesOK
<1> QED
  BY <1>1, <1>2 DEF Done, RibOK

\* A route that is right for all candidates of its key is as it should be.
LEMMA RightIsBest ==
  ASSUME RouteInv, NEW r \in Route, NEW cands, UpdatesFor(cands, r.key), Right(r, cands),
         r.level = lvl => Current(r)
  PROVE  /\ r.level = lvl =>
              /\ BestOf(cands) # {}
              /\ \A u \in BestOf(cands) : /\ RoutePreference(r.flags, lvl) = Pref(u.pfx)
                                          /\ RouteCost(r) = UpdateCost(u)
              /\ r.hops = UNION {u.hops : u \in BestOf(cands)}
         /\ r.level # lvl =>
              \A u \in BestOf(cands) : RoutePreference(r.flags, r.level) < Pref(u.pfx)
<1>1. Built(r, cands) /\ Ranked(r) /\ \A v \in cands : Rankable(v)
  BY RouteIsRanked DEF Right, UpdatesFor, UpdateOK, Rankable
<1>2. CASE r.level = lvl
  <2>1. Stands(r, cands)
    BY <1>1, <1>2 DEF Built
  <2>2. /\ BestOf(cands) # {}
        /\ \A u \in BestOf(cands) : Equal(r, u)
        /\ r.hops = UNION {u.hops : u \in BestOf(cands)}
    BY <1>1, <2>1, StandsForBest
  <2> QED
    BY <1>2, <2>2 DEF Equal
<1>3. CASE r.level # lvl
  BY <1>1, <1>3 DEF Built, BestOf
<1> QED
  BY <1>2, <1>3

LEMMA FirstAmongBest ==
  ASSUME RouteInv, NEW r \in Route, NEW cands, UpdatesFor(cands, r.key), Right(r, cands),
         r.level = lvl, Current(r), ~External(r.flags), r.key # Default, LiveLinks(r)
  PROVE  r.like # <<>> /\ r.like[1] \in {u.pfx : u \in BestOf(cands)}
<1>1. Built(r, cands) /\ FirstIsBest(r, cands) /\ Ranked(r) /\ \A v \in cands : Rankable(v)
  BY RouteIsRanked DEF Right, UpdatesFor, UpdateOK, Rankable
<1>2. BestOf(cands) = {u \in cands : Equal(r, u)}
  BY <1>1, StandsForBest DEF Built
<1> QED
  BY <1>1, <1>2 DEF FirstIsBest

LEMMA InvIsExact == RouteInv => RoutesExact
<1> SUFFICES ASSUME RouteInv, RunEnded
             PROVE  RoutesExact
  BY DEF RoutesExact, RoutesAreBest, AdvertisedKeysHaveRoutes, BestPrefixFirst
<1>1. /\ TablesOK /\ Found /\ RunOK /\ AllLinksOK /\ pc = "install"
  BY DEF RouteInv, RunEnded
<1>2. /\ \A k : Done(k) = Candidates(k)
      /\ \A i \in DOMAIN routes : routes[i].level = lvl => Current(routes[i])
  BY EndFacts
<1>3. ASSUME NEW i \in DOMAIN routes
      PROVE  /\ routes[i] \in Route /\ Right(routes[i], Candidates(routes[i].key))
             /\ UpdatesFor(Candidates(routes[i].key), routes[i].key)
  <2>1. routes[i] \in Route
    BY <1>1, LenProperties DEF TablesOK
  <2>2. Right(routes[i], Done(routes[i].key))
    BY <1>1, <2>1 DEF Right, RunOK, AllLinksOK
  <2>3. UpdatesFor(Done(routes[i].key), routes[i].key)
    BY <1>1, DoneAreUpdates
  <2> QED
    BY <1>2, <2>1, <2>2, <2>3
<1>4. RoutesAreBest
  <2> SUFFICES ASSUME NEW i \in DOMAIN routes
               PROVE  LET best == BestOf(Candidates(routes[i].key))
                      IN IF routes[i].level = lvl
                         THEN /\ best # {}
                              /\ \A u \in best :
                                   /\ RoutePreference(routes[i].flags, lvl) = Pref(u.pfx)
                                   /\ RouteCost(routes[i]) = UpdateCost(u)
                              /\ routes[i].hops = UNION {u.hops : u \in best}
                         ELSE \A u \in best :
                                RoutePreference(routes[i].flags, routes[i].level) < Pref(u.pfx)
    BY DEF RoutesAreBest
  <2> QED
    BY <1>2, <1>3, RightIsBest
<1>5. AdvertisedKeysHaveRoutes
  BY <1>1, <1>2 DEF RunOK, AdvertisedKeysHaveRoutes
<1>6. BestPrefixFirst
  <2> SUFFICES ASSUME NEW i \in DOMAIN routes, routes[i].level = lvl, ~External(routes[i].flags),
                      routes[i].key # Default, LiveLinks(routes[i])
               PROVE  /\ routes[i].like # <<>>
                      /\ routes[i].like[1] \in {u.pfx : u \in BestOf(Candidates(routes[i].key))}
    BY DEF BestPrefixFirst
  <2> QED
    BY <1>2, <1>3, FirstAmongBest
<1> QED
  BY <1>4, <1>5, <1>6 DEF RoutesExact

\* The routes that a run leaves, if it ends, are exactly the best ones that the
\* advertised prefixes of the reached routers allow, and the first linked prefix of a
\* route is one of the best, whatever the order of the prefixes and the earlier runs.
\* A run need not end: one that meets a new route after a route was deleted reads
\* beyond the list (routes.c:322); StopsAreExplained names the runs that stop.
THEOREM RoutesAreExact == Spec => []RoutesExact
  BY RouteInvariant, InvIsExact, PTL

-----------------------------------------------------------------------------
(* The routes of the other level.                                          *)

KeptOrReplaced(r) ==
  \E j \in DOMAIN routes' :
    LET s == routes'[j]
    IN /\ s.key = r.key
       /\ \/ [s EXCEPT !.like = <<>>] = [r EXCEPT !.like = <<>>]
          \/ s.level = lvl /\ RoutePreference(s.flags, s.level) < RoutePreference(r.flags, r.level)

LEMMA SameIsKept ==
  ASSUME NEW h \in DOMAIN routes, NEW j \in DOMAIN routes', routes'[j] = routes[h]
  PROVE  KeptOrReplaced(routes[h])
  BY DEF KeptOrReplaced

\* A route whose update takes it over from the other level is replaced by a
\* preferred one.
LEMMA UpdateKeepsOther ==
  ASSUME RouteInv, NEW u \in todo, UpdateRoute(u),
         NEW h \in DOMAIN routes, routes[h].level # lvl
  PROVE  KeptOrReplaced(routes[h])
<1>1. Usable(u)
  BY UpdateRouteFacts
<1>2. PICK i, s : UpdateAt(u, i, s)
  BY UpdateRouteFacts
<1>3. PICK r : r = routes[i]
  OBVIOUS
<1>4. /\ i \in DOMAIN routes /\ r.key = u.pfx.key /\ r \in Route
      /\ s \in Route /\ s.key = u.pfx.key
      /\ Outcome(r, u, Done(u.pfx.key), s) /\ Entered(s)
  BY <1>2, <1>3 DEF UpdateAt
<1>5. TablesOK /\ AllLinksOK /\ OneForKey(routes)
  BY KeysAreUnique DEF RouteInv, TablesOK
<1>6. CASE routes[h].key # s.key
  <2>1. PICK j \in DOMAIN routes' : routes'[j] = routes[h]
    BY <1>4, <1>6 DEF Entered
  <2> QED
    BY <2>1, SameIsKept
<1>7. CASE routes[h].key = s.key
  <2>1. routes[h] = r /\ h = i
    BY <1>3, <1>4, <1>5, <1>7 DEF OneForKey
  <2>2. PICK j \in DOMAIN routes' : routes'[j] = s
    BY <1>4 DEF Entered
  <2>3. r.level # lvl
    BY <2>1
  <2>4. \/ Takes(s, u) /\ Overwrites(r, u)
        \/ [s EXCEPT !.like = <<>>] = [r EXCEPT !.like = <<>>]
    BY <1>4, <2>3 DEF Outcome
  <2>5. CASE [s EXCEPT !.like = <<>>] = [r EXCEPT !.like = <<>>]
    BY <1>4, <2>1, <2>2, <2>5 DEF KeptOrReplaced
  <2>6. CASE Takes(s, u) /\ Overwrites(r, u)
    <3>1. UpdateOK(u) /\ LinksOK(r)
      BY <1>1, <1>5, <2>1 DEF Usable, AllLinksOK
    <3>2. s.level = lvl /\ RoutePreference(s.flags, s.level) = Pref(u.pfx)
      BY <1>5, <2>6, <3>1, TakesIsEqual DEF Takes, Equal
    <3>3. Better(r, u)
      BY <2>3, <2>6 DEF Overwrites, Comparable
    <3>4. Pref(u.pfx) < RoutePreference(r.flags, r.level)
      BY <1>1, <1>4, <1>5, <2>3, <3>1, <3>3, LevelsDiffer DEF Better
    <3> QED
      BY <1>4, <2>1, <2>2, <3>2, <3>4 DEF KeptOrReplaced
  <2> QED
    BY <2>4, <2>5, <2>6
<1> QED
  BY <1>6, <1>7

LEMMA StepKeepsOther ==
  ASSUME RouteInv, [Next]_vars, pc # "idle", NEW h \in DOMAIN routes, routes[h].level # lvl
  PROVE  KeptOrReplaced(routes[h])
<1>1. TablesOK
  BY DEF RouteInv
<1>2. CASE routes' = routes
  BY <1>2, SameIsKept
<1>3. CASE \E u \in todo : UpdateNew(u)
  <2>1. PICK u \in todo : UpdateNew(u)
    BY <1>3
  <2>2. PICK s : routes' = <<s>> \o routes
    BY <2>1 DEF UpdateNew
  <2>3. PICK n \in Nat : Len(routes) = n /\ DOMAIN routes = 1..n /\ routes \in Seq(Route)
    BY <1>1, LenProperties DEF TablesOK
  <2>4. \E j \in DOMAIN routes' : routes'[j] = routes[h]
    <3> DEFINE S == Route \cup {s}
    <3>1. <<s>> \in Seq(S) /\ Len(<<s>>) = 1 /\ routes \in Seq(S)
      BY <2>3, LenProperties, SeqDef
    <3>2. /\ routes' \in Seq(S) /\ Len(routes') = 1 + n
          /\ \A j \in 1..n : routes'[1 + j] = routes[j]
      BY <2>2, <2>3, <3>1, ConcatFacts
    <3>3. 1 + h \in DOMAIN routes' /\ routes'[1 + h] = routes[h]
      BY <2>3, <3>2, LenProperties
    <3> QED
      BY <3>3
  <2> QED
    BY <2>4, SameIsKept
<1>4. CASE \E u \in todo : UpdateRoute(u)
  BY <1>4, UpdateKeepsOther
<1>5. CASE DeleteStale
  <2>1. next \in DOMAIN routes
    BY <1>1, <1>5, LenProperties DEF DeleteStale, CleanNext, TablesOK
  <2>2. Shrunk(next)
    BY <1>1, <1>5, <2>1, RemovedShrinks DEF DeleteStale
  <2>3. h # next
    BY <1>5 DEF DeleteStale, Stale
  <2>4. PICK j \in DOMAIN routes' : routes'[j] = routes[h]
    BY <2>2, <2>3 DEF Shrunk
  <2> QED
    BY <2>4, SameIsKept
<1>6. ASSUME ~UNCHANGED routes
      PROVE  (\E u \in todo : UpdateNew(u) \/ UpdateRoute(u)) \/ DeleteStale
  BY <1>6 DEF Next, Operator, Run, vars, Attach, Deattach, SetIgnoreAttached, FullRun,
              PartialRun, StartRun, Command, UpdateIgnored, UpdateCrash, KeepRoute, FlushRib,
              InstallRoute, InstallOther, InstallCrash, InstallNext, RunEnd
<1> QED
  BY <1>2, <1>3, <1>4, <1>5, <1>6

\* A run of one level takes a route of the other level away only to replace it by a
\* preferred route of its own.
THEOREM OtherLevelStays == Spec => OtherLevelKept
<1>1. RouteInv /\ [Next]_vars =>
        [\A i \in DOMAIN routes :
           pc # "idle" /\ routes[i].level # lvl =>
             \E j \in DOMAIN routes' :
               LET r == routes'[j]
               IN /\ r.key = routes[i].key
                  /\ \/ [r EXCEPT !.like = <<>>] = [routes[i] EXCEPT !.like = <<>>]
                     \/ r.level = lvl /\ RoutePreference(r.flags, r.level)
                                         < RoutePreference(routes[i].flags, routes[i].level)]_vars
  BY StepKeepsOther DEF KeptOrReplaced
<1> QED
  BY RouteInvariant, <1>1, PTL DEF Spec, OtherLevelKept
-----------------------------------------------------------------------------
(* Why a run stops the process.                                            *)

\* No linked prefix of a route is dead.
Alive(r) == \A q \in ToSet(r.like) : ~DeadLink(q)

\* Only levels that ran have routes.
LevelsRan ==
  /\ \A i \in DOMAIN routes : version[routes[i].level] > 0
  /\ pc \in {"build", "install"} => version[lvl] > 0

\* The walk over the list leaves a stale route only if the newest one is stale.
HeadFirst ==
  /\ pc = "build" /\ todo # {} => next = 1
  /\ pc = "build" => \A i \in DOMAIN routes : i < next /\ Stale(routes[i]) => Stale(routes[1])
  /\ pc = "install" => \A i \in DOMAIN routes : Stale(routes[i]) => Stale(routes[1])

\* While one level has not run, the routes that a run has touched link what is
\* advertised and reached.
OneLevel == \E l \in Level : version[l] = 0
LinksAlive ==
  pc = "build" /\ OneLevel => \A i \in DOMAIN routes : Current(routes[i]) => Alive(routes[i])

StopInv == LevelsRan /\ HeadFirst /\ LinksAlive /\ StopsExplained

\* Linking keeps links alive: the update's router was found by this run.
LEMMA LinkedAlive ==
  ASSUME TablesOK, Found, NEW u, UpdateOK(u), NEW like \in Seq(Pointer),
         \A q \in ToSet(like) : ~DeadLink(q), NEW new \in Linked(like, u)
  PROVE  \A q \in ToSet(new) : ~DeadLink(q)
<1>1. CASE u.linked
  <2>1. LinkedIn(like, u, new) /\ u.pfx \in Prefix
    BY <1>1, LinkFacts DEF UpdateOK
  <2>2. ~DeadLink(u.pfx)
    <3>1. ResultOf(u.pfx.level, u.pfx.host) # {}
      BY DistFacts
    <3> QED
      BY <2>1, <3>1, RouteConstants DEF DeadLink
  <2>3. \A j \in DOMAIN new : new[j] = u.pfx \/ \E h \in DOMAIN like : new[j] = like[h]
    BY <2>1 DEF LinkedIn
  <2> QED
    BY <2>2, <2>3 DEF ToSet
<1>2. CASE ~u.linked
  BY <1>2, UnlinkedFacts
<1> QED
  BY <1>1, <1>2

\* What an update leaves of the level and the links of a route.
LinksOf(m, r) ==
  /\ m \in Route /\ (m.level = lvl \/ m.level = r.level)
  /\ m.like = <<>> \/ m.like = r.like
  /\ r.level = lvl /\ ~Current(r) => m.like = <<>>

LEMMA UpdatedLinks ==
  ASSUME TablesOK, NEW u, UpdateOK(u), NEW r \in Route, r.key = u.pfx.key
  PROVE  LinksOf(Updated(r, u), r)
<1>1. CASE Overwrites(r, u)
  <2>1. Updated(r, u) = Overwritten(r, u)
    BY <1>1 DEF Updated
  <2>2. PICK m : m = Overwritten(r, u)
    OBVIOUS
  <2>3. Takes(m, u) /\ m.like = IF r.level = lvl THEN <<>> ELSE r.like
    BY <2>2, OverwriteFacts
  <2> QED
    BY <2>1, <2>2, <2>3 DEF LinksOf, Takes
<1>2. CASE ~Overwrites(r, u) /\ Equal(r, u)
  <2>1. Updated(r, u) = Merged(r, u)
    BY <1>2 DEF Updated
  <2>2. /\ Merged(r, u) \in Route /\ Merged(r, u).level = r.level
        /\ Merged(r, u).like = r.like
    BY DEF Merged, Route, UpdateOK
  <2>3. r.level = lvl => Current(r)
    BY <1>2 DEF Overwrites, Comparable
  <2> QED
    BY <2>1, <2>2, <2>3 DEF LinksOf
<1>3. CASE ~Overwrites(r, u) /\ ~Equal(r, u)
  BY <1>3 DEF Updated, LinksOf, Overwrites, Comparable
<1> QED
  BY <1>1, <1>2, <1>3

\* A route that an update has left: its level ran, and its links are alive while
\* one level has not run.
Touched(s) ==
  /\ s.level = lvl \/ \E h \in DOMAIN routes : s.level = routes[h].level
  /\ OneLevel => Alive(s)

LEMMA NewTouched ==
  ASSUME RouteInv, NEW u \in todo, UpdateNew(u)
  PROVE  \A j \in DOMAIN routes' : Touched(routes'[j]) \/ \E h \in DOMAIN routes : routes'[j] = routes[h]
<1>1. /\ TablesOK /\ Found /\ RunOK /\ UpdateNext(u) /\ ~Ignored(u)
      /\ RoutesFor(u.pfx.key) = {} /\ Pref(u.pfx) # NoPreference
  BY DEF RouteInv, UpdateNew
<1>2. UpdateOK(u) /\ Usable(u)
  BY <1>1, UpdateSame, UpdateFacts DEF RunOK, Usable
<1>3. PICK like \in Linked(<<>>, u) : routes' = <<[NewRoute(u) EXCEPT !.like = like]>> \o routes
  BY DEF UpdateNew
<1>4. PICK s : s = [NewRoute(u) EXCEPT !.like = like]
  OBVIOUS
<1>5. Takes(s, u)
  BY <1>1, <1>2, <1>4, NewIsRight
<1>6. s.like = like
  BY <1>4 DEF NewRoute, Overwritten
<1>7. \A q \in ToSet(like) : ~DeadLink(q)
  <2>1. <<>> \in Seq(Pointer) /\ \A q \in ToSet(<<>>) : ~DeadLink(q)
    BY EmptySeq DEF ToSet
  <2> QED
    BY <1>1, <1>2, <2>1, LinkedAlive
<1>8. Touched(s)
  BY <1>5, <1>6, <1>7 DEF Touched, Takes, Alive
<1>9. Entered(s)
  BY <1>1, <1>3, <1>4, <1>5, NewEntered DEF Takes
<1> QED
  BY <1>8, <1>9 DEF Entered

LEMMA UpdateTouched ==
  ASSUME RouteInv, LevelsRan, LinksAlive, NEW u \in todo, UpdateRoute(u)
  PROVE  \A j \in DOMAIN routes' : Touched(routes'[j]) \/ \E h \in DOMAIN routes : routes'[j] = routes[h]
<1>1. /\ TablesOK /\ Found /\ RunOK /\ UpdateNext(u) /\ pc = "build"
  BY DEF RouteInv, UpdateRoute, UpdateNext
<1>2. UpdateOK(u)
  BY <1>1, UpdateFacts DEF RunOK
<1>3. PICK i \in RoutesFor(u.pfx.key) :
        LET m == Updated(routes[i], u)
        IN \E like \in Linked(m.like, u) : routes' = [routes EXCEPT ![i] = [m EXCEPT !.like = like]]
  BY DEF UpdateRoute
<1>4. PICK r : r = routes[i]
  OBVIOUS
<1>5. PICK m : m = Updated(r, u)
  OBVIOUS
<1>6. PICK like \in Linked(m.like, u) : routes' = [routes EXCEPT ![i] = [m EXCEPT !.like = like]]
  BY <1>3, <1>4, <1>5
<1>7. i \in DOMAIN routes /\ r \in Route /\ r.key = u.pfx.key
  BY <1>1, <1>4, LenProperties DEF RoutesFor, TablesOK
<1>8. LinksOf(m, r)
  BY <1>1, <1>2, <1>5, <1>7, UpdatedLinks
<1>9. m.like \in Seq(Pointer)
  BY <1>8 DEF LinksOf, Route, Pointer
<1>10. PICK s : s = [m EXCEPT !.like = like]
  OBVIOUS
<1>11. s.level = m.level /\ s.like = like
  BY <1>8, <1>10 DEF LinksOf, Route
<1>12. ASSUME OneLevel  PROVE \A q \in ToSet(m.like) : ~DeadLink(q)
  <2>1. r.level = lvl
    <3>1. version[r.level] > 0 /\ version[lvl] > 0
      BY <1>1, <1>4, <1>7 DEF LevelsRan
    <3>2. r.level \in Level /\ lvl \in Level
      BY <1>1, <1>7 DEF TablesOK, Route
    <3>3. PICK l \in Level : version[l] = 0
      BY <1>12 DEF OneLevel
    <3> QED
      BY <3>1, <3>2, <3>3 DEF Level
  <2>2. CASE m.like = <<>>
    BY <2>2, EmptySeq DEF ToSet
  <2>3. CASE m.like # <<>>
    <3>1. Current(r) /\ m.like = r.like
      BY <1>8, <2>1, <2>3 DEF LinksOf
    <3> QED
      BY <1>1, <1>4, <1>7, <1>12, <3>1 DEF LinksAlive, Alive
  <2> QED
    BY <2>2, <2>3
<1>13. OneLevel => Alive(s)
  BY <1>1, <1>2, <1>9, <1>11, <1>12, LinkedAlive DEF Alive
<1>14. Touched(s)
  BY <1>4, <1>7, <1>8, <1>11, <1>13 DEF Touched, LinksOf
<1>15. DOMAIN routes' = DOMAIN routes
       /\ \A j \in DOMAIN routes : routes'[j] = IF j = i THEN s ELSE routes[j]
  BY <1>6, <1>7, <1>10
<1> QED
  BY <1>14, <1>15

\* An update that does not stop the process.
LEMMA UpdateKeepsStop ==
  ASSUME RouteInv, StopInv, NEW u \in todo, UpdateIgnored(u) \/ UpdateNew(u) \/ UpdateRoute(u)
  PROVE  StopInv'
<1>1. /\ UpdateNext(u) /\ pc' = pc
      /\ LevelsRan /\ HeadFirst /\ LinksAlive /\ TablesOK
  BY DEF UpdateIgnored, UpdateNew, UpdateRoute, StopInv, RouteInv
<1>2. pc = "build" /\ pc' = "build" /\ SameRun /\ next' = next /\ next = 1
  BY <1>1, UpdateSame DEF HeadFirst
<1>3. \A j \in DOMAIN routes' : Touched(routes'[j]) \/ \E h \in DOMAIN routes : routes'[j] = routes[h]
  <2>1. CASE UpdateIgnored(u)
    BY <2>1 DEF UpdateIgnored
  <2>2. CASE UpdateNew(u)
    BY <2>2, NewTouched
  <2>3. CASE UpdateRoute(u)
    BY <1>1, <2>3, UpdateTouched
  <2> QED
    BY <2>1, <2>2, <2>3
<1>4. LevelsRan'
  BY <1>1, <1>2, <1>3 DEF LevelsRan, Touched, SameRun
<1>5. HeadFirst'
  <2>1. TablesOK'
    BY RouteStep DEF RouteInv, Next, Run
  <2>2. \A i \in DOMAIN routes' : ~(i < 1)
    BY <2>1, LenProperties DEF TablesOK
  <2> QED
    BY <1>2, <2>2 DEF HeadFirst
<1>6. LinksAlive'
  <2> SUFFICES ASSUME OneLevel, NEW j \in DOMAIN routes', Current(routes[j])'
               PROVE  Alive(routes[j])'
    BY <1>2 DEF LinksAlive, OneLevel, SameRun
  <2>1. Alive(routes'[j])
    BY <1>1, <1>2, <1>3 DEF LinksAlive, Touched, Current, SameRun
  <2> QED
    BY <1>2, <2>1 DEF Alive, DeadLink, ResultOf, SameRun
<1> QED
  BY <1>2, <1>4, <1>5, <1>6 DEF StopInv, StopsExplained
\* The reasons depend on the run and its routes only.
UpdateReason == NewAfterDeletion \/ PreferenceMissing \/ HopsOverflow \/ LinkIsDead

LEMMA ReasonsStay ==
  ASSUME SameRun, routes' = routes, count' = count, UpdateReason
  PROVE  UpdateReason'
<1>1. \A k : Candidates(k)' = Candidates(k) /\ RoutesFor(k)' = RoutesFor(k)
  BY SameUpdates DEF RoutesFor
<1>2. CASE NewAfterDeletion
  BY <1>1, <1>2 DEF NewAfterDeletion, SearchOverruns, UpdateReason
<1>3. CASE PreferenceMissing
  BY <1>1, <1>3 DEF PreferenceMissing, UpdateReason
<1>4. CASE HopsOverflow
  BY <1>1, <1>4 DEF HopsOverflow, Beats, UpdateCost, UpdateReason
<1>5. CASE LinkIsDead
  BY <1>5 DEF LinkIsDead, DeadLink, ResultOf, SameRun, UpdateReason
<1> QED
  BY <1>2, <1>3, <1>4, <1>5 DEF UpdateReason

\* An update that stops the process has one of the reasons.
LEMMA CrashKeepsStop ==
  ASSUME RouteInv, StopInv, NEW u \in todo, UpdateCrash(u)
  PROVE  StopInv'
<1>1. /\ TablesOK /\ Found /\ RunOK /\ AllLinksOK /\ LevelsRan /\ LinksAlive
      /\ UpdateNext(u) /\ UpdateFaults(u) /\ pc' = "abort" /\ UNCHANGED <<routes, count, rib>>
  BY DEF RouteInv, StopInv, UpdateCrash
<1>2. pc = "build" /\ SameRun /\ u \in Updates /\ ~Ignored(u)
  BY <1>1, UpdateSame DEF RunOK, UpdateFaults
<1>3. UpdateOK(u) /\ u.pfx.key \in Key
  BY <1>1, <1>2, UpdateFacts DEF UpdateOK
<1>4. u \in Candidates(u.pfx.key)
  BY <1>2, <1>3, RouteConstants DEF Candidates, Ignored, UpdateOK
<1>5. LevelsRan' /\ HeadFirst' /\ LinksAlive'
  BY <1>1, <1>2 DEF LevelsRan, HeadFirst, LinksAlive, SameRun
<1>6. ASSUME Pref(u.pfx) = NoPreference
      PROVE  UpdateReason
  BY <1>3, <1>4, <1>6 DEF PreferenceMissing, UpdateReason
<1>7. ASSUME RoutesFor(u.pfx.key) = {}, SearchOverruns
      PROVE  UpdateReason
  BY <1>3, <1>4, <1>7 DEF NewAfterDeletion, UpdateReason
<1>8. ASSUME Pref(u.pfx) # NoPreference,
             \E i \in RoutesFor(u.pfx.key) : Cardinality(Updated(routes[i], u).hops) > MaxNh
      PROVE  UpdateReason
  <2>1. PICK i \in RoutesFor(u.pfx.key) : Cardinality(Updated(routes[i], u).hops) > MaxNh
    BY <1>8
  <2>2. PICK r : r = routes[i]
    OBVIOUS
  <2>3. PICK done : done = Done(u.pfx.key)
    OBVIOUS
  <2>4. /\ i \in DOMAIN routes /\ r.key = u.pfx.key /\ r \in Route
        /\ Cardinality(r.hops) <= MaxNh /\ Usable(u) /\ LinksOK(r)
        /\ Right(r, done) /\ UpdatesFor(done, u.pfx.key)
    <3>1. i \in DOMAIN routes /\ r.key = u.pfx.key
      BY <2>2 DEF RoutesFor
    <3>2. Right(r, done)
      BY <1>1, <1>2, <2>2, <2>3, <3>1, RoutesAreRight
    <3>3. UpdatesFor(done, u.pfx.key)
      BY <1>1, <2>3, DoneAreUpdates
    <3> QED
      BY <1>1, <1>3, <1>8, <2>2, <3>1, <3>2, <3>3 DEF TablesOK, Right, Usable
  <2>5. ~(Cardinality(r.hops) > MaxNh) /\ ~(Cardinality(u.hops) > MaxNh)
    <3>1. r.hops \in SUBSET Hop /\ u.hops \in SUBSET Hop
      BY <1>3, <2>4 DEF Route, UpdateOK
    <3>2. Cardinality(r.hops) \in Nat /\ Cardinality(u.hops) \in Nat /\ MaxNh \in Nat
      BY <3>1, FiniteHops, RouteConstants, FS_Subset, FS_CardinalityType
    <3> QED
      BY <1>3, <2>4, <3>2 DEF UpdateOK
  <2>6. ~Overwrites(r, u)
    <3> SUFFICES ASSUME Overwrites(r, u)  PROVE FALSE
      OBVIOUS
    <3>1. PICK o : o = Overwritten(r, u)
      OBVIOUS
    <3>2. o.hops = u.hops /\ Updated(r, u) = o
      BY <1>1, <1>3, <2>4, <3>1, OverwriteFacts DEF Takes, Updated
    <3> QED
      BY <2>1, <2>2, <2>5, <3>2
  <2>7. Equal(r, u)
    BY <2>1, <2>2, <2>5, <2>6 DEF Updated
  <2>8. Updated(r, u).hops = r.hops \cup u.hops
    BY <2>4, <2>6, <2>7 DEF Updated, Merged, Route
  <2>9. r.level = lvl /\ Current(r)
    BY <1>1, <2>4, <2>6, <2>7, LevelsDiffer DEF Equal, Overwrites, Comparable
  <2>10. Stands(r, done)
    BY <2>4, <2>9 DEF Right, Built
  <2> DEFINE some == {v \in done : Equal(r, v)} \cup {u}
  <2>11. some \in SUBSET Candidates(u.pfx.key)
    BY <1>4, <2>3 DEF Done
  <2>12. UNION {v.hops : v \in some} = r.hops \cup u.hops
    BY <2>10 DEF Stands
  <2>13. \A v, w \in some : ~Beats(v, w)
    <3>1. \A v \in some : Equal(r, v) /\ UpdateOK(v)
      BY <1>3, <2>4, <2>7 DEF UpdatesFor
    <3>2. \A v \in some : Pref(v.pfx) = Pref(u.pfx) /\ UpdateCost(v) = UpdateCost(u)
      BY <2>7, <3>1 DEF Equal
    <3>3. Pref(u.pfx) \in Nat /\ UpdateCost(u) \in Nat
      BY <1>3 DEF UpdateOK
    <3> HIDE DEF some
    <3> QED
      BY <3>2, <3>3 DEF Beats
  <2>14. Cardinality(UNION {v.hops : v \in some}) > MaxNh
    BY <2>1, <2>2, <2>8, <2>12
  <2> HIDE DEF some
  <2> QED
    BY <1>3, <2>11, <2>13, <2>14 DEF HopsOverflow, UpdateReason
<1>9. ASSUME u.linked,
             \E i \in RoutesFor(u.pfx.key) : LinkMayFault(Updated(routes[i], u).like, u)
      PROVE  UpdateReason
  <2>1. PICK i \in RoutesFor(u.pfx.key) : LinkMayFault(Updated(routes[i], u).like, u)
    BY <1>9
  <2>2. PICK r : r = routes[i]
    OBVIOUS
  <2>3. i \in DOMAIN routes /\ r.key = u.pfx.key /\ r \in Route
    BY <1>1, <2>2, LenProperties DEF RoutesFor, TablesOK
  <2>4. LinksOf(Updated(r, u), r)
    BY <1>1, <1>3, <2>3, UpdatedLinks
  <2>5. PICK j \in DOMAIN Updated(r, u).like : DeadLink(Updated(r, u).like[j])
    BY <2>1, <2>2 DEF LinkMayFault, LinkFaults, DeadLink
  <2>6. Updated(r, u).like = r.like /\ Updated(r, u).like # <<>>
    BY <2>4, <2>5, EmptySeq DEF LinksOf
  <2>7. j \in DOMAIN r.like /\ DeadLink(r.like[j])
    BY <2>5, <2>6
  <2>8. ~OneLevel
    <3> SUFFICES ASSUME OneLevel  PROVE FALSE
      OBVIOUS
    <3>1. version[r.level] > 0 /\ version[lvl] > 0
      BY <1>1, <1>2, <2>2, <2>3 DEF LevelsRan
    <3>2. r.level \in Level /\ lvl \in Level
      BY <1>1, <2>3 DEF TablesOK, Route
    <3>3. PICK l \in Level : version[l] = 0
      BY DEF OneLevel
    <3>4. r.level = lvl
      BY <3>1, <3>2, <3>3 DEF Level
    <3>5. Current(r)
      BY <2>4, <2>6, <3>4 DEF LinksOf
    <3> QED
      BY <1>1, <1>2, <2>2, <2>3, <2>7, <3>5 DEF LinksAlive, Alive, ToSet
  <2>9. \A l \in Level : version[l] > 0
    BY <1>1, <2>8 DEF OneLevel, TablesOK
  <2>10. r.like[j] \in ToSet(routes[i].like)
    BY <2>2, <2>7 DEF ToSet
  <2> QED
    BY <2>3, <2>7, <2>9, <2>10 DEF LinkIsDead, UpdateReason
<1>10. UpdateReason
  BY <1>1, <1>6, <1>7, <1>8, <1>9 DEF UpdateFaults
<1> QED
  BY <1>1, <1>2, <1>5, <1>10, ReasonsStay DEF StopInv, StopsExplained, UpdateReason

\* The walk over the list of routes.
LEMMA CleanKeepsStop ==
  ASSUME RouteInv, StopInv, DeleteStale \/ KeepRoute
  PROVE  StopInv'
<1>1. /\ CleanNext /\ TablesOK /\ LevelsRan /\ HeadFirst /\ LinksAlive
  BY DEF DeleteStale, KeepRoute, StopInv, RouteInv
<1>2. pc = "build" /\ pc' = "build" /\ SameRun /\ todo = {} /\ todo' = {}
  BY <1>1, CleanSame DEF CleanNext
<1>3. PICK n \in Nat : Len(routes) = n /\ DOMAIN routes = 1..n /\ routes \in Seq(Route)
  BY <1>1, LenProperties DEF TablesOK
<1>4. next \in 1..n
  BY <1>1, <1>3 DEF CleanNext, TablesOK
<1>5. \A r : Stale(r)' <=> Stale(r)
  BY <1>2 DEF Stale, Current, SameRun
<1>6. CASE DeleteStale
  <2>1. routes' = RemoveAt(routes, next) /\ next' = next /\ HasPredecessor
    BY <1>6 DEF DeleteStale
  <2>2. /\ routes' \in Seq(Route) /\ Len(routes') = n - 1
        /\ \A j \in 1..(n - 1) : routes'[j] = IF j < next THEN routes[j] ELSE routes[j + 1]
    BY <1>3, <1>4, <2>1, RemoveAtFacts
  <2>3. DOMAIN routes' = 1..(n - 1)
    BY <1>3, <2>2, LenProperties
  <2>4. \A j \in DOMAIN routes' : \E h \in DOMAIN routes : routes'[j] = routes[h]
    <3> SUFFICES ASSUME NEW j \in 1..(n - 1)  PROVE \E h \in 1..n : routes'[j] = routes[h]
      BY <1>3, <2>3
    <3>1. j \in 1..n /\ j + 1 \in 1..n
      OBVIOUS
    <3> QED
      BY <2>2, <3>1
  <2>5. next > 1
    BY <1>4, <2>1 DEF HasPredecessor
  <2>6. \A j \in DOMAIN routes' : j < next /\ Stale(routes'[j]) => Stale(routes'[1])
    <3> SUFFICES ASSUME NEW j \in 1..(n - 1), j < next, Stale(routes'[j])
                 PROVE  Stale(routes'[1])
      BY <2>3
    <3>1. routes'[j] = routes[j] /\ j \in 1..n
      BY <2>2
    <3>2. 1 \in 1..(n - 1) /\ routes'[1] = routes[1]
      BY <1>4, <2>2, <2>5
    <3> QED
      BY <1>1, <1>2, <1>3, <3>1, <3>2 DEF HeadFirst
  <2>7. HeadFirst'
    BY <1>2, <1>5, <2>1, <2>6 DEF HeadFirst
  <2>8. LevelsRan'
    BY <1>1, <1>2, <2>4 DEF LevelsRan, SameRun
  <2>9. LinksAlive'
    BY <1>1, <1>2, <2>4 DEF LinksAlive, OneLevel, Current, Alive, DeadLink, ResultOf, SameRun
  <2> QED
    BY <1>2, <2>7, <2>8, <2>9 DEF StopInv, StopsExplained
<1>7. CASE KeepRoute
  <2>1. routes' = routes /\ next' = next + 1 /\ (~Stale(routes[next]) \/ ~HasPredecessor)
    BY <1>7 DEF KeepRoute
  <2>2. \A j \in DOMAIN routes : j < next + 1 /\ Stale(routes[j]) => Stale(routes[1])
    <3> SUFFICES ASSUME NEW j \in 1..n, j < next + 1, Stale(routes[j])  PROVE Stale(routes[1])
      BY <1>3
    <3>1. CASE j < next
      BY <1>1, <1>2, <1>3, <3>1 DEF HeadFirst
    <3>2. CASE j = next
      <4>1. \A h \in 1..(next - 1) : Stale(routes[h])
        BY <2>1, <3>2 DEF HasPredecessor
      <4>2. next = 1 \/ 1 \in 1..(next - 1)
        BY <1>4
      <4> QED
        BY <3>2, <4>1, <4>2
    <3> QED
      BY <1>4, <3>1, <3>2
  <2>3. HeadFirst'
    BY <1>2, <1>5, <2>1, <2>2 DEF HeadFirst
  <2>4. LevelsRan'
    BY <1>1, <1>2, <2>1 DEF LevelsRan, SameRun
  <2>5. LinksAlive'
    BY <1>1, <1>2, <2>1 DEF LinksAlive, OneLevel, Current, Alive, DeadLink, ResultOf, SameRun
  <2> QED
    BY <1>2, <2>3, <2>4, <2>5 DEF StopInv, StopsExplained
<1> QED
  BY <1>6, <1>7

\* Flushing, installing and the end of a run: the assertion of the installation
\* can only fail at the newest route.
LEMMA InstallKeepsStop ==
  ASSUME RouteInv, StopInv,
         FlushRib \/ InstallRoute \/ InstallOther \/ InstallCrash \/ RunEnd
  PROVE  StopInv'
<1>1. /\ TablesOK /\ RibOK /\ LevelsRan /\ HeadFirst /\ LinksAlive
  BY DEF StopInv, RouteInv
<1>2. SameRun /\ routes' = routes /\ todo' = todo /\ pc' # "build"
  BY DEF FlushRib, InstallRoute, InstallOther, InstallCrash, InstallNext, RunEnd, SameRun,
         cfgVars, runVars
<1>3. PICK n \in Nat : Len(routes) = n /\ DOMAIN routes = 1..n
  BY <1>1, LenProperties DEF TablesOK
<1>4. \A r : Stale(r)' <=> Stale(r)
  BY <1>2 DEF Stale, Current, SameRun
<1>5. pc \in {"build", "install"}
  BY DEF FlushRib, CleanEnd, InstallRoute, InstallOther, InstallCrash, InstallNext, RunEnd
<1>6. LevelsRan'
  BY <1>1, <1>2, <1>5 DEF LevelsRan, SameRun
<1>7. \A i \in DOMAIN routes : Stale(routes[i]) => Stale(routes[1])
  <2>1. CASE FlushRib
    <3>1. pc = "build" /\ next > n /\ next \in Nat
      BY <1>1, <1>3, <2>1 DEF FlushRib, CleanEnd, TablesOK
    <3> QED
      BY <1>1, <1>3, <3>1 DEF HeadFirst
  <2>2. CASE ~FlushRib
    <3>1. pc = "install"
      BY <2>2 DEF InstallRoute, InstallOther, InstallCrash, InstallNext, RunEnd
    <3> QED
      BY <1>1, <3>1 DEF HeadFirst
  <2> QED
    BY <2>1, <2>2
<1>8. HeadFirst' /\ LinksAlive'
  BY <1>2, <1>4, <1>7 DEF HeadFirst, LinksAlive
<1>9. CASE InstallCrash
  <2>1. /\ pc = "install" /\ next \in 1..n /\ next' = next + 1 /\ Stale(routes[next])
    BY <1>1, <1>3, <1>9 DEF InstallCrash, InstallNext, TablesOK
  <2>2. Stale(routes[1]) /\ 1 \in 1..n
    BY <1>3, <1>7, <2>1
  <2>3. next = 1
    BY <1>1, <1>3, <2>1, <2>2 DEF RibOK, Stale
  <2> QED
    BY <1>2, <1>4, <1>6, <1>8, <2>1, <2>2, <2>3 DEF StopInv, StopsExplained, HeadIsStale
<1>10. CASE ~InstallCrash
  <2>1. pc' # "abort"
    BY <1>5, <1>10 DEF FlushRib, InstallRoute, InstallOther, InstallNext, RunEnd
  <2> QED
    BY <1>6, <1>8, <2>1 DEF StopInv, StopsExplained
<1> QED
  BY <1>9, <1>10

\* Commands that change what is advertised or configured.
LEMMA ConfigKeepsStop ==
  ASSUME RouteInv, StopInv,
         SetIgnoreAttached \/ \E p \in Prefix : Attach(p) \/ Deattach(p)
  PROVE  StopInv'
<1>1. /\ TablesOK /\ LevelsRan /\ pc = "idle" /\ pc' = "idle" /\ version' = version
  BY DEF StopInv, RouteInv, SetIgnoreAttached, Attach, Deattach, Command, runVars
<1>2. \A i \in DOMAIN routes' : i \in DOMAIN routes /\ routes'[i].level = routes[i].level
  <2>1. CASE \E p \in Prefix : Deattach(p)
    <3>1. \A i \in DOMAIN routes : routes[i] \in Route
      BY <1>1, LenProperties DEF TablesOK
    <3> QED
      BY <2>1, <3>1 DEF Deattach, Route
  <2>2. CASE ~\E p \in Prefix : Deattach(p)
    BY <2>2 DEF SetIgnoreAttached, Attach
  <2> QED
    BY <2>1, <2>2
<1> QED
  BY <1>1, <1>2 DEF StopInv, LevelsRan, HeadFirst, LinksAlive, StopsExplained

\* A run starts: no route of its level is current yet.
LEMMA StartKeepsStop ==
  ASSUME RouteInv, StopInv, NEW l \in Level, NEW results, StartRun(l, results)
  PROVE  StopInv'
<1>1. /\ TablesOK /\ LevelsRan /\ pc' = "build" /\ next' = 1 /\ lvl' = l /\ routes' = routes
      /\ version' = [version EXCEPT ![l] = @ + 1]
  BY DEF RouteInv, StopInv, StartRun
<1>2. version \in [Level -> 0..MaxCmds] /\ MaxCmds \in Nat
  BY <1>1, RouteConstants DEF TablesOK
<1>3. /\ version'[l] = version[l] + 1 /\ version'[l] > 0
      /\ \A k \in Level : k # l => version'[k] = version[k]
      /\ \A k \in Level : version[k] > 0 => version'[k] > 0
  BY <1>1, <1>2
<1>4. \A i \in DOMAIN routes : /\ i \in Nat \ {0} /\ routes[i] \in Route
                               /\ routes[i].level \in Level /\ routes[i].version \in Nat
                               /\ routes[i].version <= version[routes[i].level]
                               /\ version[routes[i].level] > 0
  <2>1. \A i \in DOMAIN routes : i \in Nat \ {0} /\ routes[i] \in Route
    BY <1>1, LenProperties DEF TablesOK
  <2> QED
    BY <1>1, <2>1 DEF TablesOK, Route, LevelsRan
<1>5. LevelsRan'
  BY <1>1, <1>3, <1>4 DEF LevelsRan
<1>6. HeadFirst'
  BY <1>1, <1>4 DEF HeadFirst
<1>7. LinksAlive'
  <2> SUFFICES ASSUME OneLevel', NEW i \in DOMAIN routes, routes[i].version = version'[l]
               PROVE  FALSE
    BY <1>1 DEF LinksAlive, Current
  <2>1. PICK k \in Level : version'[k] = 0
    BY DEF OneLevel
  <2>2. routes[i].level = l
    BY <1>3, <1>4, <2>1 DEF Level
  <2> QED
    BY <1>2, <1>3, <1>4, <2>2
<1> QED
  BY <1>1, <1>5, <1>6, <1>7 DEF StopInv, StopsExplained

LEMMA StopStep == RouteInv /\ StopInv /\ [Next]_vars => StopInv'
<1> SUFFICES ASSUME RouteInv, StopInv, [Next]_vars  PROVE StopInv'
  OBVIOUS
<1>1. CASE SetIgnoreAttached \/ \E p \in Prefix : Attach(p) \/ Deattach(p)
  BY <1>1, ConfigKeepsStop
<1>2. CASE \E l \in Level : FullRun(l) \/ PartialRun(l)
  BY <1>2, StartKeepsStop DEF FullRun, PartialRun
<1>3. CASE \E u \in todo : UpdateIgnored(u) \/ UpdateNew(u) \/ UpdateRoute(u)
  BY <1>3, UpdateKeepsStop
<1>4. CASE \E u \in todo : UpdateCrash(u)
  BY <1>4, CrashKeepsStop
<1>5. CASE DeleteStale \/ KeepRoute
  BY <1>5, CleanKeepsStop
<1>6. CASE FlushRib \/ InstallRoute \/ InstallOther \/ InstallCrash \/ RunEnd
  BY <1>6, InstallKeepsStop
<1>7. CASE UNCHANGED vars
  <2>1. UNCHANGED <<adv, ignore, multi, spf, version, routes, count, rib, pc, lvl, todo, next, cmds>>
    BY <1>7 DEF vars
  <2>2. LevelsRan /\ HeadFirst /\ LinksAlive /\ StopsExplained
    BY DEF StopInv
  <2>3. LevelsRan' /\ HeadFirst' /\ LinksAlive'
    BY <2>1, <2>2 DEF LevelsRan, HeadFirst, LinksAlive, Stale, Current, Alive, OneLevel,
                      DeadLink, ResultOf
  <2>4. UpdateReason => UpdateReason'
    BY <2>1, ReasonsStay DEF SameRun
  <2>5. StopsExplained'
    BY <2>1, <2>2, <2>4 DEF StopsExplained, HeadIsStale, Stale, Current,
                                      SameRun, UpdateReason
  <2> QED
    BY <2>3, <2>5 DEF StopInv
<1> QED
  BY <1>1, <1>2, <1>3, <1>4, <1>5, <1>6, <1>7 DEF Next, Operator, Run

\* A run stops the process for one of the named reasons only; of dead links, only
\* after both levels have run.
THEOREM StopsAreExplained == Spec => []StopsExplained
<1>1. Init => StopInv
  <2> SUFFICES ASSUME Init  PROVE StopInv
    OBVIOUS
  <2>1. routes = <<>> /\ pc = "idle" /\ \A i : i \notin DOMAIN routes
    BY EmptySeq DEF Init
  <2> QED
    BY <2>1 DEF StopInv, LevelsRan, HeadFirst, LinksAlive, StopsExplained
<1>2. StopInv => StopsExplained
  BY DEF StopInv
<1> QED
  BY RouteInvariant, StopStep, <1>1, <1>2, PTL DEF Spec
=============================================================================
