---------------------------- MODULE SpfRunProofs ----------------------------
(***************************************************************************)
(* Proofs about a run of spf_init and run_dijkastra on every network: the  *)
(* inductive invariant of its records and queue, then the distances, which *)
(* are those of ShortestFrom, and the records of them.                     *)
(*                                                                         *)
(* ShortestFrom iterates rounds of Bellman-Ford.  A property of all rounds *)
(* is proved from the first round for which it fails.                      *)
(***************************************************************************)
EXTENDS SpfRunInvariant, SequenceLemmas, FiniteSetTheorems, TLAPS

-----------------------------------------------------------------------------
(* Functions and sequences.                                                *)

LEMMA ExceptType ==
  ASSUME NEW S, NEW T, NEW f \in [S -> T], NEW x, NEW v \in T
  PROVE  [f EXCEPT ![x] = v] \in [S -> T]
OBVIOUS

LEMMA HeadTailType ==
  ASSUME NEW S, NEW s \in Seq(S), s # <<>>
  PROVE  /\ Head(s) \in S
         /\ Tail(s) \in Seq(S)
         /\ Len(Tail(s)) <= Len(s)
OBVIOUS

LEMMA AppendType ==
  ASSUME NEW S, NEW s \in Seq(S), NEW x \in S
  PROVE  /\ Append(s, x) \in Seq(S)
         /\ Len(Append(s, x)) = Len(s) + 1
OBVIOUS

-----------------------------------------------------------------------------
(* Next-hop arrays.                                                        *)

\* The number of listed hops fits the array.
LEMMA NhCountBound ==
  ASSUME NEW l
  PROVE  NhCount(l) \in 0..MaxNh
<1> DEFINE S == {i \in 1..MaxNh : Listed(l, i)}
<1>1. MaxNh \in Nat /\ MaxNh > 0
  BY NetworkAssumption
<1>2. IsFiniteSet(1..MaxNh) /\ Cardinality(1..MaxNh) = MaxNh
  BY <1>1, FS_Interval
<1>3. IsFiniteSet(S) /\ Cardinality(S) <= MaxNh
  BY <1>2, FS_Subset
<1>4. Cardinality(S) \in Nat
  BY <1>3, FS_CardinalityType
<1>5. QED
  BY <1>1, <1>3, <1>4 DEF NhCount

\* Empty lists and copies are next-hop arrays.
LEMMA CopyType ==
  /\ EmptyList \in NhList
  /\ NoHops \in [NhType -> NhList]
  /\ \A l \in NhList : CopyList(l) \in NhList
  /\ \A ls \in [NhType -> NhList] : CopyLists(ls) \in [NhType -> NhList]
BY DEF EmptyList, NoHops, NhList, CopyList, CopyLists

\* union_nh_list2 keeps the array within its bounds.
LEMMA UnionType ==
  ASSUME NEW src \in NhList, NEW dst \in NhList
  PROVE  UnionList(src, dst) \in NhList
<1> DEFINE used == NhCount(dst)
           After(W) == [i \in 1..MaxNh |->
                          IF i > used /\ i - used \in W THEN src[i - used] ELSE dst[i]]
<1>1. used \in 0..MaxNh /\ MaxNh \in Nat
  BY NhCountBound, NetworkAssumption
<1>2. ASSUME NEW W
      PROVE  After(W) \in NhList
  <2>1. ASSUME NEW i \in 1..MaxNh
        PROVE  After(W)[i] \in NextHop \cup {NoNh}
    <3>1. CASE i > used /\ i - used \in W
      <4>1. i - used \in 1..MaxNh
        BY <1>1, <3>1
      <4>2. QED
        BY <3>1, <4>1 DEF NhList
    <3>2. CASE ~(i > used /\ i - used \in W)
      BY <3>2 DEF NhList
    <3>3. QED
      BY <3>1, <3>2
  <2>2. QED
    BY <2>1 DEF NhList
<1>3. QED
  BY <1>2 DEF UnionList

\* Storing a direct next hop keeps the arrays of the node.
LEMMA HopType ==
  ASSUME NEW p \in Edge \X Edge
  PROVE  /\ Hop(p) \in NextHop
         /\ TypeOfEdge(p[1]) \in NhType
         /\ Dst[p[2]] \in Node
BY NetworkAssumption DEF Hop, NextHop, TypeOfEdge, NhType

-----------------------------------------------------------------------------
(* Type correctness.                                                       *)

LEMMA TypeInit ==
  Init => TypeOK /\ TodoInv
<1> SUFFICES ASSUME Init
             PROVE  TypeOK /\ TodoInv
  OBVIOUS
<1>1. root \in Node
  BY NetworkAssumption DEF Init
<1>2. /\ metric \in [Edge -> Nat] /\ status \in [Edge -> BOOLEAN]
      /\ overload \subseteq Node /\ cmds \in 0..MaxCmds
  BY NetworkAssumption DEF Init
<1>3. direct \in [Node -> [NhType -> NhList]] /\ nextHop \in [Node -> [NhType -> NhList]]
  BY CopyType DEF Init
<1>4. result \in [Node -> Seq(RecordType)] /\ res \in 0..Len(result[root])
  BY <1>1 DEF Init
<1>5. QED
  BY <1>1, <1>2, <1>3, <1>4, NetworkAssumption DEF Init, TypeOK, TodoInv

\* Commands between runs.
LEMMA TypeOperator ==
  TypeOK /\ TodoInv /\ Operator => TypeOK' /\ TodoInv'
<1> SUFFICES ASSUME TypeOK, TodoInv, Operator
             PROVE  TypeOK' /\ TodoInv'
  OBVIOUS
<1>1. ASSUME Command
      PROVE  todo = {} /\ cmds' \in 0..MaxCmds
  <2>1. MaxCmds \in Nat
    BY NetworkAssumption
  <2>2. QED
    BY <1>1, <2>1 DEF Command, TypeOK, TodoInv
<1>2. ASSUME Configure, metric' \in [Edge -> Nat], status' \in [Edge -> BOOLEAN],
             overload' \subseteq Node
      PROVE  TypeOK' /\ TodoInv'
  <2>1. todo = {} /\ cmds' \in 0..MaxCmds
    BY <1>1, <1>2 DEF Configure
  <2>2. QED
    BY <1>2, <2>1 DEF Configure, TypeOK, TodoInv, resVars, bfsVars
<1>3. CASE \E e \in Edge, m \in LinkMetrics : SetMetric(e, m)
  <2>1. PICK e \in Edge, m \in LinkMetrics : SetMetric(e, m)
    BY <1>3
  <2>2. metric' \in [Edge -> Nat]
    BY <2>1, NetworkAssumption DEF SetMetric, TypeOK
  <2>3. QED
    BY <1>2, <2>1, <2>2 DEF SetMetric, TypeOK
<1>4. CASE \E e \in Edge : SetStatus(e)
  BY <1>2, <1>4 DEF SetStatus, TypeOK
<1>5. CASE \E n \in Node : SetOverload(n)
  BY <1>2, <1>5 DEF SetOverload, TypeOK
<1>6. CASE \E n \in Node : SpfStart(n)
  <2>1. PICK n \in Node : SpfStart(n)
    BY <1>6
  <2>2. todo' = {} /\ cmds' \in 0..MaxCmds
    BY <1>1, <2>1 DEF SpfStart
  <2>3. /\ result' \in [Node -> Seq(RecordType)]
        /\ res' \in 0..Len(result'[root'])
        /\ selfRes' \in [Node -> [Node -> Nat]]
    <3> DEFINE recorded == {result[n][i].node : i \in DOMAIN result[n]}
    <3>1. /\ result \in [Node -> Seq(RecordType)]
          /\ selfRes \in [Node -> [Node -> Nat]]
      BY DEF TypeOK
    <3>2. /\ result' = [result EXCEPT ![n] = <<>>]
          /\ res' = 0 /\ root' = n
          /\ selfRes' = [m \in Node |-> IF m \in recorded
                                        THEN [selfRes[m] EXCEPT ![n] = 0]
                                        ELSE selfRes[m]]
      BY <2>1 DEF SpfStart, ClearResult
    <3> HIDE DEF recorded
    <3>3. result' \in [Node -> Seq(RecordType)]
      BY <3>1, <3>2, <<>> \in Seq(RecordType), ExceptType
    <3>4. res' \in 0..Len(result'[root'])
      BY <3>1, <3>2
    <3>5. selfRes' \in [Node -> [Node -> Nat]]
      BY <3>1, <3>2
    <3>6. QED
      BY <3>3, <3>4, <3>5
  <2>4. /\ dist' \in [Node -> 0..Inf]
        /\ direct' \in [Node -> [NhType -> NhList]]
        /\ nextHop' \in [Node -> [NhType -> NhList]]
    <3>1. /\ dist \in [Node -> 0..Inf]
          /\ direct \in [Node -> [NhType -> NhList]]
          /\ nextHop \in [Node -> [NhType -> NhList]]
      BY DEF TypeOK
    <3>2. 0 \in 0..Inf /\ NoHops \in [NhType -> NhList]
      BY CopyType, NetworkAssumption
    <3>3. QED
      BY <2>1, <3>1, <3>2, ExceptType DEF SpfStart
  <2>5. queue' \in Seq(Node) /\ Len(queue') <= QSize
    BY <2>1, NetworkAssumption DEF SpfStart
  <2>6. QED
    BY <2>1, <2>2, <2>3, <2>4, <2>5 DEF SpfStart, TypeOK, TodoInv, cfgVars
<1>7. QED
  BY <1>3, <1>4, <1>5, <1>6 DEF Operator

\* The steps of spf_init.
LEMMA TypeSpfInit ==
  TypeOK /\ TodoInv /\ SpfInit => TypeOK' /\ TodoInv'
<1> SUFFICES ASSUME TypeOK, TodoInv, SpfInit
             PROVE  TypeOK' /\ TodoInv'
  OBVIOUS
<1> USE DEF cfgVars, bfsVars, resVars
<1>1. CASE BfsDeque
  <2>1. Head(queue) \in Node /\ Tail(queue) \in Seq(Node) /\ Len(Tail(queue)) <= QSize
    <3>1. queue \in Seq(Node) /\ Len(queue) <= QSize /\ queue # <<>>
      BY <1>1 DEF BfsDeque, TypeOK
    <3>2. Head(queue) \in Node /\ Tail(queue) \in Seq(Node) /\ Len(Tail(queue)) <= Len(queue)
      BY <3>1, HeadTailType
    <3>3. QED
      BY <3>1, <3>2, NetworkAssumption
  <2>2. todo' \subseteq UpEdges(cur)'
    BY <1>1 DEF BfsDeque, UpEdges
  <2>3. QED
    BY <1>1, <2>1, <2>2 DEF BfsDeque, TypeOK, TodoInv
<1>2. CASE BfsEnd
  <2>1. pairs' \subseteq Edge \X Edge
    BY <1>2 DEF BfsEnd, PhysicalNbrs, UpEdges
  <2>2. todo' \subseteq UpEdges(cur)'
    BY <1>2 DEF BfsEnd
  <2>3. QED
    BY <1>2, <2>1, <2>2 DEF BfsEnd, TypeOK, TodoInv
<1>3. CASE DirectEnd
  <2>1. todo' = {}
    BY <1>3 DEF DirectEnd, TodoInv
  <2>2. QED
    BY <1>3, <2>1 DEF DirectEnd, TypeOK, TodoInv
<1>4. ASSUME NEW e \in todo, BfsSeen(e) \/ BfsReset(e)
      PROVE  TypeOK' /\ TodoInv'
  <2>1. e \in Edge /\ Dst[e] \in Node
    BY NetworkAssumption DEF TypeOK, UpEdges
  <2>2. todo' \subseteq UpEdges(cur)' /\ TodoInv'
    BY <1>4 DEF BfsSeen, BfsReset, BfsNext, TypeOK, TodoInv, UpEdges
  <2>3. CASE BfsSeen(e)
    BY <2>2, <2>3 DEF BfsSeen, BfsNext, TypeOK
  <2>4. CASE BfsReset(e)
    <3>1. queue' \in Seq(Node) /\ Len(queue') <= QSize
      <4>1. queue \in Seq(Node) /\ Len(queue) <= QSize
        BY DEF TypeOK
      <4>2. /\ Append(queue, Dst[e]) \in Seq(Node)
            /\ Len(Append(queue, Dst[e])) = Len(queue) + 1
        BY <2>1, <4>1, AppendType
      <4>3. \/ Len(queue) < QSize /\ queue' = Append(queue, Dst[e])
            \/ queue' = queue
        BY <2>4 DEF BfsReset
      <4>4. Len(queue) \in Nat /\ QSize \in Nat
        BY <4>1, NetworkAssumption
      <4>5. CASE Len(queue) < QSize /\ queue' = Append(queue, Dst[e])
        BY <4>2, <4>4, <4>5
      <4>6. QED
        BY <4>1, <4>3, <4>5
    <3>2. visited' \subseteq Node /\ dropped' \subseteq visited'
      BY <2>1, <2>4 DEF BfsReset, TypeOK
    <3>3. /\ dist' \in [Node -> 0..Inf]
          /\ direct' \in [Node -> [NhType -> NhList]]
          /\ nextHop' \in [Node -> [NhType -> NhList]]
      <4>1. /\ dist \in [Node -> 0..Inf]
            /\ direct \in [Node -> [NhType -> NhList]]
            /\ nextHop \in [Node -> [NhType -> NhList]]
        BY DEF TypeOK
      <4>2. Inf \in 0..Inf /\ NoHops \in [NhType -> NhList]
        BY CopyType, NetworkAssumption
      <4>3. QED
        BY <2>4, <4>1, <4>2, ExceptType DEF BfsReset
    <3>4. QED
      BY <2>2, <2>4, <3>1, <3>2, <3>3 DEF BfsReset, BfsNext, TypeOK
  <2>5. QED
    BY <1>4, <2>3, <2>4
<1>5. ASSUME NEW p \in pairs,
             DirectFirst(p) \/ DirectBetter(p) \/ DirectEqual(p) \/ DirectWorse(p)
      PROVE  TypeOK' /\ TodoInv'
  <2>1. p \in Edge \X Edge
    BY DEF TypeOK
  <2>2. DirectNext(p)
    BY <1>5 DEF DirectFirst, DirectBetter, DirectEqual, DirectWorse
  <2>3. ASSUME NEW i, StoreDirect(p, i)
        PROVE  direct' \in [Node -> [NhType -> NhList]]
    <3> DEFINE n == Dst[p[2]]
               t == TypeOfEdge(p[1])
    <3>1. n \in Node /\ t \in NhType /\ Hop(p) \in NextHop
      BY <2>1, HopType
    <3>2. [direct[n][t] EXCEPT ![i] = Hop(p)] \in NhList
      <4>1. direct[n][t] \in NhList
        BY <3>1 DEF TypeOK
      <4>2. QED
        BY <3>1, <4>1, ExceptType DEF NhList
    <3>3. QED
      BY <2>3, <3>1, <3>2 DEF StoreDirect, TypeOK
  <2>4. /\ direct' \in [Node -> [NhType -> NhList]]
        /\ nextHop' \in [Node -> [NhType -> NhList]]
    <3>1. CASE DirectFirst(p)
      BY <2>3, <3>1 DEF DirectFirst, TypeOK
    <3>2. CASE DirectBetter(p)
      BY <2>3, <3>2, CopyType DEF DirectBetter, TypeOK
    <3>3. CASE DirectEqual(p)
      BY <2>3, <3>3 DEF DirectEqual, TypeOK
    <3>4. CASE DirectWorse(p)
      BY <3>4 DEF DirectWorse, TypeOK
    <3>5. QED
      BY <1>5, <3>1, <3>2, <3>3, <3>4
  <2>5. todo' \subseteq UpEdges(cur)' /\ TodoInv'
    BY <2>2 DEF DirectNext, TypeOK, TodoInv, UpEdges
  <2>6. QED
    BY <2>2, <2>4, <2>5 DEF DirectNext, TypeOK
<1>6. QED
  BY <1>1, <1>2, <1>3, <1>4, <1>5 DEF SpfInit

\* The record a node is written to is one of the list or the next one; 0 (NULL)
\* can only come from a pseudonode.
LEMMA RecordForType ==
  ASSUME TypeOK, NEW n \in Node
  PROVE  /\ RecordFor(n) \in 0..(Len(result[root]) + 1)
         /\ n \notin Pseudo => RecordFor(n) # 0
<1>1. /\ Len(result[root]) \in Nat
      /\ DOMAIN result[root] = 1..Len(result[root])
      /\ res \in 0..Len(result[root])
  BY DEF TypeOK
<1>2. CASE n \in Pseudo
  BY <1>1, <1>2 DEF RecordFor
<1>3. CASE n \notin Pseudo /\ RecordsOf(n) # {}
  <2>1. RecordFor(n) \in RecordsOf(n)
    BY <1>3 DEF RecordFor
  <2>2. QED
    BY <1>1, <1>3, <2>1 DEF RecordsOf
<1>4. CASE n \notin Pseudo /\ RecordsOf(n) = {}
  BY <1>1, <1>4 DEF RecordFor
<1>5. QED
  BY <1>2, <1>3, <1>4

LEMMA RecordIsTyped ==
  ASSUME TypeOK, NEW n \in Node
  PROVE  Record(n) \in RecordType
<1>1. CopyLists(nextHop[n]) \in [NhType -> NhList]
  BY CopyType DEF TypeOK
<1>2. QED
  BY <1>1 DEF Record, RecordType, TypeOK

\* The next hops RelaxBetter and RelaxEqual install are next-hop arrays.
LEMMA RelaxHopsType ==
  ASSUME TypeOK, NEW e \in Edge
  PROVE  /\ InheritedHops(e) \in [NhType -> NhList]
         /\ MergedHops(e) \in [NhType -> NhList]
<1> DEFINE n == Dst[e]
           t == TypeOfEdge(e)
           both == [u \in NhType |-> UnionList(nextHop[cur][u], nextHop[n][u])]
<1>1. /\ n \in Node /\ t \in NhType
      /\ nextHop[cur] \in [NhType -> NhList]
      /\ nextHop[n] \in [NhType -> NhList]
      /\ direct[n] \in [NhType -> NhList]
  BY NetworkAssumption DEF TypeOK, TypeOfEdge, NhType
<1>2. InheritedHops(e) \in [NhType -> NhList]
  <2>1. CopyList(direct[n][t]) \in NhList /\ CopyLists(nextHop[cur]) \in [NhType -> NhList]
    BY <1>1, CopyType
  <2>2. [NoHops EXCEPT ![t] = CopyList(direct[n][t])] \in [NhType -> NhList]
    BY <2>1, CopyType, ExceptType
  <2>3. QED
    BY <1>1, <2>1, <2>2 DEF InheritedHops
<1>3. both \in [NhType -> NhList]
  BY <1>1, UnionType
<1>4. UnionList(direct[n][t], both[t]) \in NhList
  BY <1>1, <1>3, UnionType
<1>5. [both EXCEPT ![t] = UnionList(direct[n][t], both[t])] \in [NhType -> NhList]
  BY <1>3, <1>4, ExceptType
<1>6. MergedHops(e) \in [NhType -> NhList]
  BY <1>3, <1>5 DEF MergedHops
<1>7. QED
  BY <1>2, <1>6

\* An edge of the neighbour loop leads from cur to another node.
LEMMA TodoEdge ==
  ASSUME TypeOK, NEW e \in todo
  PROVE  /\ e \in Edge /\ Src[e] = cur /\ status[e]
         /\ Dst[e] \in Node /\ Dst[e] # cur
BY NetworkAssumption DEF TypeOK, UpEdges

\* The shorter distance is a distance; an overloaded router never offers one.
LEMMA BetterDist ==
  ASSUME TypeOK, NEW e \in todo, NewDist(e) < dist[Dst[e]]
  PROVE  /\ cur \notin overload
         /\ NewDist(e) = dist[cur] + metric[e]
         /\ NewDist(e) \in 0..Inf
<1>1. /\ Src[e] = cur /\ e \in Edge /\ Dst[e] \in Node
  BY TodoEdge
<1>2. /\ dist[cur] \in 0..Inf /\ dist[Dst[e]] \in 0..Inf /\ metric[e] \in Nat /\ Inf \in Nat
  BY <1>1, NetworkAssumption DEF TypeOK
<1>3. QED
  BY <1>1, <1>2 DEF NewDist, Weight

\* The steps of run_dijkastra.
LEMMA TypeDijkstra ==
  TypeOK /\ TodoInv /\ Dijkstra => TypeOK' /\ TodoInv'
<1> SUFFICES ASSUME TypeOK, TodoInv, Dijkstra
             PROVE  TypeOK' /\ TodoInv'
  OBVIOUS
<1> USE DEF cfgVars, bfsVars, resVars
<1>1. CASE Finish
  BY <1>1 DEF Finish, TypeOK, TodoInv
<1>2. ASSUME NEW n \in heap, TakeCandidate(n)
      PROVE  TypeOK' /\ TodoInv'
  <2> DEFINE k == RecordFor(n)
             old == result[root]
             len == IF k > Len(old) THEN k ELSE Len(old)
             new == [i \in 1..len |-> IF i = k THEN Record(n) ELSE old[i]]
  <2>1. n \in Node /\ root \in Node /\ old \in Seq(RecordType)
    BY DEF TypeOK
  <2>2. k \in 1..(Len(old) + 1)
    BY <1>2, <2>1, RecordForType DEF TakeCandidate
  <2>3. len \in Nat /\ k \in 1..len /\ \A i \in 1..len : i # k => i \in 1..Len(old)
    BY <2>1, <2>2
  <2>4. new \in Seq(RecordType) /\ Len(new) = len
    <3> HIDE DEF len, k, old
    <3>1. new \in [1..len -> RecordType]
      BY <2>1, <2>3, RecordIsTyped
    <3>2. QED
      BY <2>3, <3>1
  <2>5. result' = [result EXCEPT ![root] = new] /\ res' = k
    BY <1>2 DEF TakeCandidate
  <2> HIDE DEF new, len, k, old
  <2>6. /\ result' \in [Node -> Seq(RecordType)]
        /\ result'[root] = new
    BY <2>1, <2>4, <2>5, ExceptType DEF TypeOK
  <2>7. selfRes' \in [Node -> [Node -> Nat]]
    <3>1. selfRes \in [Node -> [Node -> Nat]] /\ k \in Nat
      BY <2>3 DEF TypeOK
    <3>2. selfRes' = [selfRes EXCEPT ![n][root] = k]
      BY <1>2 DEF TakeCandidate, k
    <3>3. QED
      BY <2>1, <3>1, <3>2
  <2>8. PopCandidate(n) /\ todo' = UpEdges(n) /\ pc' = pc
    BY <1>2 DEF TakeCandidate
  <2>9. todo' \subseteq UpEdges(cur)'
    BY <2>8 DEF PopCandidate, UpEdges
  <2>10. res' \in 0..Len(result'[root'])
    BY <2>3, <2>4, <2>5, <2>6, <2>8 DEF PopCandidate
  <2>11. QED
    BY <2>1, <2>6, <2>7, <2>8, <2>9, <2>10 DEF PopCandidate, TypeOK, TodoInv
<1>3. ASSUME NEW n \in heap, TakeCrash(n)
      PROVE  TypeOK' /\ TodoInv'
  <2>1. todo' = {}
    BY <1>3 DEF TakeCrash, PopCandidate
  <2>2. QED
    BY <1>3, <2>1 DEF TakeCrash, PopCandidate, TypeOK, TodoInv
<1>4. ASSUME NEW e \in todo, RelaxNext(e),
             dist' \in [Node -> 0..Inf], heap' \subseteq Node,
             nextHop' \in [Node -> [NhType -> NhList]]
      PROVE  TypeOK' /\ TodoInv'
  <2>1. todo' \subseteq UpEdges(cur)'
    BY <1>4 DEF RelaxNext, TypeOK, UpEdges
  <2>2. QED
    BY <1>4, <2>1 DEF RelaxNext, TypeOK, TodoInv
<1>5. ASSUME NEW e \in todo, RelaxSkip(e)
      PROVE  TypeOK' /\ TodoInv'
  BY <1>4, <1>5 DEF RelaxSkip, TypeOK
<1>6. ASSUME NEW e \in todo, RelaxBetter(e)
      PROVE  TypeOK' /\ TodoInv'
  <2>1. e \in Edge /\ Dst[e] \in Node
    BY TodoEdge
  <2>2. dist' = [dist EXCEPT ![Dst[e]] = NewDist(e)] /\ NewDist(e) \in 0..Inf
    BY <1>6, BetterDist DEF RelaxBetter
  <2>3. dist' \in [Node -> 0..Inf]
    BY <2>2, ExceptType DEF TypeOK
  <2>4. nextHop' \in [Node -> [NhType -> NhList]]
    BY <1>6, <2>1, RelaxHopsType, ExceptType DEF RelaxBetter, TypeOK
  <2>5. QED
    BY <1>4, <1>6, <2>1, <2>3, <2>4 DEF RelaxBetter, TypeOK
<1>7. ASSUME NEW e \in todo, RelaxEqual(e)
      PROVE  TypeOK' /\ TodoInv'
  <2>1. e \in Edge /\ Dst[e] \in Node
    BY TodoEdge
  <2>2. nextHop' \in [Node -> [NhType -> NhList]]
    BY <1>7, <2>1, RelaxHopsType, ExceptType DEF RelaxEqual, TypeOK
  <2>3. QED
    BY <1>4, <1>7, <2>1, <2>2 DEF RelaxEqual, TypeOK
<1>8. QED
  BY <1>1, <1>2, <1>3, <1>5, <1>6, <1>7 DEF Dijkstra

\* Every step keeps the type invariant.
LEMMA TypeStep ==
  TypeOK /\ TodoInv /\ [Next]_vars => TypeOK' /\ TodoInv'
<1> SUFFICES ASSUME TypeOK, TodoInv, [Next]_vars
             PROVE  TypeOK' /\ TodoInv'
  OBVIOUS
<1>1. CASE UNCHANGED vars
  <2>1. UpEdges(cur)' = UpEdges(cur)
    BY <1>1 DEF vars, cfgVars, UpEdges
  <2>2. QED
    BY <1>1, <2>1 DEF vars, cfgVars, bfsVars, resVars, TypeOK, TodoInv
<1>2. CASE Next
  BY <1>2, TypeOperator, TypeSpfInit, TypeDijkstra DEF Next
<1>3. QED
  BY <1>1, <1>2

\* On every network, in every behaviour of runs and commands, the variables keep
\* their types: distances stay within INFINITE_METRIC, the queue within its size,
\* next-hop arrays within MAX_NXT_HOPS, res within the result list.
THEOREM TypeCorrect == Spec => []TypeOK
<1>1. Init => TypeOK /\ TodoInv
  BY TypeInit
<1>2. TypeOK /\ TodoInv /\ [Next]_vars => TypeOK' /\ TodoInv'
  BY TypeStep
<1>3. QED
  BY <1>1, <1>2, PTL DEF Spec

-----------------------------------------------------------------------------
(* The breadth-first initialisation.                                       *)

\* A command either makes the run idle, keeping its state, or starts a new run.
LEMMA OperatorKinds ==
  Operator => \/ pc' = "idle" /\ UNCHANGED bfsVars
              \/ \E n \in Node : SpfStart(n)
BY DEF Operator, SetMetric, SetStatus, SetOverload, Configure

LEMMA QueueStep ==
  TypeOK /\ QueueInv /\ Next => QueueInv'
<1> SUFFICES ASSUME TypeOK, QueueInv, Next
             PROVE  QueueInv'
  OBVIOUS
<1>1. queue \in Seq(Node)
  BY DEF TypeOK
<1>2. ASSUME UNCHANGED bfsVars
      PROVE  QueueInv'
  BY <1>2 DEF QueueInv, bfsVars
<1>3. ASSUME NEW n \in Node, SpfStart(n)
      PROVE  QueueInv'
  BY <1>3 DEF SpfStart, QueueInv
<1>4. CASE BfsDeque
  <2>1. queue' = Tail(queue) /\ visited' = visited /\ queue # <<>>
    BY <1>4 DEF BfsDeque
  <2>2. \A i \in 1..Len(queue') : i + 1 \in 1..Len(queue) /\ queue'[i] = queue[i + 1]
    BY <1>1, <2>1
  <2>3. \A i, j \in 1..Len(queue') : i + 1 = j + 1 => i = j
    BY <1>1, <2>1
  <2>4. QED
    BY <2>1, <2>2, <2>3 DEF QueueInv
<1>5. ASSUME NEW e \in todo, BfsReset(e)
      PROVE  QueueInv'
  <2>1. visited' = visited \cup {Dst[e]} /\ Dst[e] \notin visited
    BY <1>5 DEF BfsReset
  <2>2. CASE queue' = queue
    BY <2>1, <2>2 DEF QueueInv
  <2>3. CASE queue' = Append(queue, Dst[e])
    <3>1. /\ Len(queue') = Len(queue) + 1 /\ queue'[Len(queue) + 1] = Dst[e]
          /\ \A i \in 1..Len(queue) : queue'[i] = queue[i]
      BY <1>1, <2>3
    <3>2. \A i \in 1..Len(queue') : i \in 1..Len(queue) \/ i = Len(queue) + 1
      BY <1>1, <3>1
    <3>3. QED
      BY <2>1, <3>1, <3>2 DEF QueueInv
  <2>4. QED
    BY <1>5, <2>2, <2>3 DEF BfsReset
<1>6. CASE SpfInit
  <2>1. ASSUME BfsEnd \/ DirectEnd \/ (\E e \in todo : BfsSeen(e))
               \/ (\E p \in pairs : DirectNext(p))
        PROVE  UNCHANGED bfsVars
    BY <2>1 DEF BfsEnd, DirectEnd, BfsSeen, DirectNext, bfsVars
  <2>2. QED
    BY <1>2, <1>4, <1>5, <1>6, <2>1
       DEF SpfInit, DirectFirst, DirectBetter, DirectEqual, DirectWorse
<1>7. CASE Dijkstra
  <2>1. UNCHANGED bfsVars
    BY <1>7 DEF Dijkstra, Finish, TakeCandidate, TakeCrash, PopCandidate, RelaxSkip,
                RelaxBetter, RelaxEqual, RelaxNext
  <2>2. QED
    BY <1>2, <2>1
<1>8. QED
  BY <1>2, <1>3, <1>6, <1>7, OperatorKinds DEF Next

LEMMA ClosureStep ==
  TypeOK /\ TodoInv /\ ClosureInv /\ Next => ClosureInv'
<1> SUFFICES ASSUME TypeOK, TodoInv, ClosureInv, Next
             PROVE  ClosureInv'
  OBVIOUS
<1>1. queue \in Seq(Node)
  BY DEF TypeOK
<1>2. ASSUME pc' \notin {"bfs", "direct", "dijkstra", "done"}
      PROVE  ClosureInv'
  BY <1>2 DEF ClosureInv
<1>3. ASSUME NEW n \in Node, SpfStart(n)
      PROVE  ClosureInv'
  BY <1>3 DEF SpfStart, ClosureInv, InQueue
\* After the search the closure stays as it is.
<1>4. ASSUME pc \in {"direct", "dijkstra"}, pc' \in {"direct", "dijkstra", "done"},
             UNCHANGED <<root, visited, dropped, status>>
      PROVE  ClosureInv'
  BY <1>4 DEF ClosureInv
<1>5. CASE BfsDeque
  <2>1. /\ pc = "bfs" /\ pc' = "bfs" /\ todo = {} /\ queue # <<>>
        /\ queue' = Tail(queue) /\ todo' = UpEdges(Head(queue))
        /\ UNCHANGED <<root, visited, dropped, status>>
    BY <1>5 DEF BfsDeque, cfgVars
  <2>2. ASSUME NEW e \in Edge, status[e], InQueue(Src[e])
        PROVE  InQueue(Src[e])' \/ e \in todo'
    <3>1. PICK i \in 1..Len(queue) : queue[i] = Src[e]
      BY <2>2 DEF InQueue
    <3>2. CASE i = 1
      BY <1>1, <2>1, <2>2, <3>1, <3>2 DEF UpEdges
    <3>3. CASE i # 1
      <4>1. i - 1 \in 1..Len(queue') /\ queue'[i - 1] = Src[e]
        BY <1>1, <2>1, <3>1, <3>3
      <4>2. QED
        BY <4>1 DEF InQueue
    <3>4. QED
      BY <3>2, <3>3
  <2>3. QED
    BY <2>1, <2>2 DEF ClosureInv
<1>6. ASSUME NEW e \in todo, BfsSeen(e)
      PROVE  ClosureInv'
  BY <1>6 DEF BfsSeen, BfsNext, cfgVars, bfsVars, ClosureInv, InQueue
<1>7. ASSUME NEW e \in todo, BfsReset(e)
      PROVE  ClosureInv'
  <2>1. /\ pc = "bfs" /\ pc' = "bfs" /\ todo' = todo \ {e}
        /\ visited' = visited \cup {Dst[e]}
        /\ UNCHANGED <<root, status>>
    BY <1>7 DEF BfsReset, BfsNext, cfgVars
  <2>2. \/ queue' = Append(queue, Dst[e]) /\ dropped' = dropped
        \/ queue' = queue /\ dropped' = dropped \cup {Dst[e]}
    BY <1>7 DEF BfsReset
  <2>3. ASSUME NEW n, InQueue(n)
        PROVE  InQueue(n)'
    BY <1>1, <2>2, <2>3 DEF InQueue
  <2>4. Dst[e] \in dropped' \/ InQueue(Dst[e])'
    <3>1. CASE queue' = Append(queue, Dst[e])
      <4>1. Len(queue) + 1 \in 1..Len(queue') /\ queue'[Len(queue) + 1] = Dst[e]
        BY <1>1, <3>1
      <4>2. QED
        BY <4>1 DEF InQueue
    <3>2. QED
      BY <2>2, <3>1
  <2>5. dropped \subseteq dropped'
    BY <2>2
  <2>6. ASSUME NEW f \in Edge, status'[f], Src[f] \in visited'
        PROVE  \/ Dst[f] \in visited'
               \/ Src[f] \in dropped'
               \/ InQueue(Src[f])' \/ f \in todo'
    <3>1. CASE Src[f] = Dst[e]
      BY <2>4, <3>1
    <3>2. CASE Src[f] \in visited
      BY <2>1, <2>3, <2>5, <2>6, <3>2 DEF ClosureInv
    <3>3. QED
      BY <2>1, <2>6, <3>1, <3>2
  <2>7. QED
    BY <2>1, <2>6 DEF ClosureInv
<1>8. CASE BfsEnd
  BY <1>8 DEF BfsEnd, cfgVars, bfsVars, ClosureInv, InQueue
<1>9. CASE DirectEnd
  BY <1>4, <1>9 DEF DirectEnd, cfgVars, bfsVars
<1>10. ASSUME NEW p \in pairs, DirectNext(p)
       PROVE  ClosureInv'
  BY <1>4, <1>10 DEF DirectNext, cfgVars, bfsVars
<1>11. CASE Dijkstra
  BY <1>2, <1>4, <1>11 DEF Dijkstra, Finish, TakeCandidate, TakeCrash, PopCandidate,
     RelaxSkip, RelaxBetter, RelaxEqual, RelaxNext, cfgVars, bfsVars
<1>12. QED
  BY <1>2, <1>3, <1>5, <1>6, <1>7, <1>8, <1>9, <1>10, <1>11, OperatorKinds
     DEF Next, SpfInit, DirectFirst, DirectBetter, DirectEqual, DirectWorse

LEMMA ResetStep ==
  TypeOK /\ ClosureInv /\ ResetInv /\ Next => ResetInv'
<1> SUFFICES ASSUME TypeOK, ClosureInv, ResetInv, Next
             PROVE  ResetInv'
  OBVIOUS
<1>1. ASSUME pc' \notin {"bfs", "direct"}
      PROVE  ResetInv'
  BY <1>1 DEF ResetInv
<1>2. ASSUME NEW n \in Node, SpfStart(n)
      PROVE  ResetInv'
  BY <1>2 DEF SpfStart, ClearResult, ResetInv, TypeOK
<1>3. ASSUME pc \in {"bfs", "direct"}, UNCHANGED <<root, visited, dist, heap, result>>
      PROVE  ResetInv'
  BY <1>3 DEF ResetInv
<1>4. ASSUME NEW e \in todo, BfsReset(e)
      PROVE  ResetInv'
  <2>1. /\ pc = "bfs" /\ root \in visited /\ Dst[e] \notin visited
        /\ visited' = visited \cup {Dst[e]}
        /\ dist' = [dist EXCEPT ![Dst[e]] = Inf]
        /\ UNCHANGED <<root, heap, result>>
    BY <1>4 DEF BfsReset, BfsNext, resVars, ClosureInv
  <2>2. dist \in [Node -> 0..Inf] /\ Dst[e] \in Node /\ visited \subseteq Node
    BY TodoEdge DEF TypeOK
  <2>3. QED
    BY <2>1, <2>2 DEF ResetInv
<1>5. CASE SpfInit
  BY <1>1, <1>3, <1>4, <1>5 DEF SpfInit, BfsDeque, BfsEnd, DirectEnd, BfsSeen, BfsNext,
     DirectFirst, DirectBetter, DirectEqual, DirectWorse, DirectNext, bfsVars, resVars
<1>6. CASE Dijkstra
  BY <1>1, <1>6 DEF Dijkstra, Finish, TakeCandidate, TakeCrash, PopCandidate,
     RelaxSkip, RelaxBetter, RelaxEqual, RelaxNext
<1>7. QED
  BY <1>1, <1>2, <1>5, <1>6, OperatorKinds DEF Next

-----------------------------------------------------------------------------
(* The candidate-tree loop.                                                *)

DijkstraInv == WitnessInv /\ RelaxedInv /\ FrontierInv /\ FirstInv /\ DoneInv

\* The candidate-tree loop is entered from spf_init and left when the tree is
\* empty; the network does not change in between.
LEMMA DijkstraKinds ==
  ASSUME Next, pc' \in {"dijkstra", "done"}
  PROVE  /\ UNCHANGED <<metric, status, overload, root, visited, dropped>>
         /\ \/ DirectEnd \/ Finish
            \/ \E n \in heap : TakeCandidate(n)
            \/ \E e \in todo : RelaxSkip(e) \/ RelaxBetter(e) \/ RelaxEqual(e)
<1>1. ASSUME NEW n \in Node
      PROVE  ~SpfStart(n)
  BY DEF SpfStart
<1>2. ~Operator
  BY <1>1, OperatorKinds
<1>3. CASE SpfInit
  <2>1. DirectEnd
    BY <1>3 DEF SpfInit, BfsDeque, BfsEnd, BfsSeen, BfsReset, BfsNext, DirectFirst,
       DirectBetter, DirectEqual, DirectWorse, DirectNext
  <2>2. QED
    BY <2>1 DEF DirectEnd, cfgVars, bfsVars
<1>4. CASE Dijkstra
  <2>1. UNCHANGED <<metric, status, overload, root, visited, dropped>>
    BY <1>4 DEF Dijkstra, Finish, TakeCandidate, TakeCrash, PopCandidate, RelaxSkip,
       RelaxBetter, RelaxEqual, RelaxNext, cfgVars, bfsVars
  <2>2. QED
    BY <1>4, <2>1 DEF Dijkstra, TakeCrash
<1>5. QED
  BY <1>2, <1>3, <1>4 DEF Next

LEMMA UsableStable ==
  ASSUME UNCHANGED status
  PROVE  \A e \in Edge : Usable(e)' <=> Usable(e)
<1>1. \A n : UpEdges(n)' = UpEdges(n)
  BY DEF UpEdges
<1>2. QED
  BY <1>1 DEF Usable, IsTwoWay

\* Costs are natural numbers.
LEMMA CostType ==
  ASSUME TypeOK, NEW e \in Edge
  PROVE  /\ Weight(e) \in Nat /\ NewDist(e) \in Nat
         /\ Src[e] \in Node /\ Dst[e] \in Node /\ Src[e] # Dst[e]
         /\ dist[Src[e]] \in 0..Inf /\ dist[Dst[e]] \in 0..Inf
         /\ NewDist(e) = dist[Src[e]] + Weight(e)
<1>1. /\ Src[e] \in Node /\ Dst[e] \in Node /\ Src[e] # Dst[e] /\ Inf \in Nat
  BY NetworkAssumption
<1>2. /\ dist[Src[e]] \in 0..Inf /\ dist[Dst[e]] \in 0..Inf /\ metric[e] \in Nat
  BY <1>1 DEF TypeOK
<1>3. QED
  BY <1>1, <1>2 DEF NewDist, Weight

\* The root is the first candidate; every other distance is infinite.
LEMMA DirectEndStep ==
  ASSUME TypeOK, TodoInv, ResetInv, DirectEnd
  PROVE  DijkstraInv'
<1>1. /\ pc = "direct" /\ pc' = "dijkstra" /\ heap' = {root}
      /\ UNCHANGED <<metric, status, overload, root, visited, todo, dist, result>>
  BY DEF DirectEnd, cfgVars, bfsVars, resVars
<1>2. /\ dist[root] = 0 /\ result[root] = <<>> /\ todo = {}
      /\ \A n \in visited \ {root} : dist[n] = Inf
  BY <1>1 DEF ResetInv, TodoInv
<1>3. WitnessInv'
  BY <1>1, <1>2, NetworkAssumption DEF WitnessInv
<1>4. RelaxedInv'
  <2>1. ASSUME NEW e \in Edge, Src[e] \in visited, Src[e] # root
        PROVE  dist[Dst[e]] <= NewDist(e)
    BY <1>2, <2>1, CostType
  <2>2. \A e \in Edge : NewDist(e)' = NewDist(e)
    BY <1>1 DEF NewDist, Weight
  <2>3. QED
    BY <1>1, <2>1, <2>2 DEF RelaxedInv
<1>5. FrontierInv' /\ FirstInv' /\ DoneInv'
  BY <1>1, <1>2 DEF FrontierInv, FirstInv, DoneInv
<1>6. QED
  BY <1>3, <1>4, <1>5 DEF DijkstraInv

LEMMA FinishStep ==
  ASSUME DijkstraInv, Finish
  PROVE  DijkstraInv'
<1>1. /\ pc = "dijkstra" /\ pc' = "done" /\ todo = {} /\ heap = {}
      /\ UNCHANGED <<metric, status, overload, root, visited, todo, heap, dist>>
  BY DEF Finish, cfgVars, bfsVars
<1>2. \A e \in Edge : (Usable(e)' <=> Usable(e)) /\ NewDist(e)' = NewDist(e)
  BY <1>1, UsableStable DEF NewDist, Weight
<1>3. QED
  BY <1>1, <1>2 DEF DijkstraInv, WitnessInv, RelaxedInv, FrontierInv, FirstInv, DoneInv

\* What taking n does to the list of records: n is in position RecordFor(n), and
\* the other positions are as they were.
LEMMA TakeRecords ==
  ASSUME TypeOK, NEW n \in heap, TakeCandidate(n)
  PROVE  /\ RecordFor(n) \in DOMAIN result'[root]
         /\ result'[root][RecordFor(n)] = Record(n)
         /\ \A i \in DOMAIN result'[root] : i # RecordFor(n) =>
              i \in DOMAIN result[root] /\ result'[root][i] = result[root][i]
         /\ DOMAIN result[root] \subseteq DOMAIN result'[root]
         /\ \A r \in Node \ {root} : result'[r] = result[r]
<1> DEFINE k == RecordFor(n)
           old == result[root]
           len == IF k > Len(old) THEN k ELSE Len(old)
           new == [i \in 1..len |-> IF i = k THEN Record(n) ELSE old[i]]
<1>1. /\ n \in Node /\ root \in Node /\ old \in Seq(RecordType)
      /\ result \in [Node -> Seq(RecordType)]
  BY DEF TypeOK
<1>2. k \in 1..(Len(old) + 1)
  BY <1>1, RecordForType DEF TakeCandidate
<1>3. DOMAIN old = 1..Len(old) /\ Len(old) \in Nat
  BY <1>1
<1>4. result' = [result EXCEPT ![root] = new]
  BY DEF TakeCandidate
<1> HIDE DEF k, old
<1>5. /\ len \in Nat /\ k \in 1..len /\ 1..Len(old) \subseteq 1..len
      /\ \A i \in 1..len : i # k => i \in 1..Len(old)
  BY <1>2, <1>3
<1> HIDE DEF len
<1>6. /\ DOMAIN new = 1..len /\ new[k] = Record(n)
      /\ \A i \in 1..len : i # k => new[i] = old[i]
  BY <1>5
<1> HIDE DEF new
<1>7. result'[root] = new /\ \A r \in Node \ {root} : result'[r] = result[r]
  BY <1>1, <1>4
<1> QED
  BY <1>3, <1>5, <1>6, <1>7 DEF k, old

\* The taken node is the nearest candidate, and no nearer than any record.
LEMMA TakeNearest ==
  ASSUME TypeOK, FrontierInv, NEW n \in heap, TakeCandidate(n)
  PROVE  /\ \A m \in heap : dist[n] <= dist[m]
         /\ \A i \in DOMAIN result[root] : dist[result[root][i].node] <= dist[n]
<1>1. /\ n \in Node /\ cur \in Node /\ heap \subseteq Node /\ Inf \in Nat
      /\ result[root] \in Seq(RecordType) /\ dist \in [Node -> 0..Inf]
  BY NetworkAssumption DEF TypeOK
<1>2. OnTop(n) /\ pc = "dijkstra"
  BY DEF TakeCandidate, PopCandidate
<1>3. ASSUME NEW m \in heap
      PROVE  dist[n] <= dist[m]
  <2>1. dist[n] < dist[m] \/ dist[n] = dist[m]
    BY <1>2 DEF OnTop
  <2>2. dist[n] \in 0..Inf /\ dist[m] \in 0..Inf
    BY <1>1
  <2>3. QED
    BY <1>1, <2>1, <2>2
<1>4. ASSUME NEW i \in DOMAIN result[root]
      PROVE  dist[result[root][i].node] <= dist[n]
  <2>1. result[root] # <<>> /\ result[root][i] \in RecordType
    BY <1>1
  <2>2. result[root][i].node \in Node
    BY <2>1 DEF RecordType
  <2>3. dist[result[root][i].node] <= dist[cur] /\ dist[cur] <= dist[n]
    BY <1>2, <2>1 DEF FrontierInv
  <2>4. /\ dist[result[root][i].node] \in 0..Inf /\ dist[cur] \in 0..Inf
        /\ dist[n] \in 0..Inf
    BY <1>1, <2>2
  <2>5. QED
    BY <1>1, <2>3, <2>4
<1>5. QED
  BY <1>3, <1>4

\* Taking the top of the tree: all its links become pending, and the distance
\* that separates records from candidates moves up to it.
LEMMA TakeStep ==
  ASSUME TypeOK, DijkstraInv, NEW n \in heap, TakeCandidate(n)
  PROVE  DijkstraInv'
<1>1. /\ pc = "dijkstra" /\ pc' = "dijkstra" /\ todo = {} /\ todo' = UpEdges(n)
      /\ heap' = heap \ {n} /\ cur' = n
      /\ UNCHANGED <<metric, status, overload, root, visited, dist>>
  BY DEF TakeCandidate, PopCandidate, cfgVars, bfsVars
<1>2. \A e \in Edge : (Usable(e)' <=> Usable(e)) /\ NewDist(e)' = NewDist(e)
  BY <1>1, UsableStable DEF NewDist, Weight
<1>3. WitnessInv'
  BY <1>1, <1>2 DEF DijkstraInv, WitnessInv
<1>4. RelaxedInv'
  <2>1. \A e \in Edge : Usable(e) /\ Src[e] = n => e \in todo'
    BY <1>1 DEF Usable, UpEdges
  <2>2. QED
    BY <1>1, <1>2, <2>1 DEF DijkstraInv, RelaxedInv
<1>5. /\ \A m \in heap : dist[n] <= dist[m]
      /\ \A i \in DOMAIN result[root] : dist[result[root][i].node] <= dist[n]
  BY TakeNearest DEF DijkstraInv
<1>6. FrontierInv'
  <2>1. \A m \in heap' : dist[n] <= dist[m]
    BY <1>1, <1>5
  <2>2. ASSUME NEW i \in DOMAIN result'[root]
        PROVE  dist[result'[root][i].node] <= dist[n]
    <3>1. CASE i = RecordFor(n)
      <4>0. result'[root][i] = Record(n)
        BY <3>1, TakeRecords
      <4>1. result'[root][i].node = n
        BY <4>0 DEF Record
      <4>2. dist[n] \in 0..Inf /\ Inf \in Nat
        BY NetworkAssumption DEF TypeOK
      <4>3. QED
        BY <4>1, <4>2
    <3>2. CASE i # RecordFor(n)
      BY <1>5, <3>2, TakeRecords
    <3>3. QED
      BY <3>1, <3>2
  <2>3. QED
    BY <1>1, <2>1, <2>2 DEF FrontierInv
<1>7. FirstInv' /\ DoneInv'
  <2>1. result'[root] # <<>>
    BY TakeRecords
  <2>2. QED
    BY <1>1, <2>1 DEF FirstInv, DoneInv
<1>8. QED
  BY <1>3, <1>4, <1>6, <1>7 DEF DijkstraInv

\* The neighbour loop: RelaxSkip and RelaxEqual keep the distances, and only
\* drop a pending link that is not usable or does not shorten a path.
LEMMA RelaxKeepStep ==
  ASSUME TypeOK, DijkstraInv, NEW e \in todo, RelaxSkip(e) \/ RelaxEqual(e)
  PROVE  DijkstraInv'
<1>1. /\ pc = "dijkstra" /\ pc' = "dijkstra" /\ todo # {} /\ todo' = todo \ {e}
      /\ UNCHANGED <<metric, status, overload, root, visited, dist, cur, result>>
      /\ heap' = heap \/ (heap' = heap \cup {Dst[e]} /\ NewDist(e) = dist[Dst[e]])
  BY DEF RelaxSkip, RelaxEqual, RelaxNext, cfgVars, bfsVars, resVars
<1>2. /\ e \in Edge /\ Src[e] = cur /\ status[e] /\ Dst[e] \in Node
  BY TodoEdge
<1>3. \A f \in Edge : (Usable(f)' <=> Usable(f)) /\ NewDist(f)' = NewDist(f)
  BY <1>1, UsableStable DEF NewDist, Weight
<1>4. WitnessInv'
  BY <1>1, <1>3 DEF DijkstraInv, WitnessInv
<1>5. ~Usable(e) \/ dist[Dst[e]] <= NewDist(e)
  <2>1. CASE RelaxSkip(e)
    BY <1>2, <2>1, CostType DEF RelaxSkip, Usable
  <2>2. CASE RelaxEqual(e)
    BY <1>2, <2>2, CostType DEF RelaxEqual
  <2>3. QED
    BY <2>1, <2>2
<1>6. RelaxedInv'
  BY <1>1, <1>3, <1>5 DEF DijkstraInv, RelaxedInv
<1>7. result[root] # <<>>
  BY <1>1 DEF DijkstraInv, FirstInv
<1>8. dist[cur] <= NewDist(e)
  BY <1>2, CostType
<1>9. FrontierInv'
  BY <1>1, <1>7, <1>8 DEF DijkstraInv, FrontierInv
<1>10. FirstInv' /\ DoneInv'
  BY <1>1, <1>7 DEF FirstInv, DoneInv
<1>11. QED
  BY <1>4, <1>6, <1>9, <1>10 DEF DijkstraInv

\* RelaxBetter lowers one distance, of a node without a record, to the cost over
\* the current node, and makes the node a candidate.
LEMMA RelaxBetterStep ==
  ASSUME TypeOK, DijkstraInv, NEW e \in todo, RelaxBetter(e)
  PROVE  DijkstraInv' /\ RecordsOf(Dst[e]) = {}
<1> DEFINE n == Dst[e]
<1>1. /\ pc = "dijkstra" /\ pc' = "dijkstra" /\ todo # {} /\ todo' = todo \ {e}
      /\ UNCHANGED <<metric, status, overload, root, visited, cur, result>>
      /\ heap' = heap \cup {n} /\ NewDist(e) < dist[n] /\ IsTwoWay(cur, n)
  BY DEF RelaxBetter, RelaxNext, cfgVars, bfsVars, resVars
<1>2. /\ e \in Edge /\ Src[e] = cur /\ status[e] /\ n \in Node /\ n # cur
      /\ cur \in Node /\ root \in Node /\ Inf \in Nat
      /\ heap \subseteq Node /\ visited \subseteq Node /\ dist \in [Node -> 0..Inf]
  BY TodoEdge, NetworkAssumption DEF TypeOK
<1>3. dist' = [dist EXCEPT ![n] = NewDist(e)] /\ NewDist(e) \in 0..Inf
  BY <1>1, BetterDist DEF RelaxBetter
<1>4. /\ dist'[n] = NewDist(e)
      /\ \A m \in Node : m # n => dist'[m] = dist[m]
      /\ \A m \in Node : dist'[m] <= dist[m] /\ dist[m] \in 0..Inf /\ dist'[m] \in 0..Inf
  BY <1>1, <1>2, <1>3
<1>5. ASSUME NEW f \in Edge
      PROVE  /\ Usable(f)' <=> Usable(f)
             /\ NewDist(f)' <= NewDist(f)
             /\ Src[f] # n => NewDist(f)' = NewDist(f)
             /\ NewDist(f) \in Nat /\ NewDist(f)' \in Nat
             /\ Src[f] \in Node /\ Dst[f] \in Node
  <2>1. Weight(f)' = Weight(f)
    BY <1>1 DEF Weight
  <2>2. NewDist(f)' = dist'[Src[f]] + Weight(f)
    BY <2>1 DEF NewDist
  <2>3. QED
    BY <1>1, <1>4, <2>2, CostType, UsableStable
<1>6. result[root] # <<>>
  BY <1>1 DEF DijkstraInv, FirstInv
<1>7. dist[cur] <= NewDist(e) /\ dist'[cur] = dist[cur]
  BY <1>2, <1>4, CostType
<1>8. RecordsOf(n) = {}
  <2>1. ASSUME NEW i \in DOMAIN result[root]
        PROVE  result[root][i].node # n
    <3>1. dist[result[root][i].node] <= dist[cur]
      BY <1>1, <1>6 DEF DijkstraInv, FrontierInv
    <3>2. QED
      BY <1>1, <1>2, <1>4, <1>7, <3>1, CostType
  <2>2. QED
    BY <2>1 DEF RecordsOf
<1>9. WitnessInv'
  <2>1. dist[root] = 0 /\ root # n
    BY <1>1, <1>2, <1>4, CostType DEF DijkstraInv, WitnessInv
  <2>2. Usable(e)' /\ dist'[n] >= NewDist(e)'
    BY <1>1, <1>2, <1>4, <1>5 DEF Usable
  <2>3. ASSUME NEW m \in visited \ {root}, dist'[m] < Inf, m # n
        PROVE  \E f \in Edge : Usable(f)' /\ Dst[f] = m /\ dist'[m] >= NewDist(f)'
    <3>1. m \in Node /\ dist'[m] = dist[m]
      BY <1>2, <1>4, <2>3
    <3>2. PICK f \in Edge : Usable(f) /\ Dst[f] = m /\ dist[m] >= NewDist(f)
      BY <1>1, <2>3, <3>1 DEF DijkstraInv, WitnessInv
    <3>3. dist'[m] >= NewDist(f)'
      BY <1>4, <1>5, <3>1, <3>2
    <3>4. QED
      BY <1>5, <3>2, <3>3
  <2>4. QED
    BY <1>1, <1>2, <1>4, <2>1, <2>2, <2>3 DEF WitnessInv
<1>10. RelaxedInv'
  <2>1. ASSUME NEW f \in Edge, Usable(f)', Src[f] \in visited', Src[f] \notin heap', f \notin todo'
        PROVE  dist'[Dst[f]] <= NewDist(f)'
    <3>1. Src[f] # n /\ Src[f] \notin heap /\ NewDist(f)' = NewDist(f)
      BY <1>1, <1>5, <2>1
    <3>2. CASE f = e
      BY <1>4, <3>1, <3>2, <1>5
    <3>3. CASE f # e
      <4>1. dist[Dst[f]] <= NewDist(f)
        BY <1>1, <1>5, <2>1, <3>1, <3>3 DEF DijkstraInv, RelaxedInv
      <4>2. QED
        BY <1>4, <1>5, <3>1, <4>1
    <3>4. QED
      BY <3>2, <3>3
  <2>2. QED
    BY <2>1 DEF RelaxedInv
<1>11. FrontierInv'
  <2>1. \A m \in heap' : dist'[cur] <= dist'[m]
    BY <1>1, <1>2, <1>4, <1>6, <1>7 DEF DijkstraInv, FrontierInv
  <2>2. \A i \in DOMAIN result[root] : dist'[result[root][i].node] <= dist'[cur]
    <3>1. ASSUME NEW i \in DOMAIN result[root]
          PROVE  dist'[result[root][i].node] <= dist'[cur]
      <4>1. result[root][i].node \in Node /\ result[root][i].node # n
        <5>1. result[root] \in Seq(RecordType)
          BY <1>2 DEF TypeOK
        <5>2. result[root][i] \in RecordType
          BY <5>1
        <5>3. QED
          BY <1>8, <5>2 DEF RecordsOf, RecordType
      <4>2. QED
        BY <1>1, <1>4, <1>6, <1>7, <4>1 DEF DijkstraInv, FrontierInv
    <3>2. QED
      BY <3>1
  <2>3. QED
    BY <1>1, <2>1, <2>2 DEF FrontierInv
<1>12. FirstInv' /\ DoneInv'
  BY <1>1, <1>6 DEF FirstInv, DoneInv
<1>13. QED
  BY <1>8, <1>9, <1>10, <1>11, <1>12 DEF DijkstraInv

LEMMA DijkstraStep ==
  TypeOK /\ TodoInv /\ ResetInv /\ DijkstraInv /\ Next => DijkstraInv'
<1> SUFFICES ASSUME TypeOK, TodoInv, ResetInv, DijkstraInv, Next
             PROVE  DijkstraInv'
  OBVIOUS
<1>1. CASE pc' \notin {"dijkstra", "done"}
  BY <1>1 DEF DijkstraInv, WitnessInv, RelaxedInv, FrontierInv, FirstInv, DoneInv
<1>2. CASE pc' \in {"dijkstra", "done"}
  BY <1>2, DijkstraKinds, DirectEndStep, FinishStep, TakeStep, RelaxKeepStep,
     RelaxBetterStep
<1>3. QED
  BY <1>1, <1>2

-----------------------------------------------------------------------------
(* Reached nodes, their ways and their records.                            *)

\* A node the neighbour loop looks at was reset, unless the queue refused one.
LEMMA TodoVisited ==
  ASSUME TypeOK, TodoInv, ClosureInv, FirstInv, WithinInv, dropped = {},
         pc = "dijkstra", NEW e \in todo
  PROVE  cur \in visited /\ Dst[e] \in visited /\ result[root] # <<>>
<1>1. result[root] # <<>>
  BY DEF FirstInv
<1>2. e \in Edge /\ Src[e] = cur /\ status[e]
  BY TodoEdge
<1>3. cur \in visited
  BY <1>1 DEF WithinInv
<1>4. QED
  BY <1>1, <1>2, <1>3 DEF ClosureInv

LEMMA WithinStep ==
  ASSUME TypeOK, TodoInv, ClosureInv, ResetInv, FirstInv, WithinInv, Next
  PROVE  WithinInv'
<1> SUFFICES ASSUME pc' \in {"dijkstra", "done"}, dropped' = {}
             PROVE  /\ heap' \subseteq visited'
                    /\ result'[root'] # <<>> => cur' \in visited'
                    /\ \A i \in DOMAIN result'[root'] : result'[root'][i].node \in visited'
  BY DEF WithinInv
<1>1. UNCHANGED <<root, visited, dropped>>
  BY DijkstraKinds
<1>2. CASE DirectEnd
  BY <1>1, <1>2 DEF DirectEnd, resVars, ResetInv, ClosureInv
<1>3. CASE Finish
  BY <1>1, <1>3 DEF Finish, resVars, WithinInv
<1>4. ASSUME NEW n \in heap, TakeCandidate(n)
      PROVE  /\ heap' \subseteq visited'
             /\ result'[root'] # <<>> => cur' \in visited'
             /\ \A i \in DOMAIN result'[root'] : result'[root'][i].node \in visited'
  <2>1. pc = "dijkstra" /\ heap' = heap \ {n} /\ cur' = n
    BY <1>4 DEF TakeCandidate, PopCandidate
  <2>2. heap \subseteq visited /\ \A i \in DOMAIN result[root] : result[root][i].node \in visited
    BY <1>1, <2>1 DEF WithinInv
  <2>3. ASSUME NEW i \in DOMAIN result'[root]
        PROVE  result'[root][i].node \in visited
    <3>1. CASE i = RecordFor(n)
      <4>1. result'[root][i] = Record(n)
        BY <1>4, <3>1, TakeRecords
      <4>2. QED
        BY <2>2, <4>1 DEF Record
    <3>2. CASE i # RecordFor(n)
      BY <1>4, <2>2, <3>2, TakeRecords
    <3>3. QED
      BY <3>1, <3>2
  <2>4. QED
    BY <1>1, <2>1, <2>2, <2>3
<1>5. ASSUME NEW e \in todo, RelaxSkip(e) \/ RelaxBetter(e) \/ RelaxEqual(e)
      PROVE  /\ heap' \subseteq visited'
             /\ result'[root'] # <<>> => cur' \in visited'
             /\ \A i \in DOMAIN result'[root'] : result'[root'][i].node \in visited'
  <2>1. /\ pc = "dijkstra" /\ UNCHANGED <<cur, result>>
        /\ heap' = heap \/ heap' = heap \cup {Dst[e]}
    BY <1>5 DEF RelaxSkip, RelaxBetter, RelaxEqual, RelaxNext, resVars
  <2>2. cur \in visited /\ Dst[e] \in visited
    BY <1>1, <2>1, TodoVisited
  <2>3. QED
    BY <1>1, <2>1, <2>2 DEF WithinInv
<1>6. QED
  BY <1>2, <1>3, <1>4, <1>5, DijkstraKinds

\* RelaxBetter keeps every leading link, except those into the node it moves, and
\* makes the link it went over one.
LEMMA BetterLeads ==
  ASSUME TypeOK, DijkstraInv, NEW e \in todo, RelaxBetter(e)
  PROVE  /\ Leads(e)' /\ NewDist(e) < dist[Dst[e]] /\ dist[cur] <= NewDist(e)
         /\ dist'[Dst[e]] = NewDist(e)
         /\ \A n \in Node : n # Dst[e] => dist'[n] = dist[n]
         /\ \A f \in Edge : Leads(f) => Src[f] # Dst[e]
         /\ \A f \in Edge : Leads(f) /\ Dst[f] # Dst[e] => Leads(f)'
<1> DEFINE n == Dst[e]
<1>1. /\ UNCHANGED <<metric, status, overload, cur>>
      /\ NewDist(e) < dist[n] /\ IsTwoWay(cur, n)
  BY DEF RelaxBetter, RelaxNext, cfgVars
<1>2. /\ e \in Edge /\ Src[e] = cur /\ status[e] /\ n \in Node /\ n # cur
      /\ cur \in Node /\ Inf \in Nat /\ dist \in [Node -> 0..Inf]
  BY TodoEdge, NetworkAssumption DEF TypeOK
<1>3. dist' = [dist EXCEPT ![n] = NewDist(e)] /\ NewDist(e) \in 0..Inf
  BY <1>1, BetterDist DEF RelaxBetter
<1>4. dist'[n] = NewDist(e) /\ \A m \in Node : m # n => dist'[m] = dist[m]
  BY <1>2, <1>3
<1>5. \A f \in Edge : Usable(f)' <=> Usable(f)
  BY <1>1, UsableStable
<1>6. \A f \in Edge : NewDist(f)' = dist'[Src[f]] + Weight(f)
  BY <1>1 DEF NewDist, Weight
<1>7. dist[cur] <= NewDist(e) /\ dist'[cur] = dist[cur]
  BY <1>2, <1>4, CostType
<1>8. Leads(e)'
  <2>1. NewDist(e)' = NewDist(e)
    BY <1>2, <1>6, <1>7 DEF NewDist
  <2>2. Usable(e)
    BY <1>1, <1>2 DEF Usable
  <2>3. dist'[Src[e]] <= dist'[cur] /\ NewDist(e)' <= dist'[n]
    BY <1>2, <1>3, <1>4, <1>7, <2>1
  <2>4. QED
    BY <1>1, <1>2, <1>5, <2>2, <2>3 DEF Leads
<1>9. ASSUME NEW f \in Edge, Leads(f)
      PROVE  Src[f] # n
  <2>1. dist[Src[f]] <= dist[cur]
    BY <1>9 DEF Leads
  <2>2. ~(dist[n] <= dist[cur])
    BY <1>1, <1>2, <1>3, <1>7
  <2>3. QED
    BY <2>1, <2>2
<1>10. ASSUME NEW f \in Edge, Leads(f), Dst[f] # n
       PROVE  Leads(f)'
  <2>1. Src[f] # n /\ Src[f] \in Node /\ Dst[f] \in Node
    BY <1>9, <1>10, NetworkAssumption
  <2>2. dist'[Src[f]] = dist[Src[f]] /\ dist'[Dst[f]] = dist[Dst[f]]
    BY <1>4, <1>10, <2>1
  <2>3. NewDist(f)' = NewDist(f)
    BY <1>6, <2>2 DEF NewDist
  <2>4. QED
    BY <1>1, <1>5, <1>7, <1>10, <2>2, <2>3 DEF Leads
<1>11. QED
  BY <1>1, <1>4, <1>7, <1>8, <1>9, <1>10

\* The node RelaxBetter moves is near from now on, and the current one was.
LEMMA BetterNear ==
  ASSUME TypeOK, DijkstraInv, NEW e \in todo, RelaxBetter(e),
         cur \in visited, Dst[e] \in visited
  PROVE  Near' = Near \cup {Dst[e]} /\ cur \in Near
<1>1. /\ visited' = visited /\ visited \subseteq Node /\ cur \in Node
      /\ Inf \in Nat /\ Dst[e] \in Node
      /\ dist[cur] \in 0..Inf /\ dist[Dst[e]] \in 0..Inf
  BY TodoEdge, NetworkAssumption DEF RelaxBetter, RelaxNext, bfsVars, TypeOK
<1>2. /\ NewDist(e) < dist[Dst[e]] /\ dist[cur] <= NewDist(e)
      /\ dist'[Dst[e]] = NewDist(e)
      /\ \A n \in Node : n # Dst[e] => dist'[n] = dist[n]
  BY BetterLeads
<1>3. NewDist(e) \in Nat
  BY TodoEdge, CostType
<1>4. dist'[Dst[e]] < Inf /\ dist[cur] < Inf
  BY <1>1, <1>2, <1>3
<1>5. QED
  BY <1>1, <1>2, <1>4 DEF Near

LEMMA CutStep ==
  ASSUME TypeOK, TodoInv, ClosureInv, ResetInv, WithinInv, DijkstraInv, CutInv, Next
  PROVE  CutInv'
<1> SUFFICES ASSUME pc' \in {"dijkstra", "done"}, dropped' = {},
                    NEW A \in SUBSET Near', root' \in A, A # Near'
             PROVE  \E e \in Edge : Leads(e)' /\ Src[e] \in A /\ Dst[e] \in Near' \ A
  BY DEF CutInv
<1>1. UNCHANGED <<metric, status, overload, root, visited, dropped>>
  BY DijkstraKinds
<1>2. \A e \in Edge : Usable(e)' <=> Usable(e)
  BY <1>1, UsableStable
<1>3. ASSUME NEW B \in SUBSET Near, root \in B, B # Near, pc = "dijkstra"
      PROVE  \E e \in Edge : Leads(e) /\ Src[e] \in B /\ Dst[e] \in Near \ B
  BY <1>1, <1>3 DEF CutInv
\* Steps that keep the distances, and do not lower that of the current node.
<1>4. ASSUME pc = "dijkstra", dist' = dist, \A m \in Node : dist[m] <= dist[cur] => dist[m] <= dist[cur']
      PROVE  \E e \in Edge : Leads(e)' /\ Src[e] \in A /\ Dst[e] \in Near' \ A
  <2>1. Near' = Near
    BY <1>1, <1>4 DEF Near
  <2>2. PICK e \in Edge : Leads(e) /\ Src[e] \in A /\ Dst[e] \in Near \ A
    BY <1>1, <1>3, <1>4, <2>1
  <2>3. NewDist(e)' = NewDist(e)
    BY <1>1, <1>4 DEF NewDist, Weight
  <2>4. Leads(e)'
    BY <1>2, <1>4, <2>2, <2>3, NetworkAssumption DEF Leads
  <2>5. QED
    BY <2>1, <2>2, <2>4
<1>5. CASE DirectEnd
  <2>1. pc = "direct" /\ dist' = dist
    BY <1>5 DEF DirectEnd
  <2>2. Near' \subseteq {root}
    BY <1>1, <2>1, NetworkAssumption DEF Near, ResetInv
  <2>3. QED
    BY <1>1, <2>2
<1>6. CASE Finish
  BY <1>4, <1>6 DEF Finish
<1>7. ASSUME NEW n \in heap, TakeCandidate(n)
      PROVE  \E e \in Edge : Leads(e)' /\ Src[e] \in A /\ Dst[e] \in Near' \ A
  <2>1. pc = "dijkstra" /\ dist' = dist /\ cur' = n
    BY <1>7 DEF TakeCandidate, PopCandidate
  <2>2. CASE result[root] = <<>>
    <3>1. \A m \in visited \ {root} : dist[m] = Inf
      BY <2>1, <2>2 DEF DijkstraInv, FirstInv
    <3>2. Near' \subseteq {root}
      BY <1>1, <2>1, <3>1, NetworkAssumption DEF Near
    <3>3. QED
      BY <1>1, <3>2
  <2>3. CASE result[root] # <<>>
    <3>1. dist[cur] <= dist[n]
      BY <2>1, <2>3 DEF DijkstraInv, FrontierInv
    <3>2. /\ dist \in [Node -> 0..Inf] /\ cur \in Node /\ n \in Node /\ Inf \in Nat
      BY NetworkAssumption DEF TypeOK
    <3>3. \A m \in Node : dist[m] <= dist[cur] => dist[m] <= dist[n]
      BY <3>1, <3>2
    <3>4. QED
      BY <1>4, <2>1, <3>3
  <2>4. QED
    BY <2>2, <2>3
<1>8. ASSUME NEW e \in todo, RelaxSkip(e) \/ RelaxEqual(e)
      PROVE  \E f \in Edge : Leads(f)' /\ Src[f] \in A /\ Dst[f] \in Near' \ A
  BY <1>4, <1>8 DEF RelaxSkip, RelaxEqual, RelaxNext
<1>9. ASSUME NEW e \in todo, RelaxBetter(e)
      PROVE  \E f \in Edge : Leads(f)' /\ Src[f] \in A /\ Dst[f] \in Near' \ A
  <2> DEFINE n == Dst[e]
             B == (A \cup {n}) \cap Near
  <2>1. pc = "dijkstra" /\ cur' = cur
    BY <1>9 DEF RelaxBetter, RelaxNext
  <2>2. e \in Edge /\ Src[e] = cur
    BY TodoEdge
  <2>3. Near' = Near \cup {n} /\ cur \in Near
    <3>1. cur \in visited /\ n \in visited
      BY <1>1, <2>1, TodoVisited DEF DijkstraInv
    <3>2. QED
      BY <1>9, <3>1, BetterNear
  <2>4. CASE n \notin A /\ cur \in A
    BY <1>9, <2>2, <2>3, <2>4, BetterLeads
  <2>5. CASE n \in A \/ cur \notin A
    <3>1. root \in Near
      <4>1. dist[root] = 0 /\ root \in visited
        BY <2>1 DEF DijkstraInv, WitnessInv, ClosureInv
      <4>2. QED
        BY <4>1, NetworkAssumption DEF Near
    <3>2. B # Near
      <4>1. CASE n \in A
        BY <2>3, <4>1
      <4>2. CASE cur \notin A
        <5>1. cur # n
          BY TodoEdge
        <5>2. QED
          BY <2>3, <4>2, <5>1
      <4>3. QED
        BY <2>5, <4>1, <4>2
    <3>3. PICK f \in Edge : Leads(f) /\ Src[f] \in B /\ Dst[f] \in Near \ B
      BY <1>1, <1>3, <2>1, <3>1, <3>2
    <3>4. Dst[f] # n /\ Dst[f] \in Near' \ A
      BY <2>3, <3>3
    <3>5. Src[f] # n /\ Leads(f)'
      BY <1>9, <3>3, <3>4, BetterLeads
    <3>6. QED
      BY <3>3, <3>4, <3>5
  <2>6. QED
    BY <2>4, <2>5
<1>10. QED
  BY <1>5, <1>6, <1>7, <1>8, <1>9, DijkstraKinds

\* Without pseudonodes a position is only ever rewritten for the same router.
LEMMA TakeKeepsOthers ==
  ASSUME TypeOK, Pseudo = {}, NEW n \in heap, NEW i \in DOMAIN result[root],
         result[root][i].node # n
  PROVE  i # RecordFor(n)
<1>1. result[root] \in Seq(RecordType) /\ DOMAIN result[root] = 1..Len(result[root])
      /\ Len(result[root]) \in Nat
  BY DEF TypeOK
<1>2. CASE RecordsOf(n) # {}
  <2>1. RecordFor(n) \in RecordsOf(n)
    BY <1>2 DEF RecordFor
  <2>2. QED
    BY <2>1 DEF RecordsOf
<1>3. CASE RecordsOf(n) = {}
  BY <1>1, <1>3 DEF RecordFor
<1>4. QED
  BY <1>2, <1>3

LEMMA LiveStep ==
  ASSUME TypeOK, Pseudo = {}, SelfResultsLive, Next
  PROVE  SelfResultsLive'
<1>0. /\ result \in [Node -> Seq(RecordType)] /\ selfRes \in [Node -> [Node -> Nat]]
      /\ root \in Node /\ heap \subseteq Node
  BY DEF TypeOK
<1>1. CASE UNCHANGED <<result, selfRes>>
  BY <1>1 DEF SelfResultsLive
<1>2. ASSUME NEW r \in Node, SpfStart(r)
      PROVE  SelfResultsLive'
  <2> DEFINE recorded == {result[r][i].node : i \in DOMAIN result[r]}
  <2>1. /\ result' = [result EXCEPT ![r] = <<>>]
        /\ selfRes' = [n \in Node |-> IF n \in recorded
                                      THEN [selfRes[n] EXCEPT ![r] = 0]
                                      ELSE selfRes[n]]
    BY <1>2 DEF SpfStart, ClearResult
  <2>2. ASSUME NEW n \in Node, selfRes[n][r] # 0
        PROVE  n \in recorded
    BY <2>2 DEF SelfResultsLive
  <2> HIDE DEF recorded
  <2>3. ASSUME NEW n \in Node, NEW t \in Node, selfRes'[n][t] # 0
        PROVE  /\ selfRes'[n][t] \in DOMAIN result'[t]
               /\ result'[t][selfRes'[n][t]].node = n
    <3>1. CASE t = r
      <4>1. selfRes'[n][r] = 0
        BY <1>0, <2>1, <2>2
      <4>2. QED
        BY <2>3, <3>1, <4>1
    <3>2. CASE t # r
      <4>1. selfRes'[n][t] = selfRes[n][t] /\ result'[t] = result[t]
        BY <1>0, <2>1, <3>2
      <4>2. QED
        BY <2>3, <4>1 DEF SelfResultsLive
    <3>3. QED
      BY <3>1, <3>2
  <2>4. QED
    BY <2>3 DEF SelfResultsLive
<1>3. ASSUME NEW n \in heap, TakeCandidate(n)
      PROVE  SelfResultsLive'
  <2>1. selfRes' = [selfRes EXCEPT ![n][root] = RecordFor(n)]
    BY <1>3 DEF TakeCandidate
  <2>2. ASSUME NEW m \in Node, NEW t \in Node, selfRes'[m][t] # 0
        PROVE  /\ selfRes'[m][t] \in DOMAIN result'[t]
               /\ result'[t][selfRes'[m][t]].node = m
    <3>1. CASE m = n /\ t = root
      <4>1. selfRes'[n][root] = RecordFor(n)
        BY <1>0, <2>1
      <4>2. /\ RecordFor(n) \in DOMAIN result'[root]
            /\ result'[root][RecordFor(n)] = Record(n)
        BY <1>3, TakeRecords
      <4>3. QED
        BY <3>1, <4>1, <4>2 DEF Record
    <3>2. CASE ~(m = n /\ t = root)
      <4>1. selfRes'[m][t] = selfRes[m][t]
        BY <1>0, <2>1, <3>2
      <4>2. /\ selfRes[m][t] \in DOMAIN result[t]
            /\ result[t][selfRes[m][t]].node = m
        BY <2>2, <4>1 DEF SelfResultsLive
      <4>3. CASE t # root
        BY <1>3, <4>1, <4>2, <4>3, TakeRecords
      <4>4. CASE t = root
        <5>1. selfRes[m][t] # RecordFor(n)
          BY <3>2, <4>2, <4>4, TakeKeepsOthers
        <5>2. QED
          BY <1>3, <4>1, <4>2, <4>4, <5>1, TakeRecords
      <4>5. QED
        BY <4>3, <4>4
    <3>3. QED
      BY <3>1, <3>2
  <2>3. QED
    BY <2>2 DEF SelfResultsLive
<1>4. CASE Operator
  BY <1>1, <1>2, <1>4 DEF Operator, SetMetric, SetStatus, SetOverload, Configure, resVars
<1>5. CASE SpfInit
  BY <1>1, <1>5 DEF SpfInit, BfsDeque, BfsEnd, DirectEnd, BfsSeen, BfsReset, BfsNext,
     DirectFirst, DirectBetter, DirectEqual, DirectWorse, DirectNext, resVars
<1>6. CASE Dijkstra
  BY <1>1, <1>3, <1>6 DEF Dijkstra, Finish, TakeCrash, RelaxSkip, RelaxBetter,
     RelaxEqual, RelaxNext, resVars
<1>7. QED
  BY <1>4, <1>5, <1>6 DEF Next

\* Only SpfStart and TakeCandidate write to the list of the root.
LEMMA ListKept ==
  ASSUME Next, \A n \in Node : ~SpfStart(n), \A n \in heap : ~TakeCandidate(n)
  PROVE  UNCHANGED <<root, result>>
<1>1. CASE Operator
  BY <1>1 DEF Operator, SetMetric, SetStatus, SetOverload, Configure, resVars
<1>2. CASE SpfInit
  BY <1>2 DEF SpfInit, BfsDeque, BfsEnd, DirectEnd, BfsSeen, BfsReset, BfsNext,
     DirectFirst, DirectBetter, DirectEqual, DirectWorse, DirectNext, resVars
<1>3. CASE Dijkstra
  BY <1>3 DEF Dijkstra, Finish, TakeCrash, PopCandidate, RelaxSkip, RelaxBetter,
     RelaxEqual, RelaxNext, resVars
<1>4. QED
  BY <1>1, <1>2, <1>3 DEF Next

LEMMA SortedStep ==
  ASSUME TypeOK, Pseudo = {}, FrontierInv, RecordsCurrent, ResultsByDistance, Next
  PROVE  ResultsByDistance'
<1>1. CASE UNCHANGED <<root, result>>
  BY <1>1 DEF ResultsByDistance
<1>2. ASSUME NEW r \in Node, SpfStart(r)
      PROVE  ResultsByDistance'
  <2>1. result' = [result EXCEPT ![r] = <<>>] /\ root' = r
    BY <1>2 DEF SpfStart, ClearResult
  <2>2. result'[root'] = <<>>
    BY <2>1 DEF TypeOK
  <2>3. QED
    BY <2>2 DEF ResultsByDistance
<1>3. ASSUME NEW n \in heap, TakeCandidate(n)
      PROVE  ResultsByDistance'
  <2> DEFINE k == RecordFor(n)
             old == result[root]
             new == result'[root]
  <2>1. pc = "dijkstra" /\ root' = root
    BY <1>3 DEF TakeCandidate, PopCandidate
  <2>2. /\ n \in Node /\ old \in Seq(RecordType) /\ DOMAIN old = 1..Len(old)
        /\ Len(old) \in Nat /\ dist[n] \in 0..Inf /\ Inf \in Nat
    BY NetworkAssumption DEF TypeOK
  <2>3. /\ k \in DOMAIN new /\ new[k] = Record(n) /\ DOMAIN old \subseteq DOMAIN new
        /\ \A i \in DOMAIN new : i # k => i \in DOMAIN old /\ new[i] = old[i]
    BY <1>3, TakeRecords
  <2>4. new[k].metric = dist[n]
    BY <2>3 DEF Record
  <2>5. ASSUME NEW i \in DOMAIN old
        PROVE  old[i].metric <= dist[n] /\ old[i].metric \in Nat
    <3>1. old[i].metric = dist[old[i].node]
      BY <2>1 DEF RecordsCurrent
    <3>2. dist[old[i].node] <= dist[n]
      BY <1>3, TakeNearest
    <3>3. old[i] \in RecordType
      BY <2>2
    <3>4. old[i].metric \in 0..Inf
      BY <3>3 DEF RecordType
    <3>5. QED
      BY <2>2, <3>1, <3>2, <3>4
  <2>6. ASSUME NEW i \in DOMAIN old, NEW j \in DOMAIN old, i < j
        PROVE  old[i].metric <= old[j].metric
    BY <2>6 DEF ResultsByDistance
  <2>7. k \in DOMAIN old => old[k].metric = dist[n]
    <3>1. ASSUME k \in DOMAIN old
          PROVE  old[k].metric = dist[n]
      <4>1. RecordsOf(n) # {}
        BY <2>2, <3>1 DEF RecordFor
      <4>2. old[k].node = n
        BY <4>1 DEF RecordFor, RecordsOf
      <4>3. QED
        BY <2>1, <3>1, <4>2 DEF RecordsCurrent
    <3>2. QED
      BY <3>1
  <2>8. k \in DOMAIN old \/ k = Len(old) + 1
    <3>1. CASE RecordsOf(n) # {}
      BY <3>1 DEF RecordFor, RecordsOf
    <3>2. CASE RecordsOf(n) = {}
      BY <3>2 DEF RecordFor
    <3>3. QED
      BY <3>1, <3>2
  <2> HIDE DEF k, old, new
  <2>9. ASSUME NEW i \in DOMAIN new, NEW j \in DOMAIN new, i < j
        PROVE  new[i].metric <= new[j].metric
    <3>1. CASE i # k /\ j # k
      BY <2>3, <2>6, <2>9, <3>1
    <3>2. CASE j = k
      <4>1. i # k
        BY <2>2, <2>3, <2>8, <2>9, <3>2
      <4>2. QED
        BY <2>3, <2>4, <2>5, <3>2, <4>1
    <3>3. CASE i = k /\ j # k
      <4>1. j \in DOMAIN old /\ new[j] = old[j]
        BY <2>3, <3>3
      <4>2. k \in DOMAIN old
        BY <2>2, <2>8, <2>9, <3>3, <4>1
      <4>3. QED
        BY <2>4, <2>6, <2>7, <2>9, <3>3, <4>1, <4>2
    <3>4. QED
      BY <3>1, <3>2, <3>3
  <2>10. QED
    BY <2>1, <2>9 DEF ResultsByDistance, new
<1>4. QED
  BY <1>1, <1>2, <1>3, ListKept

\* Steps that leave the list as it is: a record may only go out of date when its
\* node becomes a candidate.
LEMMA RecordsKept ==
  ASSUME TypeOK, RecordsCurrent, pc = "dijkstra", UNCHANGED <<root, visited, result>>,
         heap \subseteq heap',
         \A n \in Node : \/ dist'[n] = dist[n] /\ nextHop'[n] = nextHop[n]
                         \/ n \in heap' /\ (dist'[n] = dist[n] \/ RecordsOf(n) = {})
  PROVE  RecordsCurrent'
<1>1. /\ visited \subseteq Node /\ result[root] \in Seq(RecordType)
  BY DEF TypeOK
<1>2. \A n : RecordsOf(n)' = RecordsOf(n)
  BY DEF RecordsOf
<1>3. ASSUME NEW n \in visited, dist'[n] < Inf
      PROVE  n \in heap' \/ RecordsOf(n)' # {}
  BY <1>1, <1>2, <1>3 DEF RecordsCurrent
<1>4. ASSUME NEW i \in DOMAIN result[root]
      PROVE  /\ result[root][i].metric = dist'[result[root][i].node]
             /\ \/ result[root][i].node \in heap'
                \/ result[root][i] = Record(result[root][i].node)'
  <2> DEFINE n == result[root][i].node
  <2>1. n \in Node
    <3>1. result[root][i] \in RecordType
      BY <1>1
    <3>2. QED
      BY <3>1 DEF RecordType
  <2>2. result[root][i].metric = dist[n] /\ (n \in heap \/ result[root][i] = Record(n))
    BY DEF RecordsCurrent
  <2>3. RecordsOf(n) # {}
    BY DEF RecordsOf
  <2>4. dist'[n] = dist[n]
    BY <2>1, <2>3
  <2>5. CASE nextHop'[n] = nextHop[n]
    <3>1. Record(n)' = Record(n)
      BY <2>4, <2>5 DEF Record, CopyLists, CopyList, Listed
    <3>2. QED
      BY <2>2, <2>4, <3>1
  <2>6. CASE n \in heap'
    BY <2>2, <2>4, <2>6
  <2>7. QED
    BY <2>1, <2>5, <2>6
<1>5. QED
  BY <1>3, <1>4 DEF RecordsCurrent

LEMMA RecordsStep ==
  ASSUME TypeOK, TodoInv, ResetInv, DijkstraInv, Pseudo = {}, RecordsCurrent, Next
  PROVE  RecordsCurrent'
<1>0. /\ heap \subseteq Node /\ visited \subseteq Node /\ dist \in [Node -> 0..Inf]
      /\ nextHop \in [Node -> [NhType -> NhList]] /\ Inf \in Nat
  BY NetworkAssumption DEF TypeOK
<1>1. CASE pc' \notin {"dijkstra", "done"}
  BY <1>1 DEF RecordsCurrent
<1>2. CASE DirectEnd
  <2>1. /\ pc = "direct" /\ heap' = {root} /\ UNCHANGED <<root, visited, dist, result>>
    BY <1>2 DEF DirectEnd, bfsVars, resVars
  <2>2. result[root] = <<>> /\ \A n \in visited \ {root} : dist[n] = Inf
    BY <2>1 DEF ResetInv
  <2>3. QED
    BY <1>0, <2>1, <2>2 DEF RecordsCurrent
<1>3. CASE Finish
  BY <1>3, RecordsKept DEF Finish, bfsVars, resVars
<1>4. ASSUME NEW n \in heap, TakeCandidate(n)
      PROVE  RecordsCurrent'
  <2> DEFINE k == RecordFor(n)
             old == result[root]
             new == result'[root]
  <2>1. /\ pc = "dijkstra" /\ heap' = heap \ {n}
        /\ UNCHANGED <<root, visited, dist, nextHop>>
    BY <1>4 DEF TakeCandidate, PopCandidate, bfsVars
  <2>2. /\ k \in DOMAIN new /\ new[k] = Record(n) /\ DOMAIN old \subseteq DOMAIN new
        /\ \A i \in DOMAIN new : i # k => i \in DOMAIN old /\ new[i] = old[i]
    BY <1>4, TakeRecords
  <2>3. Record(n).node = n /\ Record(n).metric = dist[n]
    BY DEF Record
  <2>4. \A i \in DOMAIN old : old[i].node # n => i # k
    BY TakeKeepsOthers
  <2>5. \A i, j \in DOMAIN old : old[i].node = old[j].node => i = j
    BY <2>1 DEF RecordsCurrent
  <2>6. \A i \in DOMAIN old : old[i].node = n => i = k
    <3>1. ASSUME NEW i \in DOMAIN old, old[i].node = n
          PROVE  i = k
      <4>1. RecordsOf(n) # {}
        BY <3>1 DEF RecordsOf
      <4>2. k \in DOMAIN old /\ old[k].node = n
        BY <4>1 DEF RecordFor, RecordsOf
      <4>3. QED
        BY <2>5, <3>1, <4>2
    <3>2. QED
      BY <3>1
  <2>7. \A m : Record(m)' = Record(m)
    BY <2>1 DEF Record, CopyLists, CopyList, Listed
  <2>8. \A i \in DOMAIN old : LET m == old[i].node
                             IN old[i].metric = dist[m] /\ (m \in heap \/ old[i] = Record(m))
    BY <2>1 DEF RecordsCurrent
  <2>9. \A m \in visited : dist[m] < Inf => m \in heap \/ \E i \in DOMAIN old : old[i].node = m
    BY <2>1 DEF RecordsCurrent, RecordsOf
  <2> HIDE DEF k, old, new
  <2>10. ASSUME NEW m \in visited, dist[m] < Inf
         PROVE  m \in heap' \/ \E i \in DOMAIN new : new[i].node = m
    <3>1. CASE m = n
      BY <2>2, <2>3, <3>1
    <3>2. CASE m # n
      BY <2>1, <2>2, <2>4, <2>9, <2>10, <3>2
    <3>3. QED
      BY <3>1, <3>2
  <2>11. ASSUME NEW i \in DOMAIN new, NEW j \in DOMAIN new, new[i].node = new[j].node
         PROVE  i = j
    BY <2>2, <2>3, <2>5, <2>6, <2>11
  <2>12. ASSUME NEW i \in DOMAIN new
         PROVE  LET m == new[i].node
                IN new[i].metric = dist[m] /\ (m \in heap' \/ new[i] = Record(m))
    <3>1. CASE i = k
      BY <2>2, <2>3, <3>1
    <3>2. CASE i # k
      <4>1. i \in DOMAIN old /\ new[i] = old[i] /\ old[i].node # n
        BY <2>2, <2>6, <3>2
      <4>2. QED
        BY <2>1, <2>8, <4>1
    <3>3. QED
      BY <3>1, <3>2
  <2>13. QED
    BY <2>1, <2>7, <2>10, <2>11, <2>12 DEF RecordsCurrent, RecordsOf, new
<1>5. ASSUME NEW e \in todo, RelaxSkip(e)
      PROVE  RecordsCurrent'
  BY <1>5, RecordsKept DEF RelaxSkip, RelaxNext, bfsVars, resVars
<1>6. ASSUME NEW e \in todo, RelaxEqual(e) \/ RelaxBetter(e)
      PROVE  RecordsCurrent'
  <2>1. /\ pc = "dijkstra" /\ UNCHANGED <<root, visited, result>>
        /\ heap' = heap \cup {Dst[e]}
        /\ \E h : nextHop' = [nextHop EXCEPT ![Dst[e]] = h]
    BY <1>6 DEF RelaxEqual, RelaxBetter, RelaxNext, bfsVars, resVars
  <2>2. Dst[e] \in Node
    BY TodoEdge
  <2>3. \/ dist' = dist
        \/ RecordsOf(Dst[e]) = {} /\ \E d : dist' = [dist EXCEPT ![Dst[e]] = d]
    <3>1. CASE RelaxEqual(e)
      <4>1. dist' = dist
        BY <3>1 DEF RelaxEqual
      <4>2. QED
        BY <4>1
    <3>2. CASE RelaxBetter(e)
      <4>1. RecordsOf(Dst[e]) = {}
        BY <3>2, RelaxBetterStep
      <4>2. QED
        BY <3>2, <4>1 DEF RelaxBetter
    <3>3. QED
      BY <1>6, <3>1, <3>2
  <2>4. ASSUME NEW n \in Node
        PROVE  \/ dist'[n] = dist[n] /\ nextHop'[n] = nextHop[n]
               \/ n \in heap' /\ (dist'[n] = dist[n] \/ RecordsOf(n) = {})
    <3>1. CASE n = Dst[e]
      BY <2>1, <2>3, <3>1
    <3>2. CASE n # Dst[e]
      BY <1>0, <2>1, <2>3, <3>2
    <3>3. QED
      BY <3>1, <3>2
  <2>5. QED
    BY <2>1, <2>4, RecordsKept
<1>7. QED
  BY <1>1, <1>2, <1>3, <1>4, <1>5, <1>6, DijkstraKinds

LEMMA RecordStep ==
  ASSUME TypeOK, TodoInv, ResetInv, DijkstraInv, RecordInv, Next
  PROVE  RecordInv'
BY RecordsStep, SortedStep, LiveStep DEF RecordInv, DijkstraInv

-----------------------------------------------------------------------------
(* The invariant and what follows from it.                                 *)

LEMMA InvInit ==
  Init => Inv
<1> SUFFICES ASSUME Init
             PROVE  Inv
  OBVIOUS
<1>1. TypeOK /\ TodoInv
  BY TypeInit
<1>2. pc = "idle" /\ queue = <<>>
  BY DEF Init
<1>3. RecordInv
  <2>1. \A n \in Node : result[n] = <<>> /\ \A r \in Node : selfRes[n][r] = 0
    BY DEF Init
  <2>2. result[root] = <<>>
    BY <1>1, <2>1 DEF TypeOK
  <2>3. RecordsCurrent
    BY <1>2 DEF RecordsCurrent
  <2>4. ResultsByDistance
    BY <2>2 DEF ResultsByDistance
  <2>5. SelfResultsLive
    BY <2>1 DEF SelfResultsLive
  <2>6. QED
    BY <2>3, <2>4, <2>5 DEF RecordInv
<1>4. QED
  BY <1>1, <1>2, <1>3 DEF Inv, QueueInv, ClosureInv, ResetInv, WitnessInv, RelaxedInv,
     FrontierInv, FirstInv, DoneInv, WithinInv, CutInv

LEMMA InvStep ==
  Inv /\ [Next]_vars => Inv'
<1> SUFFICES ASSUME Inv, [Next]_vars
             PROVE  Inv'
  OBVIOUS
<1>1. TypeOK' /\ TodoInv'
  BY TypeStep DEF Inv
<1>2. CASE Next
  <2>1. /\ TypeOK /\ QueueInv /\ TodoInv /\ ClosureInv /\ ResetInv /\ DijkstraInv
        /\ FirstInv /\ WithinInv /\ CutInv /\ RecordInv
    BY DEF Inv, DijkstraInv
  <2>2. QueueInv' /\ ClosureInv' /\ ResetInv' /\ DijkstraInv'
    BY <1>2, <2>1, QueueStep, ClosureStep, ResetStep, DijkstraStep
  <2>3. WithinInv'
    BY <1>2, <2>1, WithinStep
  <2>4. CutInv'
    BY <1>2, <2>1, CutStep
  <2>5. RecordInv'
    BY <1>2, <2>1, RecordStep
  <2>6. QED
    BY <1>1, <2>2, <2>3, <2>4, <2>5 DEF Inv, DijkstraInv
<1>3. CASE UNCHANGED vars
  <2>0. UNCHANGED <<metric, status, overload, pc, root, queue, visited, dropped, cur, todo,
                    dist, heap, nextHop, result, selfRes>>
    BY <1>3 DEF vars, cfgVars, bfsVars, resVars
  <2>1. /\ \A e \in Edge : (Usable(e)' <=> Usable(e)) /\ NewDist(e)' = NewDist(e)
        /\ \A n : InQueue(n)' <=> InQueue(n)
    BY <2>0, UsableStable DEF NewDist, Weight, InQueue
  <2>2. QueueInv' /\ ClosureInv' /\ ResetInv'
    BY <2>0, <2>1 DEF Inv, QueueInv, ClosureInv, ResetInv
  <2>3. WitnessInv' /\ RelaxedInv' /\ FrontierInv' /\ FirstInv' /\ DoneInv'
    BY <2>0, <2>1 DEF Inv, WitnessInv, RelaxedInv, FrontierInv, FirstInv, DoneInv
  <2>4. WithinInv'
    BY <2>0 DEF Inv, WithinInv
  <2>5. CutInv'
    <3>1. Near' = Near /\ \A e \in Edge : Leads(e)' <=> Leads(e)
      BY <2>0, <2>1 DEF Near, Leads
    <3>2. QED
      BY <2>0, <3>1 DEF Inv, CutInv
  <2>6. RecordInv'
    <3>1. \A n : RecordsOf(n)' = RecordsOf(n) /\ Record(n)' = Record(n)
      BY <2>0 DEF RecordsOf, Record, CopyLists, CopyList, Listed
    <3>2. /\ RecordsCurrent => RecordsCurrent'
          /\ ResultsByDistance => ResultsByDistance'
          /\ SelfResultsLive => SelfResultsLive'
      BY <2>0, <3>1 DEF RecordsCurrent, ResultsByDistance, SelfResultsLive
    <3>3. QED
      BY <3>2 DEF Inv, RecordInv
  <2>7. QED
    BY <1>1, <2>2, <2>3, <2>4, <2>5, <2>6 DEF Inv
<1>4. QED
  BY <1>2, <1>3

THEOREM Invariance == Spec => []Inv
<1>1. Init => Inv
  BY InvInit
<1>2. Inv /\ [Next]_vars => Inv'
  BY InvStep
<1>3. QED
  BY <1>1, <1>2, PTL DEF Spec

\* A link of a settled network that is usable leads back into the reset nodes.
LEMMA UsableBack ==
  ASSUME Inv, pc = "done", dropped = {}, NEW e \in Edge, Usable(e)
  PROVE  /\ Src[e] \in visited => Dst[e] \in visited
         /\ Dst[e] \in visited => Src[e] \in visited
<1>1. \A f \in Edge : status[f] /\ Src[f] \in visited => Dst[f] \in visited
  BY DEF Inv, ClosureInv
<1>2. \E f \in Edge : status[f] /\ Src[f] = Dst[e] /\ Dst[f] = Src[e]
  BY DEF Usable, IsTwoWay, UpEdges
<1>3. QED
  BY <1>1, <1>2 DEF Usable

LEMMA InvBellman ==
  Inv => BellmanEquations
<1> SUFFICES ASSUME Inv, pc = "done", dropped = {}
             PROVE  /\ dist[root] = 0
                    /\ \A e \in Edge : Usable(e) /\ Src[e] \in visited =>
                         Dst[e] \in visited /\ dist[Dst[e]] <= NewDist(e)
                    /\ \A n \in visited \ {root} : dist[n] < Inf =>
                         \E e \in Edge : /\ Usable(e) /\ Src[e] \in visited /\ Dst[e] = n
                                        /\ dist[n] = NewDist(e)
  BY DEF BellmanEquations
<1>1. todo = {} /\ heap = {} /\ TypeOK
  BY DEF Inv, DoneInv
<1>2. dist[root] = 0
  BY DEF Inv, WitnessInv
<1>3. \A e \in Edge : Usable(e) /\ Src[e] \in visited =>
        Dst[e] \in visited /\ dist[Dst[e]] <= NewDist(e)
  BY <1>1, UsableBack DEF Inv, RelaxedInv
<1>4. ASSUME NEW n \in visited \ {root}, dist[n] < Inf
      PROVE  \E e \in Edge : /\ Usable(e) /\ Src[e] \in visited /\ Dst[e] = n
                            /\ dist[n] = NewDist(e)
  <2>1. PICK e \in Edge : Usable(e) /\ Dst[e] = n /\ dist[n] >= NewDist(e)
    BY <1>4 DEF Inv, WitnessInv
  <2>2. Src[e] \in visited
    BY <2>1, UsableBack
  <2>3. dist[n] <= NewDist(e) /\ dist[n] \in 0..Inf /\ NewDist(e) \in Nat
    BY <1>1, <1>3, <2>1, <2>2, CostType
  <2>4. dist[n] = NewDist(e)
    BY <2>1, <2>3, NetworkAssumption
  <2>5. QED
    BY <2>1, <2>2, <2>4
<1>5. QED
  BY <1>2, <1>3, <1>4

\* On every network, when a run ends whose queue refused no node, the distances
\* solve the shortest-path equations of the network as it is: no link shortens
\* one, and each is the cost over some link, whatever earlier runs left behind.
THEOREM DistancesSolveBellman == Spec => []BellmanEquations
BY Invariance, InvBellman, PTL

\* On every network, metrics of 0 included, a step of run_dijkastra never changes
\* the distance of a node that has a record: the relaxation "d + metric < dist"
\* only fires for nodes still to be recorded.
THEOREM RecordsAreFinal == Spec => SettledFinal
<1>1. ASSUME Inv, [Next]_vars, NEW n \in Node, pc = "dijkstra", RecordsOf(n) # {}
      PROVE  dist'[n] = dist[n]
  <2>1. CASE UNCHANGED vars
    BY <2>1 DEF vars
  <2>2. CASE Operator
    BY <1>1, <2>2 DEF Operator, SetMetric, SetStatus, SetOverload, SpfStart, Configure, Command
  <2>3. CASE SpfInit
    BY <1>1, <2>3 DEF SpfInit, BfsDeque, BfsEnd, DirectEnd, BfsSeen, BfsReset, BfsNext,
       DirectFirst, DirectBetter, DirectEqual, DirectWorse, DirectNext
  <2>4. ASSUME NEW e \in todo, RelaxBetter(e)
        PROVE  dist'[n] = dist[n]
    <3>1. RecordsOf(Dst[e]) = {}
      BY <1>1, <2>4, RelaxBetterStep DEF Inv, DijkstraInv
    <3>2. n # Dst[e]
      BY <1>1, <3>1
    <3>3. QED
      BY <1>1, <2>4, <3>2 DEF RelaxBetter, Inv, TypeOK
  <2>5. CASE Dijkstra
    BY <2>4, <2>5 DEF Dijkstra, Finish, TakeCandidate, TakeCrash, PopCandidate,
       RelaxSkip, RelaxEqual, RelaxNext
  <2>6. QED
    BY <1>1, <2>1, <2>2, <2>3, <2>5 DEF Next
<1>2. Inv /\ [Next]_vars =>
        [\A n \in Node : pc = "dijkstra" /\ RecordsOf(n) # {} => dist'[n] = dist[n]]_vars
  BY <1>1
<1>3. QED
  BY <1>2, Invariance, PTL DEF Spec, SettledFinal

-----------------------------------------------------------------------------
(* Networks that fit the queue.                                            *)

\* Queued nodes are distinct and differ from a node that is not reset yet.
LEMMA QueueRoom ==
  ASSUME IsFiniteSet(Node), TypeOK, QueueInv, NEW n \in Node, n \notin visited
  PROVE  Len(queue) < Cardinality(Node)
<1> DEFINE S == 1..Len(queue)
           T == Node \ {n}
           f == [i \in S |-> queue[i]]
<1>1. queue \in Seq(Node) /\ Len(queue) \in Nat
  BY DEF TypeOK
<1>2. IsFiniteSet(S) /\ Cardinality(S) = Len(queue)
  BY <1>1, FS_Interval
<1>3. /\ IsFiniteSet(T) /\ Cardinality(T) = Cardinality(Node) - 1
      /\ Cardinality(Node) \in Nat /\ Cardinality(T) \in Nat
  BY FS_RemoveElement, FS_CardinalityType
<1>4. f \in [S -> T]
  BY <1>1 DEF QueueInv
<1>5. \A i, j \in S : f[i] = f[j] => i = j
  BY DEF QueueInv
<1> HIDE DEF S, T, f
<1>6. ~(Cardinality(T) < Cardinality(S))
  BY <1>2, <1>3, <1>4, <1>5, FS_PigeonHole
<1>7. QED
  BY <1>1, <1>2, <1>3, <1>6

\* When Q_DEFAULT_SIZE is at least the number of nodes, enqueue() refuses none,
\* and step 2 of spf_init resets the entire level graph.
THEOREM SmallNetworkReset ==
  ASSUME IsFiniteSet(Node), Cardinality(Node) <= QSize
  PROVE  Spec => []LevelGraphReset
<1>1. ASSUME Inv, [Next]_vars, dropped = {}
      PROVE  dropped' = {}
  <2>1. ASSUME NEW e \in todo, BfsReset(e)
        PROVE  dropped' = {}
    <3>1. Dst[e] \in Node /\ Dst[e] \notin visited
      BY <1>1, <2>1, TodoEdge DEF BfsReset, Inv
    <3>2. Len(queue) < Cardinality(Node) /\ Cardinality(Node) \in Nat /\ Len(queue) \in Nat
      <4>1. TypeOK /\ QueueInv
        BY <1>1 DEF Inv
      <4>2. queue \in Seq(Node)
        BY <4>1 DEF TypeOK
      <4>3. Len(queue) < Cardinality(Node)
        BY <3>1, <4>1, QueueRoom
      <4>4. QED
        BY <4>2, <4>3, FS_CardinalityType
    <3>3. QED
      BY <1>1, <2>1, <3>2, NetworkAssumption DEF BfsReset
  <2>2. CASE UNCHANGED bfsVars
    BY <1>1, <2>2 DEF bfsVars
  <2>3. ASSUME NEW n \in Node, SpfStart(n)
        PROVE  dropped' = {}
    BY <2>3 DEF SpfStart
  <2>4. CASE SpfInit
    BY <1>1, <2>1, <2>4 DEF SpfInit, BfsDeque, BfsEnd, DirectEnd, BfsSeen, BfsNext,
       DirectFirst, DirectBetter, DirectEqual, DirectWorse, DirectNext, bfsVars
  <2>5. CASE Dijkstra
    BY <1>1, <2>5 DEF Dijkstra, Finish, TakeCandidate, TakeCrash, PopCandidate,
       RelaxSkip, RelaxBetter, RelaxEqual, RelaxNext, bfsVars
  <2>6. CASE UNCHANGED vars
    BY <1>1, <2>6 DEF vars, bfsVars
  <2>7. QED
    BY <1>1, <2>2, <2>3, <2>4, <2>5, <2>6, OperatorKinds DEF Next
<1>2. Init => dropped = {}
  BY DEF Init
<1>3. ASSUME Inv, dropped = {}
      PROVE  LevelGraphReset
  BY <1>3 DEF Inv, ClosureInv, LevelGraphReset, UpEdges
<1>4. Inv /\ dropped = {} /\ [Next]_vars => (dropped = {})'
  BY <1>1
<1>5. Inv /\ dropped = {} => LevelGraphReset
  BY <1>3
<1>6. QED
  BY <1>2, <1>4, <1>5, Invariance, PTL DEF Spec

-----------------------------------------------------------------------------
(* The shortest distances.                                                 *)

LEMMA MinNatFacts ==
  ASSUME NEW S \in SUBSET Nat, S # {}
  PROVE  MinNat(S) \in S /\ \A y \in S : MinNat(S) <= y
BY LeastExists DEF MinNat

-----------------------------------------------------------------------------
(* The rounds of ShortestFrom.                                             *)

UsableEdges == {e \in Edge : Usable(e)}
NoRound(s) == [n \in Node |-> IF n = s THEN 0 ELSE Inf]

\* Any number of rounds can be played.
LEMMA RoundsExist ==
  ASSUME NEW N \in Nat, NEW s
  PROVE  \E f : f = [k \in 0..N |-> IF k = 0 THEN NoRound(s)
                                    ELSE BellmanRound(f[k - 1], s, UsableEdges)]
<1> DEFINE Good(f, m) == f = [k \in 0..m |-> IF k = 0 THEN NoRound(s)
                                    ELSE BellmanRound(f[k - 1], s, UsableEdges)]
           S == {m \in 0..N : \E f : Good(f, m)}
<1>1. 0 \in S
  <2>1. PICK f : f = [k \in 0..0 |-> NoRound(s)]
    OBVIOUS
  <2>2. Good(f, 0)
    BY <2>1
  <2> HIDE DEF Good
  <2>3. QED
    BY <2>2
<1>2. ASSUME NEW m \in 0..N, m < N, m \in S
      PROVE  m + 1 \in S
  <2>1. PICK f : Good(f, m)
    BY <1>2
  <2>0. PICK g : g = [k \in 0..(m + 1) |-> IF k <= m THEN f[k]
                                       ELSE BellmanRound(f[m], s, UsableEdges)]
    OBVIOUS
  <2>2. ASSUME NEW k \in 0..(m + 1)
        PROVE  g[k] = IF k = 0 THEN NoRound(s) ELSE BellmanRound(g[k - 1], s, UsableEdges)
    <3>1. CASE k = 0
      BY <2>0, <2>1, <3>1
    <3>2. CASE k # 0 /\ k <= m
      <4>1. k - 1 \in 0..m /\ k \in 0..m /\ k - 1 \in 0..(m + 1)
        BY <3>2
      <4>2. f[k] = BellmanRound(f[k - 1], s, UsableEdges)
        BY <2>1, <3>2, <4>1
      <4>3. g[k] = f[k] /\ g[k - 1] = f[k - 1]
        BY <2>0, <3>2, <4>1
      <4>4. QED
        BY <3>2, <4>2, <4>3
    <3>3. CASE k = m + 1
      <4>1. g[k] = BellmanRound(f[m], s, UsableEdges) /\ g[k - 1] = f[m] /\ k # 0
        BY <2>0, <3>3
      <4>2. QED
        BY <4>1
    <3>4. QED
      BY <3>1, <3>2, <3>3
  <2>3. Good(g, m + 1)
    BY <2>0, <2>2
  <2> HIDE DEF Good
  <2>4. QED
    BY <1>2, <2>3
<1>3. N \in S
  <2> HIDE DEF S
  <2>1. QED
    BY <1>1, <1>2, EachRound
<1>4. PICK f : Good(f, N)
  <2> HIDE DEF Good
  <2>1. QED
    BY <1>3
<1>5. QED
  BY <1>4

\* ShortestWithin starts with no round, and each step is a round.
LEMMA WithinRounds ==
  ASSUME NEW s
  PROVE  /\ ShortestWithin(s)[0] = NoRound(s)
         /\ \A k \in 0..Cardinality(Node) : k < Cardinality(Node) =>
              ShortestWithin(s)[k + 1] = BellmanRound(ShortestWithin(s)[k], s, UsableEdges)
<1> DEFINE N == Cardinality(Node)
           Rounds(f) == [k \in 0..N |-> IF k = 0 THEN NoRound(s)
                                        ELSE BellmanRound(f[k - 1], s, UsableEdges)]
           w == CHOOSE f : f = Rounds(f)
<1>1. N \in Nat
  BY NetworkAssumption, FS_CardinalityType
<1>2. ShortestWithin(s) = w
  BY DEF ShortestWithin, NoRound, UsableEdges
<1>3. \E f : f = Rounds(f)
  BY <1>1, RoundsExist
<1>4. w = Rounds(w)
  BY <1>3
<1> HIDE DEF w
<1>5. w[0] = NoRound(s)
  BY <1>1, <1>4
<1>6. ASSUME NEW k \in 0..N, k < N
      PROVE  w[k + 1] = BellmanRound(w[k], s, UsableEdges)
  <2>1. k + 1 \in 0..N /\ k + 1 # 0 /\ (k + 1) - 1 = k
    BY <1>1, <1>6
  <2>2. QED
    BY <1>4, <2>1
<1>7. QED
  BY <1>2, <1>5, <1>6

\* r are the distances a round makes of d.
IsRound(d, r, s) ==
  /\ r \in [Node -> 0..Inf]
  /\ r[s] = 0
  /\ \A n \in Node \ {s} : r[n] <= d[n]
  /\ \A e \in Edge : Usable(e) /\ Dst[e] # s => r[Dst[e]] <= d[Src[e]] + Weight(e)
  /\ \A n \in Node \ {s} : \/ r[n] = d[n]
                           \/ \E e \in Edge : /\ Usable(e) /\ Dst[e] = n
                                              /\ r[n] = d[Src[e]] + Weight(e)

LEMMA RoundFacts ==
  ASSUME TypeOK, NEW s \in Node, NEW d \in [Node -> 0..Inf]
  PROVE  IsRound(d, BellmanRound(d, s, UsableEdges), s)
<1> DEFINE Over(n) == {d[Src[e]] + Weight(e) : e \in {f \in UsableEdges : Dst[f] = n}}
           m == [n \in Node |-> MinNat({d[n]} \cup Over(n))]
<1>1. PICK r : r = BellmanRound(d, s, UsableEdges)
  OBVIOUS
<1>2. r = [m EXCEPT ![s] = 0]
  BY <1>1 DEF BellmanRound
<1>3. Inf \in Nat
  BY NetworkAssumption
<1>4. \A e \in Edge : /\ Src[e] \in Node /\ Dst[e] \in Node
                      /\ d[Src[e]] \in 0..Inf /\ Weight(e) \in Nat
  BY CostType
<1>5. ASSUME NEW n \in Node
      PROVE  /\ m[n] \in 0..Inf /\ m[n] <= d[n]
             /\ \A e \in UsableEdges : Dst[e] = n => m[n] <= d[Src[e]] + Weight(e)
             /\ \/ m[n] = d[n]
                \/ \E e \in UsableEdges : Dst[e] = n /\ m[n] = d[Src[e]] + Weight(e)
  <2> DEFINE S == {d[n]} \cup Over(n)
  <2>1. S \in SUBSET Nat /\ S # {}
    BY <1>3, <1>4 DEF UsableEdges
  <2>2. m[n] = MinNat(S)
    OBVIOUS
  <2>3. d[n] \in S /\ \A e \in UsableEdges : Dst[e] = n => d[Src[e]] + Weight(e) \in S
    OBVIOUS
  <2>4. \A x \in S : \/ x = d[n]
                     \/ \E e \in UsableEdges : Dst[e] = n /\ x = d[Src[e]] + Weight(e)
    OBVIOUS
  <2> HIDE DEF S, m
  <2>5. m[n] \in S /\ \A x \in S : m[n] <= x
    BY <2>1, <2>2, MinNatFacts
  <2>6. m[n] \in Nat /\ m[n] <= d[n] /\ d[n] \in 0..Inf
    BY <2>1, <2>3, <2>5
  <2>7. m[n] \in 0..Inf
    BY <1>3, <2>6
  <2>8. QED
    BY <2>3, <2>4, <2>5, <2>6, <2>7
<1>6. DOMAIN m = Node
  OBVIOUS
<1> HIDE DEF m, Over
<1>7. /\ r[s] = 0 /\ \A n \in Node \ {s} : r[n] = m[n]
      /\ r \in [Node -> 0..Inf]
  <2>1. m \in [Node -> 0..Inf]
    <3>1. m = [n \in Node |-> m[n]]
      BY DEF m
    <3>2. QED
      BY <1>5, <3>1
  <2>2. 0 \in 0..Inf
    BY <1>3
  <2>3. QED
    BY <1>2, <2>1, <2>2
<1>8. QED
  BY <1>1, <1>4, <1>5, <1>7 DEF IsRound, UsableEdges

\* The distances after each round are distances, and each round follows the one
\* before it.
LEMMA WithinFacts ==
  ASSUME TypeOK, NEW s \in Node
  PROVE  /\ \A k \in 0..Cardinality(Node) : ShortestWithin(s)[k] \in [Node -> 0..Inf]
         /\ \A k \in 0..Cardinality(Node) : k < Cardinality(Node) =>
              IsRound(ShortestWithin(s)[k], ShortestWithin(s)[k + 1], s)
<1> DEFINE N == Cardinality(Node)
           S == {k \in 0..N : ShortestWithin(s)[k] \in [Node -> 0..Inf]}
<1>1. N \in Nat /\ Inf \in Nat
  BY NetworkAssumption, FS_CardinalityType
<1>2. ShortestWithin(s)[0] \in [Node -> 0..Inf]
  <2>1. ShortestWithin(s)[0] = NoRound(s)
    BY WithinRounds
  <2>2. NoRound(s) \in [Node -> 0..Inf]
    BY <1>1 DEF NoRound
  <2>3. QED
    BY <2>1, <2>2
<1>3. ASSUME NEW k \in 0..N, k < N, ShortestWithin(s)[k] \in [Node -> 0..Inf]
      PROVE  IsRound(ShortestWithin(s)[k], ShortestWithin(s)[k + 1], s)
  <2>1. ShortestWithin(s)[k + 1] = BellmanRound(ShortestWithin(s)[k], s, UsableEdges)
    BY <1>3, WithinRounds
  <2>2. QED
    BY <1>3, <2>1, RoundFacts
<1>4. \A k \in 0..N : k < N /\ k \in S => k + 1 \in S
  BY <1>1, <1>3 DEF IsRound
<1>5. 0 \in S
  BY <1>1, <1>2
<1> HIDE DEF S
<1>6. \A k \in 0..N : k \in S
  BY <1>1, <1>4, <1>5, EachRound
<1>7. QED
  BY <1>3, <1>6 DEF S

-----------------------------------------------------------------------------
(* The distances of a run that ended.                                      *)

Settled == Inv /\ pc = "done" /\ dropped = {}

LEMMA SettledFacts ==
  ASSUME Settled
  PROVE  /\ TypeOK /\ root \in visited /\ visited \subseteq Node /\ root \in Node
         /\ Inf \in Nat /\ Cardinality(Node) \in Nat /\ dist \in [Node -> 0..Inf]
         /\ dist[root] = 0
         /\ \A e \in Edge : Usable(e) => (Src[e] \in visited <=> Dst[e] \in visited)
         /\ \A e \in Edge : Usable(e) /\ Src[e] \in visited => dist[Dst[e]] <= NewDist(e)
<1>1. Inv /\ TypeOK /\ pc = "done" /\ dropped = {} /\ todo = {} /\ heap = {}
  BY DEF Settled, Inv, DoneInv
<1>2. root \in visited /\ dist[root] = 0
  BY <1>1 DEF Inv, ClosureInv, WitnessInv
<1>3. visited \subseteq Node /\ root \in Node /\ dist \in [Node -> 0..Inf]
  BY <1>1 DEF TypeOK
<1>4. Inf \in Nat /\ Cardinality(Node) \in Nat
  BY NetworkAssumption, FS_CardinalityType
<1>5. \A e \in Edge : Usable(e) => (Src[e] \in visited <=> Dst[e] \in visited)
  BY <1>1, UsableBack
<1>6. \A e \in Edge : Usable(e) /\ Src[e] \in visited => dist[Dst[e]] <= NewDist(e)
  BY <1>1 DEF Inv, RelaxedInv
<1>7. QED
  BY <1>1, <1>2, <1>3, <1>4, <1>5, <1>6

\* No round finds a shorter way to a reset node, nor a way to another node.
LEMMA RoundsNotBelow ==
  ASSUME Settled, NEW k \in 0..Cardinality(Node)
  PROVE  \A n \in Node : IF n \in visited THEN dist[n] <= ShortestWithin(root)[k][n]
                         ELSE ShortestWithin(root)[k][n] = Inf
<1> DEFINE N == Cardinality(Node)
           w(i) == ShortestWithin(root)[i]
           P(i) == \A n \in Node : IF n \in visited THEN dist[n] <= w(i)[n]
                                   ELSE w(i)[n] = Inf
           S == {i \in 0..N : P(i)}
<1>1. /\ TypeOK /\ root \in visited /\ visited \subseteq Node /\ root \in Node
      /\ Inf \in Nat /\ N \in Nat /\ dist \in [Node -> 0..Inf] /\ dist[root] = 0
      /\ \A e \in Edge : Usable(e) => (Src[e] \in visited <=> Dst[e] \in visited)
      /\ \A e \in Edge : Usable(e) /\ Src[e] \in visited => dist[Dst[e]] <= NewDist(e)
  BY SettledFacts
<1>2. \A n \in Node : dist[n] \in 0..Inf
  BY <1>1
<1>3. P(0)
  <2>1. w(0) = NoRound(root)
    BY WithinRounds
  <2>2. \A n \in Node : w(0)[n] = IF n = root THEN 0 ELSE Inf
    BY <2>1 DEF NoRound
  <2> HIDE DEF w
  <2>3. QED
    BY <1>1, <1>2, <2>2
<1>4. ASSUME NEW i \in 0..N, i < N, P(i)
      PROVE  P(i + 1)
  <2>1. PICK d : d = w(i)
    OBVIOUS
  <2>2. PICK r : r = w(i + 1)
    OBVIOUS
  <2>3. d \in [Node -> 0..Inf] /\ IsRound(d, r, root)
    BY <1>1, <1>4, <2>1, <2>2, WithinFacts
  <2>4. \A n \in Node : IF n \in visited THEN dist[n] <= d[n] ELSE d[n] = Inf
    BY <1>4, <2>1
  <2>5. ASSUME NEW n \in Node
        PROVE  IF n \in visited THEN dist[n] <= r[n] ELSE r[n] = Inf
    <3>1. r[n] \in 0..Inf
      BY <2>3 DEF IsRound
    <3>2. CASE n = root
      BY <1>1, <2>3, <3>2 DEF IsRound
    <3>3. CASE n # root /\ r[n] = d[n]
      BY <2>4, <3>3
    <3>4. ASSUME n # root, NEW e \in Edge, Usable(e), Dst[e] = n,
                 r[n] = d[Src[e]] + Weight(e)
          PROVE  IF n \in visited THEN dist[n] <= r[n] ELSE r[n] = Inf
      <4>1. /\ Src[e] \in Node /\ Weight(e) \in Nat /\ NewDist(e) = dist[Src[e]] + Weight(e)
        BY <1>1, CostType
      <4>2. d[Src[e]] \in 0..Inf /\ dist[Src[e]] \in 0..Inf /\ dist[n] \in 0..Inf
        BY <1>2, <2>3, <4>1
      <4>3. CASE n \in visited
        <5>1. dist[n] <= NewDist(e) /\ dist[Src[e]] <= d[Src[e]]
          BY <1>1, <2>4, <3>4, <4>1, <4>3
        <5>2. QED
          BY <1>1, <3>4, <4>1, <4>2, <4>3, <5>1
      <4>4. CASE n \notin visited
        <5>1. d[Src[e]] = Inf
          BY <1>1, <2>4, <3>4, <4>1, <4>4
        <5>2. QED
          BY <1>1, <3>1, <3>4, <4>1, <4>4, <5>1
      <4>5. QED
        BY <4>3, <4>4
    <3>5. QED
      BY <2>3, <3>2, <3>3, <3>4 DEF IsRound
  <2>6. QED
    BY <2>2, <2>5
<1>5. \A i \in 0..N : i < N /\ i \in S => i + 1 \in S
  <2> HIDE DEF P
  <2>1. QED
    BY <1>1, <1>4
<1>6. 0 \in S
  BY <1>1, <1>3
<1> HIDE DEF S
<1>7. k \in S
  BY <1>1, <1>5, <1>6, EachRound
<1>8. QED
  BY <1>7 DEF S

\* The near nodes whose distance has been found within k rounds.
Found(k) == {n \in Near : ShortestWithin(root)[k][n] <= dist[n]}

\* Each round finds another near node, as long as there is one: a link leads out
\* of those that were found.
LEMMA FoundGrows ==
  ASSUME Settled, NEW k \in 0..Cardinality(Node)
  PROVE  Found(k) = Near \/ Cardinality(Found(k)) >= k + 1
<1> DEFINE N == Cardinality(Node)
           S == {i \in 0..N : Found(i) = Near \/ Cardinality(Found(i)) >= i + 1}
<1>1. /\ TypeOK /\ root \in visited /\ visited \subseteq Node /\ root \in Node
      /\ Inf \in Nat \ {0} /\ N \in Nat /\ dist \in [Node -> 0..Inf] /\ dist[root] = 0
  BY SettledFacts, NetworkAssumption
<1>2. IsFiniteSet(Near) /\ Near \subseteq Node /\ root \in Near
  BY <1>1, NetworkAssumption, FS_Subset DEF Near
<1>3. \A i : Found(i) \subseteq Near /\ IsFiniteSet(Found(i)) /\ Cardinality(Found(i)) \in Nat
  BY <1>2, FS_Subset, FS_CardinalityType DEF Found
<1>4. ShortestWithin(root)[0][root] = 0 /\ root \in Found(0)
  <2>1. ShortestWithin(root)[0] = NoRound(root)
    BY WithinRounds
  <2>2. NoRound(root)[root] = 0
    BY <1>1 DEF NoRound
  <2>3. QED
    BY <1>1, <1>2, <2>1, <2>2 DEF Found
<1>5. 0 \in S
  <2>1. Cardinality(Found(0)) # 0
    BY <1>3, <1>4, FS_EmptySet
  <2>2. Cardinality(Found(0)) >= 0 + 1
    BY <1>3, <2>1
  <2>3. QED
    BY <1>1, <2>2
<1>6. ASSUME NEW i \in 0..N, i < N, i \in S
      PROVE  i + 1 \in S
  <2>1. PICK d : d = ShortestWithin(root)[i]
    OBVIOUS
  <2>2. PICK r : r = ShortestWithin(root)[i + 1]
    OBVIOUS
  <2>3. d \in [Node -> 0..Inf] /\ IsRound(d, r, root)
    BY <1>1, <1>6, <2>1, <2>2, WithinFacts
  <2>4. /\ \A n : n \in Found(i) <=> n \in Near /\ d[n] <= dist[n]
        /\ \A n : n \in Found(i + 1) <=> n \in Near /\ r[n] <= dist[n]
    BY <2>1, <2>2 DEF Found
  <2>5. Found(i) \subseteq Found(i + 1)
    <3>1. ASSUME NEW n \in Found(i)
          PROVE  r[n] <= dist[n]
      <4>1. n \in Node /\ d[n] <= dist[n]
        BY <1>2, <2>4
      <4>2. r[n] <= d[n] \/ (n = root /\ r[n] = 0)
        BY <2>3, <4>1 DEF IsRound
      <4>3. r[n] \in 0..Inf /\ d[n] \in 0..Inf /\ dist[n] \in 0..Inf
        BY <1>1, <2>3, <4>1 DEF IsRound
      <4>4. QED
        BY <1>1, <4>1, <4>2, <4>3
    <3>2. QED
      BY <2>4, <3>1
  <2>6. root \in Found(i + 1)
    BY <1>1, <1>2, <2>3, <2>4 DEF IsRound
  <2>7. CASE Found(i) = Near
    BY <1>1, <1>3, <1>6, <2>5, <2>7
  <2>8. CASE Found(i) # Near
    <3>1. root \in Found(i)
      <4>1. d[root] = 0
        <5>1. CASE i = 0
          BY <1>4, <2>1, <5>1
        <5>2. CASE i # 0
          <6>1. i - 1 \in 0..N /\ i - 1 < N /\ (i - 1) + 1 = i
            BY <1>1, <1>6, <5>2
          <6>2. IsRound(ShortestWithin(root)[i - 1], ShortestWithin(root)[(i - 1) + 1], root)
            BY <1>1, <6>1, WithinFacts
          <6>3. QED
            BY <2>1, <6>1, <6>2 DEF IsRound
        <5>3. QED
          BY <5>1, <5>2
      <4>2. QED
        BY <1>1, <1>2, <2>4, <4>1
    <3>2. PICK e \in Edge : Leads(e) /\ Src[e] \in Found(i) /\ Dst[e] \in Near \ Found(i)
      <4>1. Found(i) \in SUBSET Near
        BY <1>3
      <4>2. CutInv /\ pc = "done" /\ dropped = {}
        BY DEF Settled, Inv
      <4>3. QED
        BY <2>8, <3>1, <4>1, <4>2 DEF CutInv
    <3>3. /\ Src[e] \in Node /\ Dst[e] \in Node /\ Weight(e) \in Nat
          /\ NewDist(e) = dist[Src[e]] + Weight(e)
      BY <1>1, CostType
    <3>4. Usable(e) /\ NewDist(e) <= dist[Dst[e]] /\ Dst[e] # root
      BY <3>1, <3>2 DEF Leads
    <3>5. r[Dst[e]] <= d[Src[e]] + Weight(e) /\ d[Src[e]] <= dist[Src[e]]
      BY <2>3, <2>4, <3>2, <3>4 DEF IsRound
    <3>6. /\ r[Dst[e]] \in 0..Inf /\ d[Src[e]] \in 0..Inf
          /\ dist[Src[e]] \in 0..Inf /\ dist[Dst[e]] \in 0..Inf
      BY <1>1, <2>3, <3>3 DEF IsRound
    <3>7. Dst[e] \in Found(i + 1)
      BY <1>1, <2>4, <3>2, <3>3, <3>4, <3>5, <3>6
    <3>8. Cardinality(Found(i) \cup {Dst[e]}) = Cardinality(Found(i)) + 1
      BY <1>3, <3>2, FS_AddElement
    <3>9. Cardinality(Found(i) \cup {Dst[e]}) <= Cardinality(Found(i + 1))
      BY <1>3, <2>5, <3>7, FS_Subset
    <3>10. Cardinality(Found(i + 1)) >= (i + 1) + 1
      <4>1. Cardinality(Found(i)) >= i + 1
        BY <1>6, <2>8
      <4>2. QED
        BY <1>3, <3>8, <3>9, <4>1
    <3>11. QED
      BY <1>1, <1>6, <3>10
  <2>9. QED
    BY <2>7, <2>8
<1> HIDE DEF S
<1>7. k \in S
  BY <1>1, <1>5, <1>6, EachRound
<1>8. QED
  BY <1>7 DEF S

LEMMA AllFound ==
  ASSUME Settled
  PROVE  Found(Cardinality(Node)) = Near
<1> DEFINE N == Cardinality(Node)
<1>1. N \in Nat /\ N \in 0..N
  BY SettledFacts
<1>2. Found(N) \subseteq Node /\ IsFiniteSet(Node)
  BY SettledFacts, NetworkAssumption DEF Found, Near
<1>3. Cardinality(Found(N)) <= N /\ Cardinality(Found(N)) \in Nat
  BY <1>2, FS_Subset, FS_CardinalityType
<1>4. Found(N) = Near \/ Cardinality(Found(N)) >= N + 1
  BY <1>1, FoundGrows
<1>5. QED
  BY <1>1, <1>3, <1>4

LEMMA InvShortest ==
  Inv => ShortestPaths
<1> SUFFICES ASSUME Settled, NEW n \in Node
             PROVE  IF n \in visited THEN dist[n] = ShortestFrom(root)[n]
                    ELSE ShortestFrom(root)[n] = Inf
  BY DEF Settled, ShortestPaths
<1> DEFINE N == Cardinality(Node)
<1>1. /\ TypeOK /\ root \in Node /\ visited \subseteq Node
      /\ N \in Nat /\ N \in 0..N /\ Inf \in Nat /\ dist[n] \in 0..Inf
  BY SettledFacts
<1>2. PICK d : d = ShortestFrom(root)
  OBVIOUS
<1>3. d = ShortestWithin(root)[N]
  BY <1>2 DEF ShortestFrom
<1>4. d[n] \in 0..Inf
  BY <1>1, <1>3, WithinFacts
<1>5. IF n \in visited THEN dist[n] <= d[n] ELSE d[n] = Inf
  BY <1>1, <1>3, RoundsNotBelow
<1>6. ASSUME n \in visited, dist[n] < Inf
      PROVE  d[n] <= dist[n]
  BY <1>3, <1>6, AllFound DEF Found, Near
<1>7. QED
  BY <1>1, <1>2, <1>4, <1>5, <1>6

\* On every network, links of metric 0, overloaded routers, LANs and LSPs
\* included, a run whose queue refused no node ends with the shortest distance of
\* each node from the root, as Bellman-Ford finds it in the network as it is,
\* whatever earlier runs of other roots left in the fields of the nodes.
THEOREM DistancesAreShortest == Spec => []ShortestPaths
BY Invariance, InvShortest, PTL

-----------------------------------------------------------------------------
(* The records of a run that ended.                                        *)

LEMMA InvTables ==
  ASSUME Pseudo = {}
  PROVE  Inv => TablesExact
<1> SUFFICES ASSUME Inv
             PROVE  TablesExact
  OBVIOUS
<1>1. /\ RecordsCurrent /\ ResultsByDistance /\ SelfResultsLive /\ WithinInv /\ DoneInv
  BY DEF Inv, RecordInv
<1>2. ResultsExact
  <2> SUFFICES ASSUME pc = "done", dropped = {}
               PROVE  /\ \A n \in visited \ Pseudo : dist[n] < Inf =>
                           \E i \in RecordsOf(n) :
                             /\ RecordsOf(n) = {i}
                             /\ result[root][i] = Record(n)
                      /\ \A i \in DOMAIN result[root] :
                           /\ result[root][i].node \in visited
                           /\ result[root][i].metric = dist[result[root][i].node]
    BY DEF ResultsExact
  <2>1. heap = {}
    BY <1>1 DEF DoneInv
  <2>2. ASSUME NEW n \in visited, dist[n] < Inf
        PROVE  \E i \in RecordsOf(n) : RecordsOf(n) = {i} /\ result[root][i] = Record(n)
    <3>1. PICK i \in RecordsOf(n) : TRUE
      BY <1>1, <2>1, <2>2 DEF RecordsCurrent
    <3>2. i \in DOMAIN result[root] /\ result[root][i].node = n
      BY DEF RecordsOf
    <3>3. result[root][i] = Record(n)
      BY <1>1, <2>1, <3>2 DEF RecordsCurrent
    <3>4. \A j \in RecordsOf(n) : j = i
      BY <1>1, <3>2 DEF RecordsCurrent, RecordsOf
    <3>5. QED
      BY <3>1, <3>3, <3>4
  <2>3. ASSUME NEW i \in DOMAIN result[root]
        PROVE  /\ result[root][i].node \in visited
               /\ result[root][i].metric = dist[result[root][i].node]
    BY <1>1 DEF WithinInv, RecordsCurrent
  <2>4. QED
    BY <2>2, <2>3
<1>3. QED
  BY <1>1, <1>2, InvShortest DEF TablesExact

\* On every network of routers a run leaves exactly one record of each reachable
\* router, with its shortest distance and its next hops, sorted by distance, and
\* no pointer to a record of an earlier run, whatever runs and commands came
\* before.  (With a pseudonode it does not: its record replaces that of the router
\* taken before it.)
THEOREM TablesAreExact ==
  ASSUME Pseudo = {}
  PROVE  Spec => []TablesExact
<1>1. Inv => TablesExact
  BY InvTables
<1>2. QED
  BY <1>1, Invariance, PTL
=============================================================================
