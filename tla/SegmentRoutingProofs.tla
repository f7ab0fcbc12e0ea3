------------------------ MODULE SegmentRoutingProofs ------------------------
(***************************************************************************)
(* Tunnels and segment routing on every network: the types, that a tunnel  *)
(* which was not reported as failed leads to its egress for ever, why the  *)
(* program stops, that pings arrive, and that the resolution of SID        *)
(* conflicts leaves none and the same mappings in every order.             *)
(*                                                                         *)
(* Ways are walked a bounded number of steps.  That the bound is enough is *)
(* no induction over ways: a way that does not end passes a router twice,  *)
(* and the routers of the circle are a set the labels do not lead out of.  *)
(***************************************************************************)
EXTENDS SegmentRouting, FiniteSetTheorems, SequenceLemmas

LEMMA MinFacts ==
  ASSUME NEW S \in SUBSET Nat, S # {}
  PROVE  Min(S) \in S /\ \A y \in S : Min(S) <= y
BY LeastExists DEF Min

-----------------------------------------------------------------------------
(* The distances to a router.                                              *)

Linked(u, n) == {m \in Node : {<<n, m>>, <<m, n>>} \subseteq u}

LEMMA LinkFacts ==
  ASSUME NEW u \in SUBSET Directed, NEW n, NEW m, <<n, m>> \in u
  PROVE  n \in Node /\ m \in Node /\ n # m /\ Metric[{n, m}] \in Nat \ {0}
<1>1. PICK l \in DOMAIN Metric : <<n, m>> \in l \X l /\ n # m
  BY DEF Directed
<1>2. PICK a \in Node, b \in Node : a # b /\ l = {a, b}
  BY LabelConstants
<1>3. l = {n, m}
  BY <1>1, <1>2
<1>4. Metric[l] \in Nat \ {0}
  BY LabelConstants
<1>5. QED
  BY <1>1, <1>2, <1>3, <1>4

NoLink(e) == [n \in Node |-> IF n = e THEN 0 ELSE Inf]

\* r are the distances to e over one link of u more than those of d.
IsShortened(d, r, e, u) ==
  /\ r \in [Node -> 0..Inf]
  /\ r[e] = 0
  /\ \A n \in Node \ {e} : r[n] <= d[n]
  /\ \A n \in Node \ {e} : \A m \in Linked(u, n) : r[n] <= Metric[{n, m}] + d[m]
  /\ \A n \in Node \ {e} : \/ r[n] = d[n]
                           \/ \E m \in Linked(u, n) : r[n] = Metric[{n, m}] + d[m]

LEMMA ShortenedFacts ==
  ASSUME NEW u \in SUBSET Directed, NEW e \in Node, NEW d \in [Node -> 0..Inf]
  PROVE  IsShortened(d, Shortened(d, e, u), e, u)
<1> DEFINE Over(n) == {Metric[{n, m}] + d[m] : m \in Linked(u, n)}
           g == [n \in Node |-> Min({d[n]} \cup Over(n))]
<1>1. PICK r : r = Shortened(d, e, u)
  OBVIOUS
<1>2. r = [g EXCEPT ![e] = 0]
  BY <1>1 DEF Shortened, Linked
<1>3. Inf \in Nat /\ \A n \in Node : d[n] \in 0..Inf
  BY LabelConstants
<1>4. \A n \in Node : \A m \in Linked(u, n) : Metric[{n, m}] \in Nat \ {0} /\ m \in Node
  BY LinkFacts DEF Linked
<1>5. ASSUME NEW n \in Node
      PROVE  /\ g[n] \in 0..Inf /\ g[n] <= d[n]
             /\ \A m \in Linked(u, n) : g[n] <= Metric[{n, m}] + d[m]
             /\ \/ g[n] = d[n]
                \/ \E m \in Linked(u, n) : g[n] = Metric[{n, m}] + d[m]
  <2> DEFINE S == {d[n]} \cup Over(n)
  <2>0. d[n] \in Nat /\ \A m \in Linked(u, n) : Metric[{n, m}] + d[m] \in Nat
    BY <1>3, <1>4
  <2>1. S \in SUBSET Nat /\ S # {}
    BY <2>0
  <2>2. g[n] = Min(S)
    OBVIOUS
  <2>3. d[n] \in S /\ \A m \in Linked(u, n) : Metric[{n, m}] + d[m] \in S
    OBVIOUS
  <2>4. \A x \in S : x = d[n] \/ \E m \in Linked(u, n) : x = Metric[{n, m}] + d[m]
    OBVIOUS
  <2> HIDE DEF S, g
  <2>5. g[n] \in S /\ \A x \in S : g[n] <= x
    BY <2>1, <2>2, MinFacts
  <2>6. g[n] \in Nat /\ g[n] <= d[n] /\ d[n] \in 0..Inf
    BY <1>3, <2>1, <2>3, <2>5
  <2>7. g[n] \in 0..Inf
    BY <1>3, <2>6
  <2>8. QED
    BY <2>3, <2>4, <2>5, <2>6, <2>7
<1>6. g = [n \in Node |-> g[n]]
  OBVIOUS
<1> HIDE DEF g, Over
<1>7. /\ r[e] = 0 /\ \A n \in Node \ {e} : r[n] = g[n]
      /\ r \in [Node -> 0..Inf]
  <2>1. g \in [Node -> 0..Inf]
    BY <1>5, <1>6
  <2>2. 0 \in 0..Inf
    BY <1>3
  <2>3. QED
    BY <1>2, <2>1, <2>2
<1>8. QED
  BY <1>1, <1>5, <1>7 DEF IsShortened

\* The distances over more and more links are distances, each from the one before.
LEMMA WithinFacts ==
  ASSUME NEW u \in SUBSET Directed, NEW e \in Node
  PROVE  /\ DistancesWithin(u, e)[0] = NoLink(e)
         /\ \A k \in 0..Cardinality(Node) : DistancesWithin(u, e)[k] \in [Node -> 0..Inf]
         /\ \A k \in 0..Cardinality(Node) : k < Cardinality(Node) =>
              IsShortened(DistancesWithin(u, e)[k], DistancesWithin(u, e)[k + 1], e, u)
<1> DEFINE N == Cardinality(Node)
           D == [Node -> 0..Inf]
           step == [d \in D |-> Shortened(d, e, u)]
           Within(f) == [k \in 0..N |-> IF k = 0 THEN NoLink(e) ELSE Shortened(f[k - 1], e, u)]
           w == CHOOSE f : f = Within(f)
           S == {k \in 0..N : w[k] \in D}
<1>1. N \in Nat /\ Inf \in Nat
  BY LabelConstants, FS_CardinalityType
<1>2. DistancesWithin(u, e) = w
  BY DEF DistancesWithin, NoLink
<1>3. NoLink(e) \in D
  BY <1>1 DEF NoLink
<1>4. \A d \in D : Shortened(d, e, u) \in D /\ IsShortened(d, Shortened(d, e, u), e, u)
  BY ShortenedFacts DEF IsShortened
<1>5. \E f : f = Within(f)
  <2>1. step \in [D -> D]
    BY <1>4
  <2>2. \A d \in D : step[d] = Shortened(d, e, u)
    OBVIOUS
  <2> HIDE DEF D, step
  <2>3. PICK f : Repeats(f, N, D, NoLink(e), step)
    BY <1>1, <1>3, <2>1, RepeatExists
  <2>4. \A k \in 0..N : k # 0 => f[k - 1] \in D
    BY <1>1, <2>3 DEF Repeats
  <2>5. f = Within(f)
    BY <2>2, <2>3, <2>4 DEF Repeats
  <2>6. QED
    BY <2>5
<1>6. w = Within(w)
  BY <1>5
<1> HIDE DEF w
<1>7. w[0] = NoLink(e)
  BY <1>1, <1>6
<1>8. ASSUME NEW k \in 0..N, k < N, w[k] \in D
      PROVE  w[k + 1] \in D /\ IsShortened(w[k], w[k + 1], e, u)
  <2>1. k + 1 \in 0..N /\ k + 1 # 0 /\ (k + 1) - 1 = k
    BY <1>1, <1>8
  <2>2. w[k + 1] = Shortened(w[k], e, u)
    BY <1>6, <2>1
  <2>3. QED
    BY <1>4, <1>8, <2>2
<1>9. 0 \in S /\ \A k \in 0..N : k < N /\ k \in S => k + 1 \in S
  <2> HIDE DEF D
  <2>1. QED
    BY <1>1, <1>3, <1>7, <1>8
<1> HIDE DEF S
<1>10. \A k \in 0..N : k \in S
  BY <1>1, <1>9, EachRound
<1>11. QED
  BY <1>2, <1>7, <1>8, <1>10 DEF S

\* More links make no distance longer.
LEMMA LastIsLeast ==
  ASSUME NEW u \in SUBSET Directed, NEW e \in Node, NEW k \in 0..Cardinality(Node), NEW n \in Node
  PROVE  /\ DistanceOver(u, e)[n] <= DistancesWithin(u, e)[k][n]
         /\ DistanceOver(u, e)[n] \in 0..Inf /\ DistancesWithin(u, e)[k][n] \in 0..Inf
         /\ DistancesWithin(u, e)[k][e] = 0
<1> DEFINE N == Cardinality(Node)
           w(i) == DistancesWithin(u, e)[i]
           S == {j \in 0..N : w(N)[n] <= w(N - j)[n]}
<1>1. N \in Nat /\ Inf \in Nat
  BY LabelConstants, FS_CardinalityType
<1>2. \A i \in 0..N : w(i) \in [Node -> 0..Inf]
  BY WithinFacts
<1>3. \A i \in 0..N : i < N => IsShortened(w(i), w(i + 1), e, u)
  BY WithinFacts
<1>4. w(0)[e] = 0
  <2>1. w(0) = NoLink(e)
    BY WithinFacts
  <2>2. QED
    BY <2>1 DEF NoLink
<1> HIDE DEF w
<1>5. \A i \in 0..N : w(i)[n] \in 0..Inf
  BY <1>2
<1>6. \A i \in 0..N : w(i)[e] = 0
  <2> SUFFICES ASSUME NEW i \in 0..N, i # 0
               PROVE  w(i)[e] = 0
    BY <1>4
  <2>1. i - 1 \in 0..N /\ i - 1 < N /\ (i - 1) + 1 = i
    BY <1>1
  <2>2. QED
    BY <1>3, <2>1 DEF IsShortened
<1>7. 0 \in S
  BY <1>1, <1>5
<1>8. ASSUME NEW j \in 0..N, j < N, j \in S
      PROVE  j + 1 \in S
  <2>1. /\ N - j \in 0..N /\ N - (j + 1) \in 0..N /\ N - (j + 1) < N
        /\ (N - (j + 1)) + 1 = N - j
    BY <1>1, <1>8
  <2>2. IsShortened(w(N - (j + 1)), w(N - j), e, u)
    BY <1>3, <2>1
  <2>3. w(N - j)[n] <= w(N - (j + 1))[n]
    <3>1. CASE n = e
      BY <1>1, <1>6, <2>1, <3>1
    <3>2. CASE n # e
      BY <2>2, <3>2 DEF IsShortened
    <3>3. QED
      BY <3>1, <3>2
  <2>4. w(N)[n] <= w(N - j)[n] /\ N \in 0..N
    BY <1>1, <1>8
  <2>5. w(N)[n] <= w(N - (j + 1))[n]
    BY <1>1, <1>5, <2>1, <2>3, <2>4
  <2>6. j + 1 \in 0..N
    BY <1>1, <1>8
  <2>7. QED
    BY <2>5, <2>6
<1> HIDE DEF S
<1>9. \A j \in 0..N : j \in S
  BY <1>1, <1>7, <1>8, EachRound
<1>10. N - k \in 0..N /\ N - (N - k) = k /\ N \in 0..N
  BY <1>1
<1>11. w(N)[n] <= w(k)[n]
  BY <1>9, <1>10 DEF S
<1>12. QED
  BY <1>5, <1>6, <1>10, <1>11 DEF w, DistanceOver

\* A distance comes over a link.
LEMMA BorneOut ==
  ASSUME NEW u \in SUBSET Directed, NEW e \in Node, NEW k \in 0..Cardinality(Node)
  PROVE  \A n \in Node \ {e} :
           \/ DistancesWithin(u, e)[k][n] = Inf
           \/ \E m \in Linked(u, n) :
                DistancesWithin(u, e)[k][n] >= Metric[{n, m}] + DistancesWithin(u, e)[k][m]
<1> DEFINE N == Cardinality(Node)
           w(i) == DistancesWithin(u, e)[i]
           P(i) == \A n \in Node \ {e} :
                     \/ w(i)[n] = Inf
                     \/ \E m \in Linked(u, n) : w(i)[n] >= Metric[{n, m}] + w(i)[m]
           S == {i \in 0..N : P(i)}
<1>1. N \in Nat /\ Inf \in Nat
  BY LabelConstants, FS_CardinalityType
<1>2. \A i \in 0..N : \A n \in Node : w(i)[n] \in 0..Inf
  BY LastIsLeast
<1>3. P(0)
  <2>1. w(0) = NoLink(e)
    BY WithinFacts
  <2>2. \A n \in Node \ {e} : w(0)[n] = Inf
    BY <2>1 DEF NoLink
  <2>3. QED
    BY <2>2
<1>4. ASSUME NEW i \in 0..N, i < N, P(i)
      PROVE  P(i + 1)
  <2>1. PICK d : d = w(i)
    OBVIOUS
  <2>2. PICK r : r = w(i + 1)
    OBVIOUS
  <2>3. IsShortened(d, r, e, u)
    BY <1>4, <2>1, <2>2, WithinFacts
  <2>4. i + 1 \in 0..N
    BY <1>1, <1>4
  <2>5. \A m \in Node : r[m] \in 0..Inf /\ d[m] \in 0..Inf
    BY <1>2, <2>1, <2>2, <2>4
  <2>6. \A m \in Node : r[m] <= d[m]
    <3>1. d[e] = 0 /\ r[e] = 0
      BY <2>1, <2>2, <2>4, LastIsLeast
    <3>2. QED
      BY <1>1, <2>3, <2>5, <3>1 DEF IsShortened
  <2>7. ASSUME NEW n \in Node \ {e}
        PROVE  r[n] = Inf \/ \E m \in Linked(u, n) : r[n] >= Metric[{n, m}] + r[m]
    <3>1. \A m \in Linked(u, n) : m \in Node /\ Metric[{n, m}] \in Nat
      BY LinkFacts DEF Linked
    <3>2. CASE r[n] = d[n]
      <4>1. CASE d[n] = Inf
        BY <3>2, <4>1
      <4>2. CASE d[n] # Inf
        <5>1. PICK m \in Linked(u, n) : d[n] >= Metric[{n, m}] + d[m]
          BY <1>4, <2>1, <4>2
        <5>2. /\ r[m] <= d[m] /\ r[m] \in 0..Inf /\ d[m] \in 0..Inf
              /\ Metric[{n, m}] \in Nat /\ r[n] \in 0..Inf
          BY <2>5, <2>6, <3>1
        <5>3. r[n] >= Metric[{n, m}] + r[m]
          BY <1>1, <3>2, <5>1, <5>2
        <5>4. QED
          BY <5>3
      <4>3. QED
        BY <4>1, <4>2
    <3>3. CASE \E m \in Linked(u, n) : r[n] = Metric[{n, m}] + d[m]
      <4>1. PICK m \in Linked(u, n) : r[n] = Metric[{n, m}] + d[m]
        BY <3>3
      <4>2. r[n] >= Metric[{n, m}] + r[m]
        BY <1>1, <2>5, <2>6, <3>1, <4>1
      <4>3. QED
        BY <4>2
    <3>4. QED
      BY <2>3, <3>2, <3>3 DEF IsShortened
  <2>8. QED
    BY <2>2, <2>7
<1> HIDE DEF P
<1>5. 0 \in S
  BY <1>1, <1>3
<1>6. \A i \in 0..N : i < N /\ i \in S => i + 1 \in S
  BY <1>1, <1>4
<1> HIDE DEF S
<1>7. k \in S
  BY <1>1, <1>5, <1>6, EachRound
<1>8. QED
  BY <1>7 DEF S, P

\* The routers whose distance is found over at most k links.
Settled(u, e, k) == {n \in Node : DistancesWithin(u, e)[k][n] <= DistanceOver(u, e)[n]}

\* A link more settles another router: of those not settled the nearest.
LEMMA SettledGrows ==
  ASSUME NEW u \in SUBSET Directed, NEW e \in Node, NEW k \in 0..Cardinality(Node),
         k < Cardinality(Node), Settled(u, e, k) # Node
  PROVE  \E n \in Node : n \notin Settled(u, e, k) /\ Settled(u, e, k) \cup {n} \subseteq Settled(u, e, k + 1)
<1> DEFINE N == Cardinality(Node)
<1>1. PICK d : d = DistancesWithin(u, e)[k]
  OBVIOUS
<1>2. PICK r : r = DistancesWithin(u, e)[k + 1]
  OBVIOUS
<1>3. PICK l : l = DistanceOver(u, e)
  OBVIOUS
<1>4. N \in Nat /\ Inf \in Nat /\ k + 1 \in 0..N /\ N \in 0..N
  BY LabelConstants, FS_CardinalityType
<1>5. IsShortened(d, r, e, u)
  BY <1>1, <1>2, WithinFacts
<1>6. \A n \in Node : /\ d[n] \in 0..Inf /\ r[n] \in 0..Inf /\ l[n] \in 0..Inf
                      /\ l[n] <= d[n] /\ l[n] <= r[n]
  BY <1>1, <1>2, <1>3, <1>4, LastIsLeast
<1>7. d[e] = 0 /\ r[e] = 0 /\ l[e] = 0
  BY <1>1, <1>2, <1>3, <1>4, LastIsLeast DEF DistanceOver
<1>8. /\ \A n : n \in Settled(u, e, k) <=> n \in Node /\ d[n] <= l[n]
      /\ \A n : n \in Settled(u, e, k + 1) <=> n \in Node /\ r[n] <= l[n]
  BY <1>1, <1>2, <1>3 DEF Settled
<1>9. PICK n \in Node : d[n] > l[n] /\ \A m \in Node : d[m] > l[m] => l[n] <= l[m]
  <2> DEFINE T == {l[m] : m \in {x \in Node : d[x] > l[x]}}
  <2>1. T \in SUBSET Nat
    BY <1>4, <1>6
  <2>2. PICK x \in Node : ~(d[x] <= l[x])
    BY <1>8
  <2>3. d[x] > l[x]
    BY <1>4, <1>6, <2>2
  <2>4. T # {}
    BY <2>3
  <2> HIDE DEF T
  <2>5. PICK t \in T : \A y \in T : t <= y
    BY <2>1, <2>4, LeastExists
  <2>6. QED
    BY <2>5 DEF T
<1>10. n # e /\ l[n] # Inf
  BY <1>4, <1>6, <1>7, <1>9
<1>11. PICK m \in Linked(u, n) : l[n] >= Metric[{n, m}] + l[m]
  BY <1>3, <1>4, <1>10, BorneOut DEF DistanceOver
<1>12. m \in Node /\ Metric[{n, m}] \in Nat \ {0}
  BY LinkFacts DEF Linked
<1>13. ~(l[n] <= l[m])
  BY <1>4, <1>6, <1>11, <1>12
<1>14. ~(d[m] > l[m])
  BY <1>9, <1>12, <1>13
<1>15. d[m] = l[m]
  BY <1>4, <1>6, <1>12, <1>14
<1>16. r[n] <= Metric[{n, m}] + d[m]
  BY <1>5, <1>10, <1>11 DEF IsShortened
<1>17. r[n] <= l[n]
  BY <1>4, <1>6, <1>11, <1>12, <1>15, <1>16
<1>18. \A x \in Node : r[x] <= d[x]
  BY <1>4, <1>5, <1>6, <1>7 DEF IsShortened
<1>19. \A x \in Node : d[x] <= l[x] => r[x] <= l[x]
  BY <1>4, <1>6, <1>18
<1>20. n \notin Settled(u, e, k)
  BY <1>4, <1>6, <1>8, <1>9
<1>21. QED
  BY <1>8, <1>17, <1>19, <1>20

LEMMA AllSettled ==
  ASSUME NEW u \in SUBSET Directed, NEW e \in Node
  PROVE  /\ Cardinality(Node) - 1 \in 0..Cardinality(Node)
         /\ Settled(u, e, Cardinality(Node) - 1) = Node
<1> DEFINE N == Cardinality(Node)
           P(k) == Settled(u, e, k) = Node \/ Cardinality(Settled(u, e, k)) >= k + 1
           S == {k \in 0..N : k < N => P(k)}
<1>1. IsFiniteSet(Node) /\ N \in Nat /\ Inf \in Nat /\ N # 0
  BY LabelConstants, FS_CardinalityType, FS_EmptySet
<1>2. \A k : Settled(u, e, k) \in SUBSET Node
  BY DEF Settled
<1>3. \A k : IsFiniteSet(Settled(u, e, k)) /\ Cardinality(Settled(u, e, k)) \in Nat
  BY <1>1, <1>2, FS_Subset, FS_CardinalityType
<1>4. P(0)
  <2>1. 0 \in 0..N /\ N \in 0..N
    BY <1>1
  <2>2. DistancesWithin(u, e)[0][e] = 0 /\ DistanceOver(u, e)[e] = 0
    BY <2>1, LastIsLeast DEF DistanceOver
  <2>3. e \in Settled(u, e, 0)
    BY <2>2 DEF Settled
  <2>4. Cardinality(Settled(u, e, 0)) # 0
    BY <1>3, <2>3, FS_EmptySet
  <2>5. QED
    BY <1>3, <2>4
<1>5. ASSUME NEW k \in 0..N, k < N, k \in S
      PROVE  k + 1 \in S
  <2>0. k + 1 \in 0..N
    BY <1>1, <1>5
  <2> SUFFICES ASSUME k + 1 < N
               PROVE  P(k + 1)
    BY <2>0
  <2>1. P(k)
    BY <1>5
  <2>2. CASE Settled(u, e, k) = Node
    <3>1. PICK d : d = DistancesWithin(u, e)[k]
      OBVIOUS
    <3>2. PICK r : r = DistancesWithin(u, e)[k + 1]
      OBVIOUS
    <3>3. IsShortened(d, r, e, u)
      BY <1>5, <3>1, <3>2, WithinFacts
    <3>4. \A n \in Node : d[n] <= DistanceOver(u, e)[n]
      BY <2>2, <3>1 DEF Settled
    <3>5. \A n \in Node : d[n] \in 0..Inf /\ r[n] \in 0..Inf /\ DistanceOver(u, e)[n] \in 0..Inf
      BY <2>0, <3>1, <3>2, LastIsLeast
    <3>6. \A n \in Node : r[n] <= d[n]
      <4>1. d[e] = 0 /\ r[e] = 0
        BY <2>0, <3>1, <3>2, LastIsLeast
      <4>2. QED
        BY <1>1, <3>3, <3>5, <4>1 DEF IsShortened
    <3>7. \A n \in Node : r[n] <= DistanceOver(u, e)[n]
      BY <1>1, <3>4, <3>5, <3>6
    <3>8. QED
      BY <3>2, <3>7 DEF Settled
  <2>3. CASE Settled(u, e, k) # Node
    <3>1. PICK n \in Node : /\ n \notin Settled(u, e, k)
                            /\ Settled(u, e, k) \cup {n} \subseteq Settled(u, e, k + 1)
      BY <1>5, <2>3, SettledGrows
    <3>2. Cardinality(Settled(u, e, k) \cup {n}) = Cardinality(Settled(u, e, k)) + 1
      BY <1>3, <3>1, FS_AddElement
    <3>3. Cardinality(Settled(u, e, k) \cup {n}) <= Cardinality(Settled(u, e, k + 1))
      BY <1>3, <3>1, FS_Subset
    <3>4. Cardinality(Settled(u, e, k + 1)) >= (k + 1) + 1
      BY <1>3, <2>1, <2>3, <3>2, <3>3
    <3>5. QED
      BY <3>4
  <2>4. QED
    BY <2>2, <2>3
<1> HIDE DEF P
<1>6. 0 \in S
  BY <1>1, <1>4
<1> HIDE DEF S
<1>7. \A k \in 0..N : k \in S
  BY <1>1, <1>5, <1>6, EachRound
<1>8. N - 1 \in 0..N /\ N - 1 < N
  BY <1>1
<1>9. P(N - 1)
  BY <1>7, <1>8 DEF S
<1>10. CASE Cardinality(Settled(u, e, N - 1)) >= (N - 1) + 1
  <2>1. Cardinality(Settled(u, e, N - 1)) <= N
    BY <1>1, <1>2, FS_Subset
  <2>2. Cardinality(Settled(u, e, N - 1)) = N
    BY <1>1, <1>3, <1>10, <2>1
  <2>3. Settled(u, e, N - 1) = Node
    BY <1>1, <1>2, <2>2, FS_Subset
  <2>4. QED
    BY <1>8, <2>3
<1>11. QED
  BY <1>8, <1>9, <1>10 DEF P

\* d are the distances to e: none can be shortened, and each comes over a link.
AreDistances(d, e, u) ==
  /\ d \in [Node -> 0..Inf]
  /\ d[e] = 0
  /\ \A n \in Node \ {e} : \A m \in Linked(u, n) : d[n] <= Metric[{n, m}] + d[m]
  /\ \A n \in Node \ {e} : \/ d[n] = Inf
                           \/ \E m \in Linked(u, n) : d[n] = Metric[{n, m}] + d[m]

LEMMA DistanceFacts ==
  ASSUME NEW u \in SUBSET Directed, NEW e \in Node
  PROVE  AreDistances(DistanceOver(u, e), e, u)
<1> DEFINE N == Cardinality(Node)
<1>1. PICK d : d = DistancesWithin(u, e)[N - 1]
  OBVIOUS
<1>2. PICK l : l = DistanceOver(u, e)
  OBVIOUS
<1>3. /\ N \in Nat /\ Inf \in Nat /\ N - 1 \in 0..N /\ N \in 0..N /\ N - 1 < N
      /\ (N - 1) + 1 = N
  <2>1. N \in Nat /\ Inf \in Nat
    BY LabelConstants, FS_CardinalityType
  <2>2. N - 1 \in 0..N
    BY AllSettled
  <2>3. QED
    BY <2>1, <2>2
<1>4. IsShortened(d, l, e, u)
  BY <1>1, <1>2, <1>3, WithinFacts DEF DistanceOver
<1>5. \A n \in Node : l[n] \in 0..Inf /\ d[n] \in 0..Inf /\ l[n] <= d[n]
  BY <1>1, <1>2, <1>3, LastIsLeast
<1>6. \A n \in Node : d[n] <= l[n]
  BY <1>1, <1>2, AllSettled DEF Settled
<1>7. \A n \in Node : d[n] = l[n]
  BY <1>3, <1>5, <1>6
<1>8. \A n \in Node \ {e} : l[n] = Inf \/ \E m \in Linked(u, n) : l[n] >= Metric[{n, m}] + l[m]
  BY <1>2, <1>3, BorneOut DEF DistanceOver
<1>9. ASSUME NEW n \in Node \ {e}, NEW m \in Linked(u, n)
      PROVE  /\ l[n] <= Metric[{n, m}] + l[m]
             /\ l[n] >= Metric[{n, m}] + l[m] => l[n] = Metric[{n, m}] + l[m]
  <2>1. m \in Node /\ Metric[{n, m}] \in Nat
    BY LinkFacts DEF Linked
  <2>2. l[n] <= Metric[{n, m}] + d[m]
    BY <1>4 DEF IsShortened
  <2>3. QED
    BY <1>3, <1>5, <1>7, <2>1, <2>2
<1>10. l \in [Node -> 0..Inf] /\ l[e] = 0
  BY <1>4 DEF IsShortened
<1>11. DistanceOver(u, e) = l
  BY <1>2 DEF DistanceOver
<1>12. QED
  BY <1>8, <1>9, <1>10, <1>11 DEF AreDistances

-----------------------------------------------------------------------------
(* Routes.                                                                 *)

\* The networks that a change of status leads to.
LEMMA Networks ==
  ASSUME NEW u \in DOMAIN Distances
  PROVE  /\ u \in SUBSET Directed
         /\ \A l \in Flaky : u \ {l} \in DOMAIN Distances /\ u \cup {l} \in DOMAIN Distances
<1>1. DOMAIN Distances = {Directed \ down : down \in SUBSET Flaky}
  BY DEF Distances
<1>2. PICK down \in SUBSET Flaky : u = Directed \ down
  BY <1>1
<1>3. ASSUME NEW l \in Flaky
      PROVE  u \ {l} \in DOMAIN Distances /\ u \cup {l} \in DOMAIN Distances
  <2>1. u \ {l} = Directed \ (down \cup {l}) /\ down \cup {l} \in SUBSET Flaky
    BY <1>2
  <2>2. u \cup {l} = Directed \ (down \ {l}) /\ down \ {l} \in SUBSET Flaky
    BY <1>2, LabelConstants
  <2>3. QED
    BY <1>1, <2>1, <2>2
<1>4. QED
  BY <1>2, <1>3

\* A route leads over a link that is up to a router which is nearer.
LeadsNearer(n, m, e) ==
  /\ <<n, m>> \in up /\ m \in Node /\ n # e
  /\ Distance(e)[m] \in Nat /\ Distance(e)[n] \in Nat
  /\ Distance(e)[m] < Distance(e)[n]

LEMMA RouteFacts ==
  ASSUME up \in DOMAIN Distances, NEW n \in Node, NEW e \in Node, NEW old
  PROVE  /\ RouteTo(n, e, old) \in Node \cup {None, Local}
         /\ RouteTo(n, e, old) \in Node => LeadsNearer(n, RouteTo(n, e, old), e)
         /\ Distance(e)[n] \in Nat
         /\ n # e /\ Distance(e)[n] < Inf =>
              RouteTo(n, e, old) \in Node /\ RouteTo(n, e, old) = RouteTo(n, e, None)
<1>1. up \in SUBSET Directed /\ Inf \in Nat /\ None \notin Node /\ Local \notin Node
  BY Networks, LabelConstants
<1>2. PICK d : d = Distance(e)
  OBVIOUS
<1>3. AreDistances(d, e, up)
  BY <1>1, <1>2, DistanceFacts DEF Distance, Distances
<1>4. \A m \in Node : d[m] \in 0..Inf
  BY <1>3 DEF AreDistances
<1>5. CASE n # e /\ d[n] < Inf
  <2>1. PICK m \in Linked(up, n) : d[n] = Metric[{n, m}] + d[m]
    BY <1>1, <1>3, <1>4, <1>5 DEF AreDistances
  <2>2. m \in Node /\ Adjacent(n, m)
    BY <2>1 DEF Linked, Adjacent
  <2> DEFINE nearer == CHOOSE x \in Node : Adjacent(n, x) /\ d[n] = Metric[{n, x}] + d[x]
  <2>3. RouteTo(n, e, old) = nearer /\ RouteTo(n, e, None) = nearer
    BY <1>2, <1>5 DEF RouteTo
  <2>4. PICK x : x = RouteTo(n, e, old)
    OBVIOUS
  <2>5. x \in Node /\ Adjacent(n, x) /\ d[n] = Metric[{n, x}] + d[x]
    BY <2>1, <2>2, <2>3, <2>4
  <2>6. <<n, x>> \in up
    BY <2>5 DEF Adjacent
  <2>7. Metric[{n, x}] \in Nat \ {0}
    BY <1>1, <2>6, LinkFacts
  <2>8. d[x] < d[n] /\ d[x] \in Nat /\ d[n] \in Nat
    BY <1>1, <1>4, <2>5, <2>7
  <2>9. RouteTo(n, e, old) = RouteTo(n, e, None)
    BY <2>3
  <2>10. QED
    BY <1>2, <1>5, <2>4, <2>5, <2>6, <2>8, <2>9 DEF LeadsNearer
<1>6. CASE ~(n # e /\ d[n] < Inf)
  BY <1>1, <1>2, <1>4, <1>6 DEF RouteTo
<1>7. QED
  BY <1>5, <1>6

-----------------------------------------------------------------------------
(* Ways.                                                                   *)

\* next leads from n to e: n is in every set of routers that holds e and each router
\* next leads into the set from.
Carries(next, e, n) ==
  \A A \in SUBSET Node : e \in A /\ (\A m \in Node : next[m] \in A => m \in A) => n \in A

\* The routers from one of the way x on, which next does not lead out of.
IsCircle(C, next, x) ==
  /\ x[0] \in C
  /\ \A n \in C : next[n] \in C /\ \E k \in 0..Cardinality(Node) : x[k] = n

\* A way of as many steps as there are routers.
IsWay(next, x) ==
  /\ x \in [0..Cardinality(Node) -> Node]
  /\ \A k \in 0..Cardinality(Node) : k < Cardinality(Node) => x[k + 1] = next[x[k]]

\* A way with as many steps as there are routers passes one of them twice, or it is at
\* its end.  From the second of the two on it is a circle, which next does not lead
\* out of.
LEMMA Circle ==
  ASSUME NEW next, NEW x, IsWay(next, x)
  PROVE  \E C \in SUBSET Node : IsCircle(C, next, x)
<1> DEFINE N == Cardinality(Node)
<1>0. x \in [0..N -> Node] /\ \A k \in 0..N : k < N => x[k + 1] = next[x[k]]
  BY DEF IsWay
<1>1. IsFiniteSet(Node) /\ N \in Nat
  BY LabelConstants, FS_CardinalityType
<1>2. PICK i \in 0..N, j \in 0..N : i < j /\ x[i] = x[j]
  <2>1. IsFiniteSet(0..N) /\ Cardinality(0..N) = N + 1
    BY <1>1, FS_Interval
  <2>2. PICK a \in 0..N, b \in 0..N : a # b /\ x[a] = x[b]
    BY <1>0, <1>1, <2>1, FS_PigeonHole
  <2>3. a < b \/ b < a
    BY <1>1, <2>2
  <2>4. QED
    BY <2>2, <2>3
<1>3. PICK C : C = {x[k] : k \in 0..(j - 1)}
  OBVIOUS
<1>4. \A k \in 0..(j - 1) : k \in 0..N /\ k < N /\ k + 1 \in 0..j
  BY <1>1, <1>2
<1>5. C \in SUBSET Node /\ x[0] \in C
  BY <1>0, <1>1, <1>2, <1>3, <1>4
<1>6. ASSUME NEW n \in C
      PROVE  next[n] \in C /\ \E k \in 0..N : x[k] = n
  <2>1. PICK k \in 0..(j - 1) : n = x[k]
    BY <1>3
  <2>2. next[n] = x[k + 1]
    BY <1>0, <1>4, <2>1
  <2>3. CASE k + 1 = j
    <3>1. i \in 0..(j - 1)
      BY <1>1, <1>2
    <3>2. next[n] = x[i]
      BY <1>2, <2>2, <2>3
    <3>3. QED
      BY <1>3, <1>4, <2>1, <3>1, <3>2
  <2>4. CASE k + 1 # j
    <3>1. k + 1 \in 0..(j - 1)
      BY <1>1, <1>2, <2>4
    <3>2. QED
      BY <1>3, <1>4, <2>1, <2>2, <3>1
  <2>5. QED
    BY <2>3, <2>4
<1>7. QED
  BY <1>5, <1>6 DEF IsCircle

\* A way that is long enough meets the router it is carried to.
LEMMA CarriedArrives ==
  ASSUME NEW next, NEW e \in Node, NEW x, IsWay(next, x), Carries(next, e, x[0])
  PROVE  \E k \in 0..Cardinality(Node) : x[k] = e
<1> SUFFICES ASSUME \A k \in 0..Cardinality(Node) : x[k] # e
             PROVE  FALSE
  OBVIOUS
<1>1. PICK C \in SUBSET Node : IsCircle(C, next, x)
  BY Circle
<1>2. Node \ C \in SUBSET Node /\ e \in Node \ C
  BY <1>1 DEF IsCircle
<1>3. \A m \in Node : next[m] \in Node \ C => m \in Node \ C
  BY <1>1 DEF IsCircle
<1>4. x[0] \in Node \ C
  BY <1>2, <1>3 DEF Carries
<1>5. QED
  BY <1>1, <1>4 DEF IsCircle

\* Behind a router that is carried to e comes another one.
LEMMA CarriedOn ==
  ASSUME NEW next, NEW e \in Node, NEW n \in Node, n # e, Carries(next, e, n)
  PROVE  next[n] \in Node /\ Carries(next, e, next[n])
<1>1. next[n] \in Node
  <2> SUFFICES ASSUME next[n] \notin Node
               PROVE  FALSE
    OBVIOUS
  <2>1. Node \ {n} \in SUBSET Node /\ e \in Node \ {n}
    OBVIOUS
  <2>2. \A m \in Node : next[m] \in Node \ {n} => m \in Node \ {n}
    OBVIOUS
  <2>3. n \in Node \ {n}
    BY <2>1, <2>2 DEF Carries
  <2>4. QED
    BY <2>3
<1>2. ASSUME NEW A \in SUBSET Node, e \in A, \A m \in Node : next[m] \in A => m \in A
      PROVE  next[n] \in A
  <2> SUFFICES ASSUME next[n] \notin A
               PROVE  FALSE
    OBVIOUS
  <2>1. A \ {n} \in SUBSET Node /\ e \in A \ {n}
    BY <1>2
  <2>2. \A m \in Node : next[m] \in A \ {n} => m \in A \ {n}
    BY <1>2
  <2>3. n \in A \ {n}
    BY <2>1, <2>2 DEF Carries
  <2>4. QED
    BY <2>3
<1>3. QED
  BY <1>1, <1>2 DEF Carries

\* More labels carry as far as fewer.
LEMMA CarriedStill ==
  ASSUME NEW old, NEW new, NEW e \in Node, NEW n, Carries(old, e, n),
         \A m \in Node : old[m] \in Node => new[m] = old[m]
  PROVE  Carries(new, e, n)
<1> SUFFICES ASSUME NEW A \in SUBSET Node, e \in A, \A m \in Node : new[m] \in A => m \in A
             PROVE  n \in A
  BY DEF Carries
<1>1. \A m \in Node : old[m] \in A => m \in A
  OBVIOUS
<1>2. QED
  BY <1>1 DEF Carries

-----------------------------------------------------------------------------
(* The labels for an egress, and the way of a new tunnel.                  *)

\* Labels are popped at the egress, and lead to a neighbour elsewhere.
Labels(e) == {l \in [Node -> Node \cup {None, Pop}] :
                \A n \in Node : /\ l[n] = Pop => n = e
                                /\ l[n] \in Node => n # e /\ <<n, l[n]>> \in Directed}

LabelsOf(p, e) == [n \in Node |-> mpls0[p][n][e]]

RoutesLinked == \A n \in Node, e \in Egress : inet0[n][e] \in Node => n # e /\ <<n, inet0[n][e]>> \in Directed

LabelsLinked == \A p \in Proto, e \in Egress : LabelsOf(p, e) \in Labels(e)

WayState(e) == [at : Node, labels : Labels(e), end : BOOLEAN]

\* A step of the way: the way goes on over a label, which is new where there was
\* none, or stays.
Steps(s, t, p, e) ==
  /\ t \in WayState(e)
  /\ \A n \in Node : t.labels[n] = s.labels[n] \/ n = s.at
  /\ t.labels[s.at] = s.labels[s.at] \/ (s.labels[s.at] = None /\ t.labels[s.at] = NextLsr(p, s.at, e))
  /\ \/ t.at = s.at /\ (s.at = e \/ t.end)
     \/ t.at = t.labels[s.at] /\ s.at # e
  /\ s.end => t.end
  /\ s.at = e => t.at = e

LEMMA TransitSteps ==
  ASSUME TypeOK, RoutesLinked, NEW p \in Proto, NEW e \in Egress, NEW s \in WayState(e)
  PROVE  Steps(s, Transit(p, e, s), p, e)
<1> DEFINE hop == NextLsr(p, s.at, e)
<1>0. e \in Node /\ None \notin Node /\ Pop \notin Node /\ None # Pop /\ enabled[p] \subseteq Node
  BY LabelConstants DEF TypeOK
<1>1. PICK t : t = Transit(p, e, s)
  OBVIOUS
<1>2. /\ s.at \in Node /\ s.labels \in Labels(e) /\ s.end \in BOOLEAN
      /\ s.labels \in [Node -> Node \cup {None, Pop}]
  BY DEF WayState, Labels
<1>3. hop # None => /\ hop \in Node /\ hop = inet0[s.at][e]
                    /\ s.at # e /\ <<s.at, hop>> \in Directed
  BY <1>0, <1>2 DEF NextLsr, RoutesLinked
<1>4. CASE s.at = e \/ s.end
  BY <1>1, <1>4 DEF Transit, Steps
<1>5. CASE ~(s.at = e \/ s.end) /\ s.labels[s.at] # None
  <2>1. t = [s EXCEPT !.at = s.labels[s.at]]
    BY <1>1, <1>5 DEF Transit
  <2>2. s.labels[s.at] \in Node
    BY <1>2, <1>5 DEF Labels
  <2>3. /\ t \in WayState(e) /\ t.at = s.labels[s.at] /\ t.labels = s.labels /\ t.end = s.end
    BY <1>2, <2>1, <2>2 DEF WayState
  <2>4. QED
    BY <1>1, <1>5, <2>3 DEF Steps
<1>6. CASE ~(s.at = e \/ s.end) /\ s.labels[s.at] = None /\ hop # None
  <2>1. t = [s EXCEPT !.labels[s.at] = hop, !.at = hop]
    BY <1>1, <1>6 DEF Transit
  <2>2. PICK l : l = [s.labels EXCEPT ![s.at] = hop]
    OBVIOUS
  <2>3. /\ l[s.at] = hop /\ \A n \in Node : n # s.at => l[n] = s.labels[n]
        /\ l \in [Node -> Node \cup {None, Pop}]
    BY <1>2, <1>3, <1>6, <2>2
  <2>4. l \in Labels(e)
    BY <1>0, <1>2, <1>3, <1>6, <2>3 DEF Labels
  <2>5. t.at = hop /\ t.labels = l /\ t.end = s.end /\ t \in WayState(e)
    BY <1>2, <1>3, <1>6, <2>1, <2>2, <2>4 DEF WayState
  <2>6. QED
    BY <1>1, <1>2, <1>6, <2>3, <2>5 DEF Steps
<1>7. CASE ~(s.at = e \/ s.end) /\ s.labels[s.at] = None /\ hop = None
  <2>1. t = [s EXCEPT !.end = TRUE]
    BY <1>1, <1>7 DEF Transit
  <2>2. t.at = s.at /\ t.labels = s.labels /\ t.end = TRUE /\ t \in WayState(e)
    BY <1>2, <2>1 DEF WayState
  <2>3. QED
    BY <1>1, <1>7, <2>2 DEF Steps
<1>8. QED
  BY <1>4, <1>5, <1>6, <1>7

\* The way of a new tunnel for e that leaves its ingress to first.
IsWalk(w, p, e, first) ==
  /\ w[0] = [at |-> first, labels |-> LabelsOf(p, e), end |-> FALSE]
  /\ \A k \in 0..(2 * Cardinality(Node)) : w[k] \in WayState(e)
  /\ \A k \in 0..(2 * Cardinality(Node)) : k < 2 * Cardinality(Node) => Steps(w[k], w[k + 1], p, e)
  /\ Way(p, e, first) = w[2 * Cardinality(Node)]

LEMMA WalkExists ==
  ASSUME TypeOK, RoutesLinked, LabelsLinked, NEW p \in Proto, NEW e \in Egress, NEW first \in Node
  PROVE  \E w : IsWalk(w, p, e, first)
<1> DEFINE M == 2 * Cardinality(Node)
           S == WayState(e)
           base == [at |-> first, labels |-> LabelsOf(p, e), end |-> FALSE]
           step == [s \in S |-> Transit(p, e, s)]
           Walk(f) == [k \in 0..M |-> IF k = 0 THEN base ELSE Transit(p, e, f[k - 1])]
           w == CHOOSE f : f = Walk(f)
           T == {k \in 0..M : w[k] \in S}
<1>1. M \in Nat
  BY LabelConstants, FS_CardinalityType
<1>2. Way(p, e, first) = w[M]
  BY DEF Way, LabelsOf
<1>3. base \in S
  BY DEF LabelsLinked, WayState
<1>4. \A s \in S : Transit(p, e, s) \in S /\ Steps(s, Transit(p, e, s), p, e)
  BY TransitSteps DEF Steps
<1>5. \E f : f = Walk(f)
  <2>1. step \in [S -> S]
    BY <1>4
  <2>2. \A s \in S : step[s] = Transit(p, e, s)
    OBVIOUS
  <2> HIDE DEF S, step, base, M
  <2>3. PICK f : Repeats(f, M, S, base, step)
    BY <1>1, <1>3, <2>1, RepeatExists
  <2>4. ASSUME NEW k \in 0..M, k # 0
        PROVE  step[f[k - 1]] = Transit(p, e, f[k - 1])
    <3>1. k - 1 \in 0..M
      BY <1>1, <2>4
    <3>2. f[k - 1] \in S
      BY <2>3, <3>1 DEF Repeats
    <3>3. QED
      BY <2>2, <3>2
  <2>5. f = Walk(f)
    BY <2>3, <2>4 DEF Repeats
  <2>6. QED
    BY <2>5
<1>6. w = Walk(w)
  BY <1>5
<1> HIDE DEF w, base, S, M
<1>7. w[0] = base
  BY <1>1, <1>6
<1>8. ASSUME NEW k \in 0..M, k < M, w[k] \in S
      PROVE  w[k + 1] \in S /\ Steps(w[k], w[k + 1], p, e)
  <2>1. k + 1 \in 0..M /\ k + 1 # 0 /\ (k + 1) - 1 = k
    BY <1>1, <1>8
  <2>2. w[k + 1] = Transit(p, e, w[k])
    BY <1>6, <2>1
  <2>3. QED
    BY <1>4, <1>8, <2>2
<1>9. 0 \in T /\ \A k \in 0..M : k < M /\ k \in T => k + 1 \in T
  BY <1>1, <1>3, <1>7, <1>8
<1> HIDE DEF T
<1>10. \A k \in 0..M : k \in T
  BY <1>1, <1>9, EachRound
<1>11. \A k \in 0..M : w[k] \in S
  BY <1>10 DEF T
<1>12. \A k \in 0..M : k < M => Steps(w[k], w[k + 1], p, e)
  BY <1>8, <1>11
<1>13. QED
  BY <1>2, <1>7, <1>11, <1>12 DEF IsWalk, S, M, base

\* The labels of the way are those there were and the routes of the routers passed.
Extends(l, p, e) ==
  \A n \in Node : \/ l[n] = mpls0[p][n][e]
                  \/ mpls0[p][n][e] = None /\ l[n] = NextLsr(p, n, e)

LEMMA WalkExtends ==
  ASSUME NEW p \in Proto, NEW e \in Egress, NEW first \in Node, NEW w, IsWalk(w, p, e, first),
         NEW k \in 0..(2 * Cardinality(Node))
  PROVE  Extends(w[k].labels, p, e)
<1> DEFINE M == 2 * Cardinality(Node)
           S == {i \in 0..M : Extends(w[i].labels, p, e)}
<1>1. M \in Nat
  BY LabelConstants, FS_CardinalityType
<1>2. 0 \in S
  <2>1. w[0].labels = LabelsOf(p, e)
    BY DEF IsWalk
  <2>2. Extends(w[0].labels, p, e)
    BY <2>1 DEF Extends, LabelsOf
  <2>3. QED
    BY <1>1, <2>2
<1>3. ASSUME NEW i \in 0..M, i < M, i \in S
      PROVE  i + 1 \in S
  <2>1. i + 1 \in 0..M
    BY <1>1, <1>3
  <2>2. PICK s : s = w[i]
    OBVIOUS
  <2>3. PICK t : t = w[i + 1]
    OBVIOUS
  <2>4. Steps(s, t, p, e) /\ Extends(s.labels, p, e)
    BY <1>3, <2>2, <2>3 DEF IsWalk
  <2>5. Extends(t.labels, p, e)
    BY <2>4 DEF Steps, Extends
  <2>6. QED
    BY <2>1, <2>3, <2>5
<1> HIDE DEF S
<1>4. \A i \in 0..M : i \in S
  BY <1>1, <1>2, <1>3, EachRound
<1>5. QED
  BY <1>4 DEF S

\* A label of the way stays, and the next router of a way that goes on is the one the
\* last labels lead to.
LEMMA WalkKeeps ==
  ASSUME NEW p \in Proto, NEW e \in Egress, NEW first \in Node, NEW w, IsWalk(w, p, e, first),
         NEW k \in 0..(2 * Cardinality(Node))
  PROVE  \A n \in Node : w[k].labels[n] # None =>
           w[2 * Cardinality(Node)].labels[n] = w[k].labels[n]
<1> DEFINE M == 2 * Cardinality(Node)
           P(i) == \A n \in Node : w[i].labels[n] # None => w[M].labels[n] = w[i].labels[n]
           S == {j \in 0..M : P(M - j)}
<1>1. M \in Nat
  BY LabelConstants, FS_CardinalityType
<1>2. 0 \in S
  BY <1>1
<1>3. ASSUME NEW j \in 0..M, j < M, j \in S
      PROVE  j + 1 \in S
  <2>1. PICK i : i = M - (j + 1)
    OBVIOUS
  <2>2. i \in 0..M /\ i < M /\ i + 1 = M - j /\ j + 1 \in 0..M
    BY <1>1, <1>3, <2>1
  <2>3. Steps(w[i], w[i + 1], p, e) /\ P(i + 1)
    BY <1>3, <2>2 DEF IsWalk
  <2>4. \A n \in Node : w[i].labels[n] # None => w[i + 1].labels[n] = w[i].labels[n]
    BY <2>3 DEF Steps
  <2>5. P(i)
    BY <2>3, <2>4
  <2>6. QED
    BY <2>1, <2>2, <2>5
<1> HIDE DEF S
<1>4. \A j \in 0..M : j \in S
  BY <1>1, <1>2, <1>3, EachRound
<1>5. M - k \in 0..M /\ M - (M - k) = k
  BY <1>1
<1>6. P(M - (M - k))
  BY <1>4, <1>5 DEF S
<1>7. QED
  BY <1>5, <1>6

\* A way that comes to e is a way the last labels carry to e, from each router of it.
LEMMA WalkCarries ==
  ASSUME NEW p \in Proto, NEW e \in Egress, NEW first \in Node, NEW w, IsWalk(w, p, e, first),
         w[2 * Cardinality(Node)].at = e, NEW k \in 0..(2 * Cardinality(Node))
  PROVE  Carries(w[2 * Cardinality(Node)].labels, e, w[k].at)
<1> DEFINE M == 2 * Cardinality(Node)
           P(i) == Carries(w[M].labels, e, w[i].at)
           S == {j \in 0..M : P(M - j)}
<1>1. M \in Nat
  BY LabelConstants, FS_CardinalityType
<1>2. 0 \in S
  <2>1. M - 0 = M /\ 0 \in 0..M
    BY <1>1
  <2>2. P(M)
    BY DEF Carries
  <2>3. QED
    BY <2>1, <2>2
<1>3. ASSUME NEW j \in 0..M, j < M, j \in S
      PROVE  j + 1 \in S
  <2>1. PICK i : i = M - (j + 1)
    OBVIOUS
  <2>2. i \in 0..M /\ i < M /\ i + 1 = M - j /\ j + 1 \in 0..M /\ i + 1 \in 0..M
    BY <1>1, <1>3, <2>1
  <2>3. PICK s : s = w[i]
    OBVIOUS
  <2>4. PICK t : t = w[i + 1]
    OBVIOUS
  <2>5. PICK last : last = w[M].labels
    OBVIOUS
  <2>6. Steps(s, t, p, e) /\ s \in WayState(e) /\ t \in WayState(e)
    BY <2>2, <2>3, <2>4 DEF IsWalk
  <2>7. Carries(last, e, t.at)
    BY <1>3, <2>2, <2>4, <2>5
  <2>8. \A n \in Node : t.labels[n] # None => last[n] = t.labels[n]
    BY <2>2, <2>4, <2>5, WalkKeeps
  <2>9. s.at \in Node /\ t.at \in Node /\ None \notin Node
    BY <2>6, LabelConstants DEF WayState
  <2>10. ASSUME t.at = s.at
         PROVE  Carries(last, e, s.at)
    BY <2>7, <2>10
  <2>11. ASSUME t.at = t.labels[s.at]
         PROVE  Carries(last, e, s.at)
    <3>1. last[s.at] = t.at
      BY <2>8, <2>9, <2>11
    <3>2. QED
      BY <2>7, <2>9, <3>1 DEF Carries
  <2>12. Carries(last, e, s.at)
    BY <2>6, <2>7, <2>10, <2>11 DEF Steps
  <2>13. QED
    BY <2>1, <2>2, <2>3, <2>5, <2>12
<1> HIDE DEF S
<1>4. \A j \in 0..M : j \in S
  BY <1>1, <1>2, <1>3, EachRound
<1>5. M - k \in 0..M /\ M - (M - k) = k
  BY <1>1
<1>6. P(M - (M - k))
  BY <1>4, <1>5 DEF S
<1>7. QED
  BY <1>5, <1>6

\* The way passes the routers it gives a label.
LEMMA WalkPasses ==
  ASSUME NEW p \in Proto, NEW e \in Egress, NEW first \in Node, NEW w, IsWalk(w, p, e, first),
         NEW n \in Node, mpls0[p][n][e] = None, w[2 * Cardinality(Node)].labels[n] # None
  PROVE  \E k \in 0..(2 * Cardinality(Node)) : w[k].at = n
<1> DEFINE M == 2 * Cardinality(Node)
           P(i) == w[i].labels[n] # None => \E k \in 0..M : w[k].at = n
           S == {i \in 0..M : P(i)}
<1>1. M \in Nat
  BY LabelConstants, FS_CardinalityType
<1>2. 0 \in S
  <2>1. w[0].labels = LabelsOf(p, e)
    BY DEF IsWalk
  <2>2. w[0].labels[n] = None
    BY <2>1 DEF LabelsOf
  <2>3. QED
    BY <1>1, <2>2
<1>3. ASSUME NEW i \in 0..M, i < M, i \in S
      PROVE  i + 1 \in S
  <2>1. i + 1 \in 0..M
    BY <1>1, <1>3
  <2>2. Steps(w[i], w[i + 1], p, e)
    BY <1>3 DEF IsWalk
  <2>3. w[i + 1].labels[n] = w[i].labels[n] \/ n = w[i].at
    BY <2>2 DEF Steps
  <2>4. P(i + 1)
    BY <1>3, <2>3
  <2>5. QED
    BY <2>1, <2>4
<1> HIDE DEF S
<1>4. \A i \in 0..M : i \in S
  BY <1>1, <1>2, <1>3, EachRound
<1>5. M \in S
  BY <1>1, <1>4
<1>6. QED
  BY <1>5 DEF S

\* A way that neither comes to e nor is abandoned follows the last labels for ever.
LEMMA WalkHangs ==
  ASSUME NEW p \in Proto, NEW e \in Egress, NEW first \in Node, NEW w, IsWalk(w, p, e, first),
         w[2 * Cardinality(Node)].at # e, ~w[2 * Cardinality(Node)].end
  PROVE  \E x : /\ IsWay(w[2 * Cardinality(Node)].labels, x)
                /\ \A k \in 0..Cardinality(Node) : x[k] # e
<1> DEFINE N == Cardinality(Node)
           M == 2 * N
           P(i) == w[i].at # e /\ ~w[i].end
           S == {j \in 0..M : P(M - j)}
<1>1. N \in Nat /\ M \in Nat /\ \A k \in 0..N : k \in 0..M /\ (k < N => k < M /\ k + 1 \in 0..M)
  BY LabelConstants, FS_CardinalityType
<1>2. 0 \in S
  <2>1. M - 0 = M /\ 0 \in 0..M
    BY <1>1
  <2>2. QED
    BY <2>1
<1> HIDE DEF M, N
<1>3. ASSUME NEW j \in 0..M, j < M, j \in S
      PROVE  j + 1 \in S
  <2>1. PICK i : i = M - (j + 1)
    OBVIOUS
  <2>2. i \in 0..M /\ i < M /\ i + 1 = M - j /\ j + 1 \in 0..M
    BY <1>1, <1>3, <2>1
  <2>3. Steps(w[i], w[i + 1], p, e) /\ P(i + 1)
    BY <1>3, <2>2 DEF IsWalk, M, N
  <2>4. P(i)
    BY <2>3 DEF Steps
  <2>5. QED
    BY <2>1, <2>2, <2>4
<1> HIDE DEF S
<1>4. \A j \in 0..M : j \in S
  BY <1>1, <1>2, <1>3, EachRound
<1>5. ASSUME NEW k \in 0..M
      PROVE  P(k)
  <2>1. M - k \in 0..M /\ M - (M - k) = k
    BY <1>1
  <2>2. P(M - (M - k))
    BY <1>4, <2>1 DEF S
  <2>3. QED
    BY <2>1, <2>2
<1>6. PICK x : x = [k \in 0..N |-> w[k].at]
  OBVIOUS
<1>7. \A k \in 0..N : x[k] = w[k].at /\ x[k] \in Node /\ x[k] # e
  BY <1>1, <1>5, <1>6 DEF IsWalk, WayState, M, N
<1>8. ASSUME NEW k \in 0..N, k < N
      PROVE  x[k + 1] = w[M].labels[x[k]]
  <2>1. k \in 0..M /\ k < M /\ k + 1 \in 0..M /\ k + 1 \in 0..N
    BY <1>1, <1>8
  <2>2. PICK s : s = w[k]
    OBVIOUS
  <2>3. PICK t : t = w[k + 1]
    OBVIOUS
  <2>4. Steps(s, t, p, e) /\ s \in WayState(e) /\ t \in WayState(e)
    BY <2>1, <2>2, <2>3 DEF IsWalk, M, N
  <2>5. s.at # e /\ ~t.end
    BY <1>5, <2>1, <2>2, <2>3
  <2>6. t.at = t.labels[s.at] /\ t.at \in Node /\ s.at \in Node
    BY <2>4, <2>5 DEF Steps, WayState
  <2>7. w[M].labels[s.at] = t.labels[s.at]
    BY <2>1, <2>3, <2>6, LabelConstants, WalkKeeps DEF M, N
  <2>8. QED
    BY <1>7, <2>1, <2>2, <2>3, <2>6, <2>7
<1>9. x \in [0..N -> Node]
  BY <1>6, <1>7
<1>10. IsWay(w[M].labels, x)
  BY <1>8, <1>9 DEF IsWay, N
<1>11. QED
  BY <1>7, <1>10 DEF M, N

-----------------------------------------------------------------------------
(* Forwarding over labels.                                                 *)

\* A router the labels lead from to e is one forwarding leads from to e, over links
\* that are usable.
LEMMA LabelsForward ==
  ASSUME NEW p \in Proto, NEW e \in Egress, NEW n \in Node,
         LabelsOf(p, e) \in Labels(e), LabelsOf(p, e)[e] = Pop, Carries(LabelsOf(p, e), e, n)
  PROVE  LabelEnd(p, n, e, Directed) = e
<1> DEFINE N == Cardinality(Node)
           S == Node \cup {None}
           next(m) == mpls0[p][m][e]
           Forward(m) == IF m = None \/ next(m) = Pop THEN m
                         ELSE IF next(m) # None /\ <<m, next(m)>> \in Directed THEN next(m) ELSE None
           step == [m \in S |-> Forward(m)]
           Ahead(f) == [k \in 0..N |-> IF k = 0 THEN n ELSE Forward(f[k - 1])]
           at == CHOOSE f : f = Ahead(f)
<1>1. PICK l : l = LabelsOf(p, e)
  OBVIOUS
<1>2. /\ N \in Nat /\ e \in Node /\ None \notin Node /\ Pop \notin Node /\ None # Pop
  BY LabelConstants, FS_CardinalityType
<1>3. \A m \in Node : next(m) = l[m] /\ l[m] \in Node \cup {None, Pop}
  BY <1>1 DEF LabelsOf, Labels
<1>4. LabelEnd(p, n, e, Directed) = IF at[N] # None /\ next(at[N]) = Pop THEN at[N] ELSE None
  BY DEF LabelEnd
<1>5. \A m \in S : Forward(m) \in S
  BY <1>2, <1>3
<1>6. \E f : f = Ahead(f)
  <2>1. step \in [S -> S]
    BY <1>5
  <2>2. \A m \in S : step[m] = Forward(m)
    OBVIOUS
  <2> HIDE DEF S, step
  <2>3. n \in S
    BY DEF S
  <2>4. PICK f : Repeats(f, N, S, n, step)
    BY <1>2, <2>1, <2>3, RepeatExists
  <2>5. ASSUME NEW k \in 0..N, k # 0
        PROVE  step[f[k - 1]] = Forward(f[k - 1])
    <3>1. k - 1 \in 0..N
      BY <1>2, <2>5
    <3>2. f[k - 1] \in S
      BY <2>4, <3>1 DEF Repeats
    <3>3. QED
      BY <2>2, <3>2
  <2> HIDE DEF Forward, N
  <2>6. f = Ahead(f)
    BY <2>4, <2>5 DEF Repeats
  <2>7. QED
    BY <2>6
<1>7. at = Ahead(at)
  <2> HIDE DEF Ahead
  <2>1. QED
    BY <1>6, Zenon
<1> HIDE DEF at, Forward
<1>8. at[0] = n
  BY <1>2, <1>7
<1>9. ASSUME NEW k \in 0..N, k < N
      PROVE  at[k + 1] = Forward(at[k])
  <2>1. k + 1 \in 0..N /\ k + 1 # 0 /\ (k + 1) - 1 = k
    BY <1>2, <1>9
  <2>2. QED
    BY <1>7, <2>1
<1>10. Forward(e) = e
  BY <1>1, <1>2, <1>3 DEF Forward
<1>11. ASSUME NEW m \in Node, m # e, Carries(l, e, m)
       PROVE  Forward(m) = l[m] /\ l[m] \in Node /\ Carries(l, e, l[m])
  <2>1. l[m] \in Node /\ Carries(l, e, l[m])
    BY <1>2, <1>11, CarriedOn
  <2>2. <<m, l[m]>> \in Directed
    BY <1>1, <2>1 DEF Labels
  <2>3. QED
    BY <1>2, <1>3, <2>1, <2>2 DEF Forward
<1>12. Carries(l, e, e)
  BY DEF Carries
<1> HIDE DEF S
<1>13. \A k \in 0..N : at[k] \in Node /\ Carries(l, e, at[k])
  <2> DEFINE T == {k \in 0..N : at[k] \in Node /\ Carries(l, e, at[k])}
  <2>1. 0 \in T
    BY <1>1, <1>2, <1>8
  <2>2. ASSUME NEW k \in 0..N, k < N, k \in T
        PROVE  k + 1 \in T
    <3>1. k + 1 \in 0..N
      BY <1>2, <2>2
    <3>2. at[k + 1] \in Node /\ Carries(l, e, at[k + 1])
      BY <1>2, <1>9, <1>10, <1>11, <2>2
    <3>3. QED
      BY <3>1, <3>2
  <2> HIDE DEF T
  <2>3. \A k \in 0..N : k \in T
    BY <1>2, <2>1, <2>2, EachRound
  <2>4. QED
    BY <2>3 DEF T
<1>14. \E k \in 0..N : at[k] = e
  <2> SUFFICES ASSUME \A k \in 0..N : at[k] # e
               PROVE  FALSE
    OBVIOUS
  <2>1. PICK x : x = [k \in 0..N |-> at[k]]
    OBVIOUS
  <2>2. \A k \in 0..N : x[k] = at[k]
    BY <2>1
  <2>3. ASSUME NEW k \in 0..N, k < N
        PROVE  x[k + 1] = l[x[k]]
    <3>1. k + 1 \in 0..N
      BY <1>2, <2>3
    <3>2. QED
      BY <1>9, <1>11, <1>13, <2>2, <2>3, <3>1
  <2>4. x \in [0..N -> Node]
    BY <1>13, <2>1
  <2>5. IsWay(l, x)
    BY <2>3, <2>4 DEF IsWay
  <2>6. x[0] = n
    BY <1>2, <1>8, <2>2
  <2>7. \E k \in 0..N : x[k] = e
    BY <1>1, <1>2, <2>5, <2>6, CarriedArrives
  <2>8. QED
    BY <2>2, <2>7
<1>15. at[N] = e
  <2> DEFINE T == {k \in 0..N : (\E j \in 0..k : at[j] = e) => at[k] = e}
  <2>1. 0 \in T
    BY <1>2
  <2>2. ASSUME NEW k \in 0..N, k < N, k \in T
        PROVE  k + 1 \in T
    <3>1. k + 1 \in 0..N /\ \A j \in 0..(k + 1) : j \in 0..k \/ j = k + 1
      BY <1>2, <2>2
    <3>2. at[k] = e => at[k + 1] = e
      BY <1>9, <1>10, <2>2
    <3>3. QED
      BY <2>2, <3>1, <3>2
  <2> HIDE DEF T
  <2>3. N \in T
    BY <1>2, <2>1, <2>2, EachRound
  <2>4. QED
    BY <1>14, <2>3 DEF T
<1>16. QED
  BY <1>1, <1>2, <1>3, <1>4, <1>15

-----------------------------------------------------------------------------
(* The invariant of the tunnels.                                           *)

\* A stored LSP with a next hop has an egress.
LspsLinked ==
  /\ DOMAIN lspdb = Node
  /\ \A n \in Node : \A lsp \in lspdb[n] : lsp.hop # None => lsp.egress \in Egress

\* A tunnel that was not reported as failed: labels lead from its first router to its
\* egress, where they are popped.
Leads(p, n, e) ==
  /\ inet3[p][n][e] \in Node
  /\ LabelsOf(p, e)[e] = Pop
  /\ Carries(LabelsOf(p, e), e, inet3[p][n][e])

BuiltLead == \A t \in built : /\ t \in Proto \X Node \X Egress
                             /\ Leads(t[1], t[2], t[3])

\* While no tunnel was abandoned, each label leads to its egress.
Complete(l, e) == \A n \in Node : l[n] # None => Carries(l, e, n)

LabelsComplete ==
  aborted = {} /\ ~hung => \A p \in Proto, e \in Egress : Complete(LabelsOf(p, e), e)

\* A router has no tunnel to itself, and those of others lead to their egress then.
TunnelsFit ==
  \A p \in Proto, n \in Node, e \in Egress :
    inet3[p][n][e] # None => n # e /\ (aborted = {} /\ ~hung => Leads(p, n, e))

\* All routers have run since the links last changed.
RoutesCurrent == \A n \in Node, e \in Egress : inet0[n][e] = RouteTo(n, e, inet0[n][e])

HangExplained == hung => aborted # {} \/ ~RoutesCurrent

LabelInv ==
  /\ TypeOK
  /\ RoutesLinked /\ LabelsLinked
  /\ LspsLinked
  /\ BuiltLead
  /\ LabelsComplete /\ TunnelsFit
  /\ HangExplained

-----------------------------------------------------------------------------
(* A new tunnel.                                                           *)

NewLabels(way, e) == IF way.at = e THEN Ended(way, e) ELSE way.labels

\* l are the labels for e after the way of a new tunnel: those there were stay, those
\* of a way that came to e carry to it, and those of a way without an end are a circle.
Result(way, l, p, e, first) ==
  /\ way \in WayState(e) /\ l \in Labels(e)
  /\ \A m \in Node : mpls0[p][m][e] # None => l[m] = mpls0[p][m][e]
  /\ way.at = e => /\ l[e] = Pop
                   /\ Carries(l, e, first)
                   /\ \A m \in Node : mpls0[p][m][e] = None /\ l[m] # None => Carries(l, e, m)
  /\ way.at # e /\ ~way.end =>
       \E C \in SUBSET Node :
         /\ C # {} /\ e \notin C
         /\ \A m \in C : l[m] \in C /\ (mpls0[p][m][e] # None \/ l[m] = inet0[m][e])

LEMMA WayResult ==
  ASSUME TypeOK, RoutesLinked, LabelsLinked, NEW p \in Proto, NEW e \in Egress, NEW first \in Node
  PROVE  Result(Way(p, e, first), NewLabels(Way(p, e, first), e), p, e, first)
<1> DEFINE M == 2 * Cardinality(Node)
<1>1. PICK way : way = Way(p, e, first)
  OBVIOUS
<1>2. PICK l : l = NewLabels(way, e)
  OBVIOUS
<1>3. PICK w : IsWalk(w, p, e, first)
  BY WalkExists
<1>4. /\ M \in Nat /\ M \in 0..M /\ 0 \in 0..M
      /\ e \in Node /\ None \notin Node /\ Pop \notin Node /\ None # Pop
  BY LabelConstants, FS_CardinalityType
<1>5. way = w[M] /\ way \in WayState(e)
  BY <1>1, <1>3, <1>4 DEF IsWalk
<1>6. PICK r : r = way.labels
  OBVIOUS
<1>7. r \in Labels(e) /\ r \in [Node -> Node \cup {None, Pop}] /\ r[e] \in {None, Pop}
  BY <1>4, <1>5, <1>6 DEF WayState, Labels
<1>8. Extends(r, p, e)
  BY <1>3, <1>4, <1>5, <1>6, WalkExtends
<1>9. /\ l \in [Node -> Node \cup {None, Pop}]
      /\ \A m \in Node : l[m] = r[m] \/ (m = e /\ r[m] = None /\ l[m] = Pop)
  BY <1>2, <1>4, <1>6, <1>7 DEF NewLabels, Ended
<1>10. l \in Labels(e)
  BY <1>4, <1>7, <1>9 DEF Labels
<1>11. ASSUME NEW m \in Node, mpls0[p][m][e] # None
       PROVE  l[m] = mpls0[p][m][e]
  BY <1>8, <1>9, <1>11 DEF Extends
<1>12. ASSUME way.at = e
       PROVE  /\ l[e] = Pop
              /\ Carries(l, e, first)
              /\ \A m \in Node : mpls0[p][m][e] = None /\ l[m] # None => Carries(l, e, m)
  <2>1. l[e] = Pop
    BY <1>2, <1>4, <1>6, <1>7, <1>12 DEF NewLabels, Ended
  <2>2. \A m \in Node : r[m] \in Node => l[m] = r[m]
    BY <1>4, <1>9
  <2>3. \A k \in 0..M : Carries(r, e, w[k].at)
    BY <1>3, <1>4, <1>5, <1>6, <1>12, WalkCarries
  <2>4. \A k \in 0..M : Carries(l, e, w[k].at)
    BY <1>4, <2>2, <2>3, CarriedStill
  <2>5. w[0].at = first
    BY <1>3 DEF IsWalk
  <2>6. Carries(l, e, first)
    BY <1>4, <2>4, <2>5
  <2>7. ASSUME NEW m \in Node, mpls0[p][m][e] = None, l[m] # None
        PROVE  Carries(l, e, m)
    <3>1. CASE m = e
      BY <3>1 DEF Carries
    <3>2. CASE m # e
      <4>1. r[m] # None
        BY <1>9, <2>7, <3>2
      <4>2. \E k \in 0..M : w[k].at = m
        BY <1>3, <1>5, <1>6, <2>7, <4>1, WalkPasses
      <4>3. QED
        BY <2>4, <4>2
    <3>3. QED
      BY <3>1, <3>2
  <2>8. QED
    BY <2>1, <2>6, <2>7
<1>13. ASSUME way.at # e, ~way.end
       PROVE  \E C \in SUBSET Node :
                /\ C # {} /\ e \notin C
                /\ \A m \in C : l[m] \in C /\ (mpls0[p][m][e] # None \/ l[m] = inet0[m][e])
  <2>1. l = r
    BY <1>2, <1>6, <1>13 DEF NewLabels
  <2>2. PICK x : IsWay(r, x) /\ \A k \in 0..Cardinality(Node) : x[k] # e
    BY <1>3, <1>5, <1>6, <1>13, WalkHangs
  <2>3. PICK C \in SUBSET Node : IsCircle(C, r, x)
    BY <2>2, Circle
  <2>4. C # {} /\ e \notin C
    BY <2>2, <2>3 DEF IsCircle
  <2>5. ASSUME NEW m \in C
        PROVE  l[m] \in C /\ (mpls0[p][m][e] # None \/ l[m] = inet0[m][e])
    <3>1. r[m] \in C /\ r[m] \in Node /\ m \in Node
      BY <2>3 DEF IsCircle
    <3>2. r[m] # None
      BY <1>4, <3>1
    <3>3. mpls0[p][m][e] # None \/ r[m] = inet0[m][e]
      BY <1>8, <3>1, <3>2 DEF Extends, NextLsr
    <3>4. QED
      BY <2>1, <3>1, <3>3
  <2>6. QED
    BY <2>4, <2>5
<1>14. Result(way, l, p, e, first)
  BY <1>5, <1>10, <1>11, <1>12, <1>13 DEF Result
<1>15. QED
  BY <1>1, <1>2, <1>14

\* A new tunnel that leaves its ingress to first.
Tunnel(first, way, l, p, n, e) ==
  /\ first \in Node /\ Found(n, e) /\ first = FirstHop(p, n, e)
  /\ Result(way, l, p, e, first)
  /\ inet3' \in [Proto -> [Node -> [Egress -> Node \cup {None}]]]
  /\ \A q \in Proto, m \in Node, d \in Egress :
       inet3'[q][m][d] = IF q = p /\ m = n /\ d = e THEN first ELSE inet3[q][m][d]
  /\ mpls0' \in [Proto -> [Node -> [Egress -> Node \cup {None, Pop}]]]
  /\ \A q \in Proto, d \in Egress :
       LabelsOf(q, d)' = IF q = p /\ d = e THEN l ELSE LabelsOf(q, d)
  /\ built' \in {built, built \cup {<<p, n, e>>}} /\ (built' # built => way.at = e)
  /\ aborted' = IF way.end THEN aborted \cup {<<p, e>>} ELSE aborted
  /\ hung' = (~way.end /\ way.at # e)

LEMMA CreateSteps ==
  ASSUME TypeOK, RoutesLinked, LabelsLinked, NEW p \in Proto, NEW n \in Node, NEW e \in Egress,
         Create(p, n, e)
  PROVE  /\ Command /\ UNCHANGED <<up, inet0, enabled>>
         /\ \/ /\ ~Found(n, e) \/ FirstHop(p, n, e) = None
               /\ UNCHANGED <<inet3, mpls0, built, aborted, hung>>
            \/ \E first, way, l : Tunnel(first, way, l, p, n, e)
<1> DEFINE first == IF Found(n, e) THEN FirstHop(p, n, e) ELSE None
           way == Way(p, e, first)
           l == NewLabels(way, e)
<1>1. Command /\ UNCHANGED <<up, inet0, enabled>>
  BY DEF Create
<1>2. CASE first = None
  BY <1>1, <1>2 DEF Create
<1>3. CASE first # None
  <2>0. /\ enabled[p] \subseteq Node /\ inet3[p][n][e] \in Node \cup {None}
        /\ inet3 \in [Proto -> [Node -> [Egress -> Node \cup {None}]]]
        /\ mpls0 \in [Proto -> [Node -> [Egress -> Node \cup {None, Pop}]]]
    BY DEF TypeOK
  <2>1. Found(n, e) /\ first \in Node /\ first = FirstHop(p, n, e)
    BY <1>3, <2>0 DEF FirstHop, NextLsr
  <2>2. Result(way, l, p, e, first)
    <3> HIDE DEF first
    <3>1. QED
      BY <2>1, WayResult
  <2>3. /\ InstallTunnel(p, n, e, first)
        /\ InstallLabels(p, e, l)
        /\ built' = IF Told(p, way, e) THEN built \cup {<<p, n, e>>} ELSE built
        /\ aborted' = IF way.end THEN aborted \cup {<<p, e>>} ELSE aborted
        /\ hung' = (~way.end /\ way.at # e)
    BY <1>3 DEF Create, NewLabels
  <2> HIDE DEF first, way, l
  <2>4. /\ inet3' \in [Proto -> [Node -> [Egress -> Node \cup {None}]]]
        /\ \A q \in Proto, m \in Node, d \in Egress :
             inet3'[q][m][d] = IF q = p /\ m = n /\ d = e THEN first ELSE inet3[q][m][d]
    BY <2>0, <2>1, <2>3 DEF InstallTunnel
  <2>5. l \in [Node -> Node \cup {None, Pop}]
    BY <2>2 DEF Result, Labels
  <2>6. PICK t : t = [m \in Node |-> [mpls0[p][m] EXCEPT ![e] = l[m]]]
    OBVIOUS
  <2>7. /\ t \in [Node -> [Egress -> Node \cup {None, Pop}]]
        /\ \A m \in Node, d \in Egress : t[m][d] = IF d = e THEN l[m] ELSE mpls0[p][m][d]
    BY <2>0, <2>5, <2>6
  <2>8. mpls0' = [mpls0 EXCEPT ![p] = t]
    BY <2>3, <2>6 DEF InstallLabels
  <2>9. mpls0' \in [Proto -> [Node -> [Egress -> Node \cup {None, Pop}]]]
    BY <2>0, <2>7, <2>8
  <2>10. ASSUME NEW q \in Proto, NEW d \in Egress
         PROVE  LabelsOf(q, d)' = IF q = p /\ d = e THEN l ELSE LabelsOf(q, d)
    <3>1. \A m \in Node : mpls0'[q][m][d] = IF q = p /\ d = e THEN l[m] ELSE mpls0[q][m][d]
      BY <2>0, <2>7, <2>8
    <3>2. l = [m \in Node |-> l[m]]
      BY <2>5
    <3>3. QED
      BY <3>1, <3>2 DEF LabelsOf
  <2>11. built' \in {built, built \cup {<<p, n, e>>}} /\ (built' # built => way.at = e)
    BY <2>3 DEF Told
  <2>12. Tunnel(first, way, l, p, n, e)
    BY <2>1, <2>2, <2>3, <2>4, <2>9, <2>10, <2>11 DEF Tunnel
  <2>13. QED
    BY <1>1, <2>12
<1>4. QED
  BY <1>2, <1>3

\* A router of a circle without e that has a label, old or new, towards the next router
\* of it: none of the old ones leads to e, and routes do not go in circles.
LEMMA NoCircle ==
  ASSUME up \in DOMAIN Distances, RoutesCurrent, NEW p \in Proto, NEW e \in Egress,
         Complete(LabelsOf(p, e), e), NEW l,
         \A m \in Node : mpls0[p][m][e] # None => l[m] = mpls0[p][m][e],
         NEW C \in SUBSET Node, e \notin C,
         \A m \in C : l[m] \in C /\ (mpls0[p][m][e] # None \/ l[m] = inet0[m][e])
  PROVE  C = {}
<1> SUFFICES ASSUME C # {}
             PROVE  FALSE
  OBVIOUS
<1>0. e \in Node /\ None \notin Node
  BY LabelConstants
<1>1. ASSUME NEW m \in C
      PROVE  mpls0[p][m][e] = None
  <2> SUFFICES ASSUME mpls0[p][m][e] # None
               PROVE  FALSE
    OBVIOUS
  <2>1. Carries(LabelsOf(p, e), e, m)
    BY DEF Complete, LabelsOf
  <2>2. \A x \in Node : LabelsOf(p, e)[x] \in Node => l[x] = LabelsOf(p, e)[x]
    BY <1>0 DEF LabelsOf
  <2>3. Carries(l, e, m)
    BY <1>0, <2>1, <2>2, CarriedStill
  <2>4. Node \ C \in SUBSET Node /\ e \in Node \ C
    BY <1>0
  <2>5. \A x \in Node : l[x] \in Node \ C => x \in Node \ C
    OBVIOUS
  <2>6. QED
    BY <2>3, <2>4, <2>5 DEF Carries
<1>2. ASSUME NEW m \in C
      PROVE  l[m] \in C /\ LeadsNearer(m, l[m], e)
  <2>1. l[m] \in C /\ l[m] = inet0[m][e]
    BY <1>1
  <2>2. l[m] = RouteTo(m, e, inet0[m][e])
    BY <2>1 DEF RoutesCurrent
  <2>3. RouteTo(m, e, inet0[m][e]) \in Node
    BY <2>1, <2>2
  <2>4. QED
    BY <1>0, <2>1, <2>2, <2>3, RouteFacts
<1>3. PICK d : d = Distance(e)
  OBVIOUS
<1>4. \A m \in C : l[m] \in C /\ d[l[m]] < d[m] /\ d[m] \in Nat
  BY <1>2, <1>3 DEF LeadsNearer
<1>5. PICK m \in C : \A x \in C : d[m] <= d[x]
  <2> DEFINE T == {d[x] : x \in C}
  <2>1. T \in SUBSET Nat /\ T # {}
    BY <1>4
  <2> HIDE DEF T
  <2>2. PICK t \in T : \A y \in T : t <= y
    BY <2>1, LeastExists
  <2>3. QED
    BY <2>2 DEF T
<1>6. QED
  BY <1>4, <1>5

LEMMA TunnelKeeps ==
  ASSUME LabelInv, ~hung, NEW p \in Proto, NEW n \in Node, NEW e \in Egress,
         UNCHANGED <<up, inet0>>,
         NEW first, NEW way, NEW l, Tunnel(first, way, l, p, n, e)
  PROVE  /\ LabelsLinked'
         /\ \A q \in Proto, m \in Node, d \in Egress : mpls0'[q][m][d] = Pop => m = d
         /\ BuiltLead' /\ LabelsComplete' /\ TunnelsFit' /\ HangExplained'
<1>0. /\ e \in Node /\ Egress \subseteq Node /\ None \notin Node /\ Pop \notin Node
      /\ None # Pop
  BY LabelConstants
<1>1. Result(way, l, p, e, first) /\ first \in Node /\ l \in Labels(e)
  BY DEF Tunnel, Result
<1>2. \A q \in Proto, d \in Egress :
        LabelsOf(q, d)' = IF q = p /\ d = e THEN l ELSE LabelsOf(q, d)
  BY DEF Tunnel
<1>3. ASSUME NEW q \in Proto, NEW d \in Egress
      PROVE  LabelsOf(q, d)' \in Labels(d)
  BY <1>1, <1>2 DEF LabelInv, LabelsLinked
<1>4. LabelsLinked'
  BY <1>3 DEF LabelsLinked
<1>5. ASSUME NEW q \in Proto, NEW m \in Node, NEW d \in Egress, mpls0'[q][m][d] = Pop
      PROVE  m = d
  BY <1>3, <1>5 DEF LabelsOf, Labels
<1>6. ASSUME NEW q \in Proto, NEW d \in Egress
      PROVE  \A m \in Node : LabelsOf(q, d)[m] # None => LabelsOf(q, d)'[m] = LabelsOf(q, d)[m]
  BY <1>1, <1>2 DEF Result, LabelsOf
<1>7. ASSUME NEW q \in Proto, NEW d \in Egress, NEW m, Carries(LabelsOf(q, d), d, m)
      PROVE  Carries(LabelsOf(q, d)', d, m)
  <2>1. PICK a : a = LabelsOf(q, d)
    OBVIOUS
  <2>2. PICK b : b = LabelsOf(q, d)'
    OBVIOUS
  <2>3. \A x \in Node : a[x] \in Node => b[x] = a[x]
    BY <1>0, <1>6, <2>1, <2>2
  <2>4. Carries(b, d, m)
    BY <1>0, <1>7, <2>1, <2>3, CarriedStill
  <2>5. QED
    BY <2>2, <2>4
<1>8. ASSUME NEW q \in Proto, NEW m \in Node, NEW d \in Egress, Leads(q, m, d)
      PROVE  Leads(q, m, d)'
  <2>1. /\ inet3[q][m][d] \in Node /\ LabelsOf(q, d)[d] = Pop
        /\ Carries(LabelsOf(q, d), d, inet3[q][m][d])
    BY <1>8 DEF Leads
  <2>2. inet3'[q][m][d] = inet3[q][m][d]
    <3>1. q = p /\ m = n /\ d = e => first = inet3[q][m][d]
      BY <1>0, <2>1 DEF Tunnel, FirstHop
    <3>2. QED
      BY <3>1 DEF Tunnel
  <2>3. LabelsOf(q, d)'[d] = Pop
    BY <1>0, <1>6, <2>1
  <2>4. Carries(LabelsOf(q, d)', d, inet3'[q][m][d])
    BY <1>7, <2>1, <2>2
  <2>5. QED
    BY <2>1, <2>2, <2>3, <2>4 DEF Leads
<1>9. ASSUME way.at = e
       PROVE  Leads(p, n, e)'
  <2>1. inet3'[p][n][e] = first
    BY DEF Tunnel
  <2>2. LabelsOf(p, e)' = l
    BY <1>2
  <2>3. l[e] = Pop /\ Carries(l, e, first)
    BY <1>1, <1>9 DEF Result
  <2>4. QED
    BY <1>1, <2>1, <2>2, <2>3 DEF Leads
<1>10. ASSUME NEW t \in built'
       PROVE  /\ t \in Proto \X Node \X Egress
              /\ Leads(t[1], t[2], t[3])'
  <2>1. CASE t \in built
    <3>1. t \in Proto \X Node \X Egress /\ Leads(t[1], t[2], t[3])
      BY <2>1 DEF LabelInv, BuiltLead
    <3>2. PICK q \in Proto, m \in Node, d \in Egress : t = <<q, m, d>>
      BY <3>1
    <3>3. Leads(q, m, d)
      BY <3>1, <3>2
    <3>4. Leads(q, m, d)'
      BY <1>8, <3>3
    <3>5. QED
      BY <3>1, <3>2, <3>4
  <2>2. CASE t \notin built
    <3>1. t = <<p, n, e>> /\ way.at = e
      BY <2>2 DEF Tunnel
    <3>2. QED
      BY <1>9, <3>1
  <2>3. QED
    BY <2>1, <2>2
<1>11. BuiltLead'
  BY <1>10 DEF BuiltLead
<1>12. aborted' = {} => aborted = {} /\ ~way.end
  BY DEF Tunnel
<1>13. ASSUME aborted' = {}, ~hung', NEW q \in Proto, NEW d \in Egress
       PROVE  Complete(LabelsOf(q, d), d)'
  <2>1. way.at = e
    BY <1>12, <1>13 DEF Tunnel
  <2>2. Complete(LabelsOf(q, d), d)
    BY <1>12, <1>13 DEF LabelInv, LabelsComplete
  <2>3. ASSUME NEW m \in Node, LabelsOf(q, d)'[m] # None
        PROVE  Carries(LabelsOf(q, d)', d, m)
    <3>1. CASE LabelsOf(q, d)[m] # None
      BY <1>7, <2>2, <3>1 DEF Complete
    <3>2. CASE LabelsOf(q, d)[m] = None
      <4>1. q = p /\ d = e /\ LabelsOf(q, d)' = l
        BY <1>2, <2>3, <3>2
      <4>2. mpls0[p][m][e] = None /\ l[m] # None
        BY <2>3, <3>2, <4>1 DEF LabelsOf
      <4>3. Carries(l, e, m)
        BY <1>1, <2>1, <4>2 DEF Result
      <4>4. QED
        BY <4>1, <4>3
    <3>3. QED
      BY <3>1, <3>2
  <2>4. QED
    BY <2>3 DEF Complete
<1>14. LabelsComplete'
  BY <1>13 DEF LabelsComplete
<1>15. ASSUME NEW q \in Proto, NEW m \in Node, NEW d \in Egress, inet3'[q][m][d] # None
       PROVE  m # d /\ (aborted' = {} /\ ~hung' => Leads(q, m, d)')
  <2>1. CASE q = p /\ m = n /\ d = e
    <3>1. n # e
      BY DEF Tunnel, Found
    <3>2. aborted' = {} /\ ~hung' => way.at = e
      BY <1>12 DEF Tunnel
    <3>3. QED
      BY <1>9, <2>1, <3>1, <3>2
  <2>2. CASE ~(q = p /\ m = n /\ d = e)
    <3>1. inet3[q][m][d] # None
      BY <1>15, <2>2 DEF Tunnel
    <3>2. m # d /\ (aborted = {} => Leads(q, m, d))
      BY <3>1 DEF LabelInv, TunnelsFit
    <3>3. QED
      BY <1>8, <1>12, <3>2
  <2>3. QED
    BY <2>1, <2>2
<1>16. TunnelsFit'
  BY <1>15 DEF TunnelsFit
<1>17. ASSUME hung', aborted' = {}, RoutesCurrent
       PROVE  FALSE
  <2>1. way.at # e /\ ~way.end /\ aborted = {}
    BY <1>12, <1>17 DEF Tunnel
  <2>2. PICK C \in SUBSET Node :
          /\ C # {} /\ e \notin C
          /\ \A m \in C : l[m] \in C /\ (mpls0[p][m][e] # None \/ l[m] = inet0[m][e])
    BY <1>1, <2>1 DEF Result
  <2>3. \A m \in Node : mpls0[p][m][e] # None => l[m] = mpls0[p][m][e]
    BY <1>1 DEF Result
  <2>4. Complete(LabelsOf(p, e), e)
    BY <2>1 DEF LabelInv, LabelsComplete
  <2>5. up \in DOMAIN Distances
    BY DEF LabelInv, TypeOK
  <2>6. C = {}
    BY <1>17, <2>2, <2>3, <2>4, <2>5, NoCircle
  <2>7. QED
    BY <2>2, <2>6
<1>18. RoutesCurrent' = RoutesCurrent
  BY DEF RoutesCurrent, RouteTo, Distance, Adjacent
<1>19. HangExplained'
  BY <1>17, <1>18 DEF HangExplained
<1>20. QED
  BY <1>4, <1>5, <1>11, <1>14, <1>19, <1>16

-----------------------------------------------------------------------------
(* Every command keeps the invariant of the tunnels.                       *)

\* A command that leaves the tunnels alone, and all of the routes too unless the links
\* are the same.
LEMMA TablesKept ==
  ASSUME LabelInv, UNCHANGED tables, TypeOK', RoutesLinked', hung => UNCHANGED <<up, inet0>>
  PROVE  LabelInv'
<1>1. UNCHANGED <<inet3, mpls0, lspdb, built, aborted, hung>>
  BY DEF tables
<1>2. \A q, d : UNCHANGED LabelsOf(q, d)
  BY <1>1 DEF LabelsOf
<1>3. LabelsLinked' /\ LspsLinked'
  BY <1>1, <1>2 DEF LabelInv, LabelsLinked, LspsLinked
<1>4. BuiltLead' /\ LabelsComplete' /\ TunnelsFit'
  BY <1>1, <1>2 DEF LabelInv, BuiltLead, Leads, LabelsComplete, Complete, TunnelsFit
<1>5. HangExplained'
  <2>1. CASE hung
    <3>1. UNCHANGED <<up, inet0, aborted, hung>>
      BY <1>1, <2>1
    <3>2. QED
      BY <3>1 DEF LabelInv, HangExplained, RoutesCurrent, RouteTo, Distance, Adjacent
  <2>2. CASE ~hung
    BY <1>1, <2>2 DEF HangExplained
  <2>3. QED
    BY <2>1, <2>2
<1>6. QED
  BY <1>3, <1>4, <1>5 DEF LabelInv

LEMMA NothingKept ==
  ASSUME LabelInv, UNCHANGED vars
  PROVE  LabelInv'
<1>1. UNCHANGED <<up, inet0, enabled, tables, commands>>
  BY DEF vars
<1>2. UNCHANGED <<inet3, mpls0, lspdb, built, aborted, hung>>
  BY <1>1 DEF tables
<1>3. TypeOK' /\ RoutesLinked'
  BY <1>1, <1>2 DEF LabelInv, TypeOK, RoutesLinked
<1>4. QED
  BY <1>1, <1>3, TablesKept

LEMMA StatusKeeps ==
  ASSUME LabelInv, NEW l \in Flaky, SetStatus(l)
  PROVE  LabelInv'
<1>1. UNCHANGED <<inet0, enabled, tables>> /\ ~hung /\ commands' \in 0..MaxCommands
  BY LabelConstants DEF SetStatus, Command, LabelInv, TypeOK
<1>2. UNCHANGED <<inet3, mpls0, lspdb, built, aborted, hung>>
  BY <1>1 DEF tables
<1>3. up' \in DOMAIN Distances
  BY Networks DEF SetStatus, LabelInv, TypeOK
<1>4. TypeOK' /\ RoutesLinked'
  <2>1. DOMAIN Distances = {Directed \ down : down \in SUBSET Flaky}
    BY DEF Distances
  <2>2. (DOMAIN Distances)' = DOMAIN Distances
    BY DEF Distances
  <2>3. QED
    BY <1>1, <1>2, <1>3, <2>2 DEF LabelInv, TypeOK, RoutesLinked
<1>5. QED
  BY <1>1, <1>4, TablesKept

LEMMA ToggleKeeps ==
  ASSUME LabelInv, NEW p \in Proto, NEW n \in Toggled, Toggle(p, n)
  PROVE  LabelInv'
<1>1. UNCHANGED <<up, inet0, tables>> /\ commands' \in 0..MaxCommands
  BY LabelConstants DEF Toggle, Command, LabelInv, TypeOK
<1>2. UNCHANGED <<inet3, mpls0, lspdb, built, aborted, hung>>
  BY <1>1 DEF tables
<1>3. enabled' \in [Proto -> SUBSET Node]
  <2>1. n \in Node /\ enabled \in [Proto -> SUBSET Node]
    BY LabelConstants DEF LabelInv, TypeOK
  <2>2. enabled[p] \ {n} \in SUBSET Node /\ enabled[p] \cup {n} \in SUBSET Node
    BY <2>1
  <2>3. QED
    BY <2>1, <2>2 DEF Toggle
<1>4. TypeOK' /\ RoutesLinked'
  BY <1>1, <1>2, <1>3 DEF LabelInv, TypeOK, RoutesLinked
<1>5. QED
  BY <1>1, <1>4, TablesKept

LEMMA RunKeeps ==
  ASSUME LabelInv, NEW S, Run(S)
  PROVE  LabelInv'
<1>1. /\ UNCHANGED <<up, enabled, tables>> /\ ~hung /\ commands' \in 0..MaxCommands
      /\ inet0' = [n \in Node |-> IF n \in S THEN [e \in Egress |-> RouteTo(n, e, inet0[n][e])]
                                  ELSE inet0[n]]
  BY LabelConstants DEF Run, Command, LabelInv, TypeOK, tables, Kept
<1>2. UNCHANGED <<inet3, mpls0, lspdb, built, aborted, hung>>
  BY <1>1 DEF tables
<1>3. /\ up \in DOMAIN Distances /\ Egress \subseteq Node
      /\ inet0 \in [Node -> [Egress -> Node \cup {None, Local}]]
      /\ RoutesLinked
  BY LabelConstants DEF LabelInv, TypeOK
<1>4. ASSUME NEW n \in Node, NEW e \in Egress
      PROVE  /\ inet0'[n][e] \in Node \cup {None, Local}
             /\ inet0'[n][e] \in Node => n # e /\ <<n, inet0'[n][e]>> \in Directed
  <2>1. CASE n \in S
    <3>1. PICK r : r = RouteTo(n, e, inet0[n][e])
      OBVIOUS
    <3>2. r \in Node \cup {None, Local} /\ (r \in Node => LeadsNearer(n, r, e))
      BY <1>3, <3>1, RouteFacts
    <3>3. r \in Node => n # e /\ <<n, r>> \in Directed
      BY <1>3, <3>2, Networks DEF LeadsNearer
    <3>4. inet0'[n][e] = r
      BY <1>1, <2>1, <3>1
    <3>5. QED
      BY <3>2, <3>3, <3>4
  <2>2. CASE n \notin S
    <3>1. inet0'[n][e] = inet0[n][e]
      BY <1>1, <2>2
    <3>2. inet0[n][e] \in Node \cup {None, Local}
      BY <1>3
    <3>3. QED
      BY <1>3, <3>1, <3>2 DEF RoutesLinked
  <2>3. QED
    BY <2>1, <2>2
<1>5. inet0' \in [Node -> [Egress -> Node \cup {None, Local}]]
  <2>1. \A n \in Node : inet0'[n] = [e \in Egress |-> inet0'[n][e]]
    BY <1>1, <1>3
  <2>2. \A n \in Node : inet0'[n] \in [Egress -> Node \cup {None, Local}]
    BY <1>4, <2>1
  <2>3. inet0' = [n \in Node |-> inet0'[n]]
    BY <1>1
  <2>4. QED
    BY <2>2, <2>3
<1>6. TypeOK' /\ RoutesLinked'
  BY <1>1, <1>2, <1>4, <1>5 DEF LabelInv, TypeOK, RoutesLinked
<1>7. QED
  BY <1>1, <1>6, TablesKept

\* All but the LSPs.
NewTables ==
  /\ up' \in DOMAIN Distances
  /\ inet0' \in [Node -> [Egress -> Node \cup {None, Local}]]
  /\ enabled' \in [Proto -> SUBSET Node]
  /\ inet3' \in [Proto -> [Node -> [Egress -> Node \cup {None}]]]
  /\ mpls0' \in [Proto -> [Node -> [Egress -> Node \cup {None, Pop}]]]
  /\ \A p \in Proto, n \in Node, e \in Egress : mpls0'[p][n][e] = Pop => n = e
  /\ hung' \in BOOLEAN /\ commands' \in 0..MaxCommands
  /\ RoutesLinked' /\ LabelsLinked' /\ BuiltLead' /\ LabelsComplete' /\ TunnelsFit'
  /\ HangExplained'

\* A next hop of inet.3 stays.
TunnelsStay ==
  \A p \in Proto, n \in Node, e \in Egress : inet3[p][n][e] # None => inet3'[p][n][e] = inet3[p][n][e]

LEMMA CreateKeeps ==
  ASSUME LabelInv, NEW p \in Proto, NEW n \in Node, NEW e \in Egress, Create(p, n, e)
  PROVE  /\ NewTables /\ TunnelsStay
         /\ Found(n, e) /\ FirstHop(p, n, e) # None => inet3'[p][n][e] = FirstHop(p, n, e)
<1>0. TypeOK /\ RoutesLinked /\ LabelsLinked
  BY DEF LabelInv
<1>1. /\ UNCHANGED <<up, inet0, enabled>> /\ ~hung /\ commands' \in 0..MaxCommands
  <2>1. Command /\ UNCHANGED <<up, inet0, enabled>>
    BY <1>0, CreateSteps
  <2>2. QED
    BY <1>0, <2>1, LabelConstants DEF Command, TypeOK
<1>2. RoutesLinked'
  BY <1>0, <1>1 DEF RoutesLinked
<1>3. CASE /\ ~Found(n, e) \/ FirstHop(p, n, e) = None
           /\ UNCHANGED <<inet3, mpls0, built, aborted, hung>>
  <2>1. \A q, d : UNCHANGED LabelsOf(q, d)
    BY <1>3 DEF LabelsOf
  <2>2. LabelsLinked' /\ BuiltLead' /\ LabelsComplete' /\ TunnelsFit' /\ HangExplained'
    BY <1>1, <1>3, <2>1
       DEF LabelInv, LabelsLinked, BuiltLead, Leads, LabelsComplete, Complete, TunnelsFit,
           HangExplained
  <2>3. NewTables
    BY <1>0, <1>1, <1>2, <1>3, <2>2 DEF TypeOK, NewTables
  <2>4. TunnelsStay
    BY <1>3 DEF TunnelsStay
  <2>5. QED
    BY <1>3, <2>3, <2>4
<1>4. CASE \E first, way, l : Tunnel(first, way, l, p, n, e)
  <2>1. PICK first, way, l : Tunnel(first, way, l, p, n, e)
    BY <1>4
  <2>2. /\ LabelsLinked'
        /\ \A q \in Proto, m \in Node, d \in Egress : mpls0'[q][m][d] = Pop => m = d
        /\ BuiltLead' /\ LabelsComplete' /\ TunnelsFit' /\ HangExplained'
    BY <1>1, <2>1, TunnelKeeps
  <2>3. /\ inet3' \in [Proto -> [Node -> [Egress -> Node \cup {None}]]]
        /\ mpls0' \in [Proto -> [Node -> [Egress -> Node \cup {None, Pop}]]]
        /\ hung' \in BOOLEAN
    BY <2>1 DEF Tunnel
  <2>4. NewTables
    BY <1>0, <1>1, <1>2, <2>2, <2>3 DEF TypeOK, NewTables
  <2>5. first = FirstHop(p, n, e) /\ inet3'[p][n][e] = first
    BY <2>1 DEF Tunnel
  <2>6. inet3[p][n][e] # None => first = inet3[p][n][e]
    BY <2>5 DEF FirstHop
  <2>7. TunnelsStay
    BY <2>1, <2>6 DEF Tunnel, TunnelsStay
  <2>8. QED
    BY <2>4, <2>5, <2>7
<1>5. QED
  BY <1>0, <1>3, <1>4, CreateSteps

\* The LSPs are of their types and leave where inet.3 does.
LspsTyped(new) ==
  \A n \in Node : \A lsp \in new[n] :
    /\ lsp \in [name : Name, egress : Egress \cup {None}, hop : Node \cup {None}]
    /\ lsp.hop # None => lsp.hop = inet3'["RSVP"][n][lsp.egress] /\ lsp.egress \in Egress

LEMMA LspsKept ==
  ASSUME LabelInv, TunnelsStay
  PROVE  LspsTyped(lspdb)
<1> SUFFICES ASSUME NEW n \in Node, NEW lsp \in lspdb[n]
             PROVE  /\ lsp \in [name : Name, egress : Egress \cup {None}, hop : Node \cup {None}]
                    /\ lsp.hop # None => /\ lsp.hop = inet3'["RSVP"][n][lsp.egress]
                                         /\ lsp.egress \in Egress
  BY DEF LspsTyped
<1>1. /\ lsp \in [name : Name, egress : Egress \cup {None}, hop : Node \cup {None}]
      /\ lsp.hop # None => lsp.hop = inet3["RSVP"][n][lsp.egress] /\ lsp.egress \in Egress
  BY DEF LabelInv, TypeOK, LspsLinked
<1>2. "RSVP" \in Proto
  BY DEF Proto
<1>3. QED
  BY <1>1, <1>2 DEF TunnelsStay

LEMMA LdpKeeps ==
  ASSUME LabelInv, NEW n \in Node, NEW e \in Egress, LdpTunnel(n, e)
  PROVE  LabelInv'
<1>1. NewTables /\ TunnelsStay /\ lspdb' = lspdb
  BY CreateKeeps DEF LdpTunnel, Proto
<1>2. LspsTyped(lspdb')
  BY <1>1, LspsKept
<1>3. TypeOK' /\ LspsLinked'
  BY <1>1, <1>2 DEF NewTables, LspsTyped, TypeOK, LspsLinked, LabelInv
<1>4. QED
  BY <1>1, <1>3 DEF NewTables, LabelInv

LEMMA RsvpKeeps ==
  ASSUME LabelInv, NEW n \in Node, NEW e \in Egress, NEW name \in Name, RsvpTunnel(n, e, name)
  PROVE  LabelInv'
<1> DEFINE first == IF Found(n, e) THEN FirstHop("RSVP", n, e) ELSE None
           lsp == [name |-> name, egress |-> IF Found(n, e) THEN e ELSE None, hop |-> first]
<1>0. "RSVP" \in Proto /\ Create("RSVP", n, e)
  BY DEF RsvpTunnel, Proto
<1>1. /\ NewTables /\ TunnelsStay
      /\ Found(n, e) /\ FirstHop("RSVP", n, e) # None => inet3'["RSVP"][n][e] = FirstHop("RSVP", n, e)
  BY <1>0, CreateKeeps
<1>2. lspdb' \in {lspdb, [lspdb EXCEPT ![n] = @ \cup {lsp}]}
  BY DEF RsvpTunnel
<1>3. LspsTyped(lspdb)
  BY <1>1, LspsKept
<1>4. /\ first \in Node \cup {None}
      /\ first # None => Found(n, e) /\ inet3'["RSVP"][n][e] = first
  <2>1. first # None => Found(n, e) /\ inet3'["RSVP"][n][e] = first
    BY <1>1
  <2>2. inet3'["RSVP"][n][e] \in Node \cup {None}
    BY <1>0, <1>1 DEF NewTables
  <2>3. QED
    BY <2>1, <2>2
<1> HIDE DEF first
<1>5. /\ lsp \in [name : Name, egress : Egress \cup {None}, hop : Node \cup {None}]
      /\ lsp.hop # None => lsp.hop = inet3'["RSVP"][n][lsp.egress] /\ lsp.egress \in Egress
  <2>1. PICK d : d = IF Found(n, e) THEN e ELSE None
    OBVIOUS
  <2>2. d \in Egress \cup {None} /\ (first # None => d = e)
    BY <1>4, <2>1
  <2>3. lsp = [name |-> name, egress |-> d, hop |-> first]
    BY <2>1
  <2>4. lsp.hop = first /\ lsp.egress = d
    BY <2>3
  <2>5. lsp \in [name : Name, egress : Egress \cup {None}, hop : Node \cup {None}]
    BY <1>4, <2>2, <2>3
  <2>6. QED
    BY <1>4, <2>2, <2>4, <2>5
<1> HIDE DEF lsp
<1>6. LspsTyped(lspdb') /\ DOMAIN lspdb' = Node
  <2>0. DOMAIN lspdb = Node
    BY DEF LabelInv, LspsLinked
  <2>1. /\ DOMAIN lspdb' = Node
        /\ \A m \in Node : \A x \in lspdb'[m] : x \in lspdb[m] \/ (m = n /\ x = lsp)
    BY <1>2, <2>0
  <2>2. QED
    BY <1>3, <1>5, <2>1 DEF LspsTyped
<1>7. TypeOK' /\ LspsLinked'
  BY <1>1, <1>6 DEF NewTables, LspsTyped, TypeOK, LspsLinked
<1>8. QED
  BY <1>1, <1>7 DEF NewTables, LabelInv

-----------------------------------------------------------------------------
(* The invariant of segment routing.                                       *)

LEMMA TableFacts ==
  ASSUME NEW S, NEW f, f = [x \in S |-> f[x]]
  PROVE  Table(f) = f
BY DEF Table

SidOf(n) == [pfx : {p \in Prefix : n \in p}, idx : Index]

SidsTyped ==
  /\ DOMAIN sids = Node /\ DOMAIN srRoutes = Node /\ DOMAIN srMpls = Node
  /\ \A n \in Node : sids[n] \in Seq(SidOf(n))

ConfigTyped ==
  /\ spring \subseteq Node
  /\ start \in [Node -> Starts \cup {DefaultStart}]
  /\ range \in [Node -> Ranges \cup {DefaultRange}]
  /\ \A n \in Node : /\ \A k \in DOMAIN sids[n] : sids[n][k] \in SidOf(n)
                     /\ sids[n] # <<>> => n \in spring

TablesTyped == \A n \in Node : srRoutes[n] \subseteq Label /\ DOMAIN srMpls[n] \subseteq srRoutes[n]

\* A block that is too short, or a subnet whose routers do not have the same SID.
Misconfigured ==
  \/ \E n \in spring, i \in Index : i >= range[n]
  \/ \E m \in Mappings, h \in spring :
       /\ h \in m.pfx
       /\ ~\E x \in Mappings : x.host = h /\ x.idx = m.idx

AssertExplained == stopped = "assert" => Misconfigured

LEMMA SrTypes ==
  SrTypeOK <=> /\ TypeOK /\ ConfigTyped /\ TablesTyped
               /\ stopped \in {"no", "assert", "pointer"} /\ srCommands \in 0..MaxSrCommands
BY DEF SrTypeOK, ConfigTyped, TablesTyped, SidOf

SrInv == LabelInv /\ SrTypeOK /\ SidsTyped /\ AssertExplained

\* What a run goes through are SIDs of routers that run segment routing.
LEMMA ProcessedFacts ==
  ASSUME ConfigTyped, NEW n \in Node, NEW x \in Processed(n)
  PROVE  /\ n \in spring
         /\ \E h \in spring : \E k \in DOMAIN sids[h] : x.sid = sids[h][k] /\ x.sid \in SidOf(h)
<1>1. n \in spring
  BY DEF Processed
<1>2. PICK h \in spring : \E k \in DOMAIN sids[h] : x.sid = sids[h][k]
  <2> DEFINE d == Table([h \in Node |-> Distance(h)[n]])
             hosts == {h \in spring : d[h] < Inf}
             From(h) == {[dist |-> d[h], place |-> k, sid |-> sids[h][k],
                          hop |-> IgpRoute(n, sids[h][k].pfx, d)] : k \in DOMAIN sids[h]}
  <2>1. Processed(n) = UNION {From(h) : h \in hosts}
    BY <1>1 DEF Processed
  <2>2. hosts \subseteq spring
    OBVIOUS
  <2> HIDE DEF hosts, d
  <2>3. PICK h \in hosts : x \in From(h)
    BY <2>1
  <2>4. PICK k \in DOMAIN sids[h] : x.sid = sids[h][k]
    BY <2>3
  <2>5. QED
    BY <2>2, <2>4
<1>3. QED
  BY <1>1, <1>2 DEF ConfigTyped, SidOf

LEMMA RefreshedFacts ==
  ASSUME ConfigTyped, NEW n \in Node
  PROVE  Refreshed(n, Processed(n)) \subseteq Label
<1>1. start[n] \in Starts \cup {DefaultStart}
  BY DEF ConfigTyped
<1>2. \A x \in Processed(n) : x.sid.idx \in Index
  BY ProcessedFacts DEF SidOf
<1>3. QED
  BY <1>1, <1>2 DEF Refreshed, Label

\* The entries of mpls.0 belong to routes: the labels of the routes of this run, and
\* those of older ones.
LEMMA MplsFacts ==
  ASSUME NEW n, NEW P, NEW old
  PROVE  /\ DOMAIN MplsAfter(n, P, old) \subseteq Refreshed(n, P) \cup old
BY DEF MplsAfter

\* A run stops at an assertion for the reasons given.
LEMMA AssertFacts ==
  ASSUME ConfigTyped, NEW n \in Node, n \in spring, ~Asserted(n, Processed(n))
  PROVE  Misconfigured
<1>1. PICK x \in Processed(n) :
        ~(/\ x.sid.idx < range[n]
          /\ x.hop \in spring => IF x.hop \in x.sid.pfx THEN HasSid(x.hop, x.sid.idx)
                                 ELSE x.sid.idx < range[x.hop])
  BY DEF Asserted
<1>2. PICK h \in spring : \E k \in DOMAIN sids[h] : x.sid = sids[h][k] /\ x.sid \in SidOf(h)
  BY ProcessedFacts
<1>3. PICK k \in DOMAIN sids[h] : x.sid = sids[h][k] /\ x.sid \in SidOf(h)
  BY <1>2
<1>4. x.sid.idx \in Index /\ x.sid.idx \in Nat /\ spring \subseteq Node
  BY <1>3, SrConstants DEF SidOf, ConfigTyped
<1>5. \A m \in Node : range[m] \in Nat
  BY SrConstants DEF ConfigTyped
<1>6. CASE ~(x.sid.idx < range[n])
  BY <1>4, <1>5, <1>6 DEF Misconfigured
<1>7. CASE x.hop \in spring /\ x.hop \notin x.sid.pfx /\ ~(x.sid.idx < range[x.hop])
  <2>1. x.sid.idx >= range[x.hop]
    BY <1>4, <1>5, <1>7
  <2>2. QED
    BY <1>4, <1>7, <2>1 DEF Misconfigured
<1>8. CASE x.hop \in spring /\ x.hop \in x.sid.pfx /\ ~HasSid(x.hop, x.sid.idx)
  <2>1. PICK m : m = Mapping(h, sids[h][k])
    OBVIOUS
  <2>2. m \in Mappings /\ m.pfx = x.sid.pfx /\ m.idx = x.sid.idx
    BY <1>3, <1>4, <2>1 DEF Mappings, Mapping
  <2>3. ~\E y \in Mappings : y.host = x.hop /\ y.idx = m.idx
    <3> SUFFICES ASSUME NEW y \in Mappings, y.host = x.hop, y.idx = m.idx
                 PROVE  FALSE
      OBVIOUS
    <3>1. PICK g \in Node : \E j \in DOMAIN sids[g] : y = Mapping(g, sids[g][j])
      BY DEF Mappings
    <3>2. PICK j \in DOMAIN sids[g] : y = Mapping(g, sids[g][j])
      BY <3>1
    <3>3. g = x.hop /\ sids[g][j].idx = x.sid.idx
      BY <2>2, <3>2 DEF Mapping
    <3>4. QED
      BY <1>8, <3>2, <3>3 DEF HasSid
  <2>4. QED
    BY <1>8, <2>2, <2>3 DEF Misconfigured
<1>9. QED
  BY <1>1, <1>6, <1>7, <1>8

LEMMA FirstTables ==
  ASSUME Init
  PROVE  LabelInv
<1>1. /\ up = Directed
      /\ inet0 = [n \in Node |-> [e \in Egress |-> RouteTo(n, e, None)]]
      /\ enabled \in [Proto -> {Node, Node \ Toggled}]
      /\ inet3 = [p \in Proto |-> [n \in Node |-> [e \in Egress |-> None]]]
      /\ mpls0 = [p \in Proto |-> [n \in Node |-> [e \in Egress |-> None]]]
      /\ lspdb = [n \in Node |-> {}]
      /\ built = {} /\ aborted = {} /\ hung = FALSE /\ commands \in 0..MaxCommands
  BY DEF Init
<1>2. up \in DOMAIN Distances
  <2>1. DOMAIN Distances = {Directed \ down : down \in SUBSET Flaky}
    BY DEF Distances
  <2>2. up = Directed \ {} /\ {} \in SUBSET Flaky
    BY <1>1
  <2>3. QED
    BY <2>1, <2>2
<1>3. Egress \subseteq Node /\ None # Pop /\ None \notin Node /\ Pop \notin Node
  BY LabelConstants
<1>4. ASSUME NEW n \in Node, NEW e \in Egress
      PROVE  /\ inet0[n][e] \in Node \cup {None, Local}
             /\ inet0[n][e] \in Node => n # e /\ <<n, inet0[n][e]>> \in Directed
  <2>1. PICK r : r = RouteTo(n, e, None)
    OBVIOUS
  <2>2. r \in Node \cup {None, Local} /\ (r \in Node => LeadsNearer(n, r, e))
    BY <1>2, <1>3, <2>1, RouteFacts
  <2>3. inet0[n][e] = r
    BY <1>1, <2>1
  <2>4. QED
    BY <1>1, <2>2, <2>3 DEF LeadsNearer
<1>5. inet0 \in [Node -> [Egress -> Node \cup {None, Local}]]
  <2>1. \A n \in Node : inet0[n] = [e \in Egress |-> inet0[n][e]]
    BY <1>1
  <2>2. \A n \in Node : inet0[n] \in [Egress -> Node \cup {None, Local}]
    BY <1>4, <2>1
  <2>3. inet0 = [n \in Node |-> inet0[n]]
    BY <1>1
  <2>4. QED
    BY <2>2, <2>3
<1>6. TypeOK
  BY <1>1, <1>2, <1>3, <1>5 DEF TypeOK
<1>7. \A p \in Proto, e \in Egress : LabelsOf(p, e) = [n \in Node |-> None]
  BY <1>1 DEF LabelsOf
<1>8. LabelsLinked
  BY <1>3, <1>7 DEF LabelsLinked, Labels
<1>9. LabelsComplete
  BY <1>7 DEF LabelsComplete, Complete
<1>10. RoutesLinked /\ LspsLinked /\ BuiltLead /\ TunnelsFit /\ HangExplained
  BY <1>1, <1>4 DEF RoutesLinked, LspsLinked, BuiltLead, TunnelsFit, HangExplained
<1>11. QED
  BY <1>6, <1>8, <1>9, <1>10 DEF LabelInv

LEMMA FirstState ==
  ASSUME InitSr
  PROVE  SrInv
<1>1. LabelInv /\ commands \in 0..MaxCommands
  BY FirstTables DEF InitSr, Init
<1>2. /\ range = [n \in Node |-> DefaultRange] /\ stopped = "no"
      /\ srRoutes = [n \in Node |-> Refreshed(n, Processed(n))]
      /\ srMpls = [n \in Node |-> MplsAfter(n, Processed(n), {})]
  BY DEF InitSr
<1>3. /\ srCommands \in 0..MaxSrCommands
      /\ spring \subseteq Node
      /\ start \in [Node -> Starts \cup {DefaultStart}]
  BY SrConstants DEF InitSr
<1>4. /\ DOMAIN sids = Node
      /\ \A n \in Node : sids[n] \in Seq(SidOf(n)) /\ (sids[n] # <<>> => n \in spring)
  <2>1. CASE sids = [n \in Node |-> <<>>]
    BY <2>1
  <2>2. CASE spring = Node /\ \E i \in Index :
               sids = [n \in Node |-> IF n \in Egress THEN <<Sid({n}, i)>> ELSE <<>>]
    <3>1. PICK i \in Index : sids = [n \in Node |-> IF n \in Egress THEN <<Sid({n}, i)>> ELSE <<>>]
      BY <2>2
    <3>2. \A n \in Egress : Sid({n}, i) \in SidOf(n)
      BY SrConstants DEF Sid, SidOf
    <3>3. ASSUME NEW n \in Node
          PROVE  sids[n] \in Seq(SidOf(n))
      <4>1. PICK S : S = SidOf(n)
        OBVIOUS
      <4>2. PICK x : x = Sid({n}, i)
        OBVIOUS
      <4>3. CASE n \in Egress
        <5>1. sids[n] = <<x>> /\ x \in S
          BY <3>1, <3>2, <4>1, <4>2, <4>3
        <5>2. QED
          BY <4>1, <5>1
      <4>4. CASE n \notin Egress
        BY <3>1, <4>4
      <4>5. QED
        BY <4>3, <4>4
    <3>4. QED
      BY <2>2, <3>1, <3>3
  <2>3. QED
    BY <2>1, <2>2 DEF InitSr
<1>5. ConfigTyped
  <2>1. \A n \in Node : \A k \in DOMAIN sids[n] : sids[n][k] \in SidOf(n)
    BY <1>4
  <2>2. QED
    BY <1>2, <1>3, <1>4, <2>1 DEF ConfigTyped
<1>6. TablesTyped /\ DOMAIN srRoutes = Node /\ DOMAIN srMpls = Node
  <2>1. \A n \in Node : /\ Refreshed(n, Processed(n)) \subseteq Label
                        /\ DOMAIN MplsAfter(n, Processed(n), {}) \subseteq Refreshed(n, Processed(n))
    BY <1>5, RefreshedFacts, MplsFacts
  <2>2. QED
    BY <1>2, <2>1 DEF TablesTyped
<1>7. SrTypeOK /\ SidsTyped
  BY <1>1, <1>2, <1>3, <1>4, <1>5, <1>6, SrTypes DEF SidsTyped, LabelInv
<1>8. QED
  BY <1>1, <1>2, <1>7 DEF SrInv, AssertExplained

-----------------------------------------------------------------------------
(* Every step keeps it.                                                    *)

\* An action of LabelSwitching, or the same with new routes.
LEMMA OtherKeeps ==
  ASSUME SrInv, LabelInv', UNCHANGED <<config, srRoutes, srMpls, stopped, srCommands>>
  PROVE  SrInv'
<1>1. UNCHANGED <<spring, start, range, sids>>
  BY DEF config
<1>2. ConfigTyped' /\ TablesTyped' /\ SidsTyped' /\ AssertExplained'
  <2>1. ConfigTyped /\ TablesTyped /\ SidsTyped /\ AssertExplained
    BY SrTypes DEF SrInv
  <2>2. ConfigTyped' /\ TablesTyped' /\ SidsTyped'
    BY <1>1, <2>1 DEF ConfigTyped, TablesTyped, SidsTyped
  <2>3. UNCHANGED Misconfigured
    BY <1>1 DEF Misconfigured, Mappings
  <2>4. QED
    BY <2>1, <2>2, <2>3 DEF AssertExplained
<1>3. TypeOK'
  BY DEF LabelInv
<1>4. SrTypeOK'
  BY <1>2, <1>3, SrTypes DEF SrInv, SrTypeOK, ConfigTyped, TablesTyped, SidOf
<1>5. QED
  BY <1>2, <1>4 DEF SrInv

\* The program stops, and nothing else happens.
LEMMA StopKeeps ==
  ASSUME SrInv, NEW how \in {"assert", "pointer"}, Stop(how), srCommands' \in 0..MaxSrCommands,
         how = "assert" => Misconfigured
  PROVE  SrInv'
<1>1. /\ UNCHANGED vars /\ UNCHANGED <<spring, start, range, sids>>
      /\ UNCHANGED <<srRoutes, srMpls>> /\ stopped' = how
  BY DEF Stop, config, srTables
<1>2. LabelInv'
  BY <1>1, NothingKept DEF SrInv
<1>3. ConfigTyped' /\ TablesTyped' /\ SidsTyped' /\ UNCHANGED Misconfigured
  <2>1. ConfigTyped /\ TablesTyped /\ SidsTyped
    BY SrTypes DEF SrInv
  <2>2. ConfigTyped' /\ TablesTyped' /\ SidsTyped'
    BY <1>1, <2>1 DEF ConfigTyped, TablesTyped, SidsTyped
  <2>3. UNCHANGED Misconfigured
    BY <1>1 DEF Misconfigured, Mappings
  <2>4. QED
    BY <2>2, <2>3
<1>4. SrTypeOK'
  BY <1>1, <1>2, <1>3 DEF LabelInv, SrTypeOK, ConfigTyped, TablesTyped, SidOf
<1>5. QED
  BY <1>1, <1>2, <1>3, <1>4 DEF SrInv, AssertExplained

\* A change of the configuration.
LEMMA ConfiguredKeeps ==
  ASSUME SrInv, Configured, srCommands' \in 0..MaxSrCommands, ConfigTyped',
         DOMAIN sids' = Node, \A n \in Node : sids'[n] \in Seq(SidOf(n))
  PROVE  SrInv'
<1>1. UNCHANGED vars /\ UNCHANGED <<srRoutes, srMpls>> /\ stopped' = "no"
  BY DEF Configured, srTables
<1>2. LabelInv'
  BY <1>1, NothingKept DEF SrInv
<1>3. TablesTyped' /\ SidsTyped' /\ AssertExplained'
  BY <1>1, SrTypes DEF SrInv, TablesTyped, SidsTyped, AssertExplained
<1>4. SrTypeOK'
  BY <1>1, <1>2, <1>3 DEF LabelInv, SrTypeOK, ConfigTyped, TablesTyped, SidOf
<1>5. QED
  BY <1>2, <1>3, <1>4 DEF SrInv

LEMMA SrRunKeeps ==
  ASSUME SrInv, NEW S \in SUBSET Node, SrRun(S)
  PROVE  SrInv'
<1>1. PICK P : P = Table([n \in S |-> Processed(n)])
  OBVIOUS
<1>2. \A n \in S : P[n] = Processed(n)
  <2>1. PICK f : f = [n \in S |-> Processed(n)]
    OBVIOUS
  <2>2. f = [n \in S |-> f[n]]
    BY <2>1
  <2>3. P = f
    BY <1>1, <2>1, <2>2, TableFacts
  <2>4. QED
    BY <2>1, <2>3
<1>3. stopped = "no" /\ ConfigTyped /\ TablesTyped /\ SidsTyped /\ LabelInv
  BY SrTypes DEF SrRun, SrInv
<1>4. CASE \A n \in S \cap spring : Asserted(n, P[n]) /\ Stale(n, P[n]) = {}
  <2>1. /\ Run(S)
        /\ srRoutes' = [n \in Node |-> IF n \in S \cap spring THEN Refreshed(n, P[n]) ELSE srRoutes[n]]
        /\ srMpls' = [n \in Node |-> IF n \in S THEN MplsAfter(n, P[n], DOMAIN srMpls[n]) ELSE srMpls[n]]
        /\ UNCHANGED <<config, stopped, srCommands>>
    BY <1>1, <1>4 DEF SrRun
  <2>2. LabelInv'
    BY <1>3, <2>1, RunKeeps
  <2>3. UNCHANGED <<spring, start, range, sids>>
    BY <2>1 DEF config
  <2>4. ConfigTyped'
    BY <1>3, <2>3 DEF ConfigTyped
  <2>5. ASSUME NEW n \in Node
        PROVE  srRoutes'[n] \subseteq Label /\ DOMAIN srMpls'[n] \subseteq srRoutes'[n]
    <3>0. srRoutes[n] \subseteq Label /\ DOMAIN srMpls[n] \subseteq srRoutes[n]
      BY <1>3 DEF TablesTyped
    <3>1. CASE n \notin S
      BY <2>1, <3>0, <3>1
    <3>2. CASE n \in S /\ n \in spring
      <4>1. srRoutes'[n] = Refreshed(n, P[n]) /\ srMpls'[n] = MplsAfter(n, P[n], DOMAIN srMpls[n])
        BY <2>1, <3>2
      <4>2. Refreshed(n, P[n]) \subseteq Label
        BY <1>2, <1>3, <3>2, RefreshedFacts
      <4>3. srRoutes[n] \subseteq Refreshed(n, P[n])
        BY <1>4, <3>2 DEF Stale
      <4>4. DOMAIN MplsAfter(n, P[n], DOMAIN srMpls[n]) \subseteq Refreshed(n, P[n]) \cup DOMAIN srMpls[n]
        BY MplsFacts
      <4>5. QED
        BY <3>0, <4>1, <4>2, <4>3, <4>4
    <3>3. CASE n \in S /\ n \notin spring
      <4>1. srRoutes'[n] = srRoutes[n] /\ srMpls'[n] = MplsAfter(n, P[n], DOMAIN srMpls[n])
        BY <2>1, <3>3
      <4>2. P[n] = {}
        BY <1>2, <3>3 DEF Processed
      <4>3. Refreshed(n, P[n]) = {}
        BY <4>2 DEF Refreshed
      <4>4. DOMAIN MplsAfter(n, P[n], DOMAIN srMpls[n]) \subseteq Refreshed(n, P[n]) \cup DOMAIN srMpls[n]
        BY MplsFacts
      <4>5. QED
        BY <3>0, <4>1, <4>3, <4>4
    <3>4. QED
      BY <3>1, <3>2, <3>3
  <2>6. TablesTyped'
    BY <2>5 DEF TablesTyped
  <2>7. SidsTyped' /\ AssertExplained'
    BY <1>3, <2>1, <2>3 DEF SidsTyped, AssertExplained
  <2>8. SrTypeOK'
    BY <2>1, <2>2, <2>4, <2>6 DEF SrInv, LabelInv, SrTypeOK, ConfigTyped, TablesTyped, SidOf
  <2>9. QED
    BY <2>2, <2>7, <2>8 DEF SrInv
<1>5. CASE ~\A n \in S \cap spring : Asserted(n, P[n]) /\ Stale(n, P[n]) = {}
  <2>1. PICK how : how = IF \A n \in S \cap spring : Asserted(n, P[n]) THEN "pointer" ELSE "assert"
    OBVIOUS
  <2>2. Stop(how) /\ UNCHANGED srCommands
    BY <1>1, <1>5, <2>1 DEF SrRun
  <2>3. how \in {"assert", "pointer"}
    BY <2>1
  <2>4. how = "assert" => Misconfigured
    <3> SUFFICES ASSUME NEW n \in S \cap spring, ~Asserted(n, P[n])
                 PROVE  Misconfigured
      BY <2>1
    <3>1. QED
      BY <1>2, <1>3, AssertFacts
  <2>5. srCommands' \in 0..MaxSrCommands
    BY <2>2, SrTypes DEF SrInv
  <2>6. QED
    BY <2>2, <2>3, <2>4, <2>5, StopKeeps
<1>6. QED
  BY <1>4, <1>5

\* SIDs of the right type, of routers that run segment routing.
SidsFit(new, on) ==
  /\ DOMAIN new = Node
  /\ \A n \in Node : new[n] \in Seq(SidOf(n)) /\ (new[n] # <<>> => n \in on)

LEMMA SidsNow ==
  ASSUME SrInv
  PROVE  SidsFit(sids, spring)
BY SrTypes DEF SrInv, SidsTyped, SidsFit, ConfigTyped

LEMMA SidsThen ==
  ASSUME SrInv, Configured, SrCommand, SidsFit(sids', spring'), spring' \subseteq Node,
         start' \in [Node -> Starts \cup {DefaultStart}],
         range' \in [Node -> Ranges \cup {DefaultRange}]
  PROVE  SrInv'
<1>1. srCommands' \in 0..MaxSrCommands
  BY SrConstants, SrTypes DEF SrInv, SrCommand
<1>2. \A n \in Node : sids'[n] \in Seq(SidOf(n)) /\ (sids'[n] # <<>> => n \in spring')
  BY DEF SidsFit
<1>3. \A n \in Node : \A k \in DOMAIN sids'[n] : sids'[n][k] \in SidOf(n)
  BY <1>2
<1>4. ConfigTyped'
  BY <1>2, <1>3 DEF ConfigTyped
<1>5. QED
  BY <1>1, <1>2, <1>4, ConfiguredKeeps DEF SidsFit

\* The configuration before a command, for the lemmas below.
LEMMA ConfigNow ==
  ASSUME SrInv
  PROVE  /\ spring \in SUBSET Node
         /\ start \in [Node -> Starts \cup {DefaultStart}]
         /\ range \in [Node -> Ranges \cup {DefaultRange}]
         /\ DOMAIN sids = Node
         /\ \A n \in Node : sids[n] \in Seq(SidOf(n)) /\ (sids[n] # <<>> => n \in spring)
BY SidsNow, SrTypes DEF SrInv, SidsFit, ConfigTyped

LEMMA EnableSrKeeps ==
  ASSUME SrInv, NEW n \in Node, EnableSr(n)
  PROVE  SrInv'
<1>1. spring' \subseteq Node
  BY ConfigNow DEF EnableSr
<1>2. SidsFit(sids', spring')
  BY ConfigNow DEF EnableSr, SidsFit
<1>3. /\ start' \in [Node -> Starts \cup {DefaultStart}]
      /\ range' \in [Node -> Ranges \cup {DefaultRange}]
  BY ConfigNow DEF EnableSr
<1>4. QED
  BY <1>1, <1>2, <1>3, SidsThen DEF EnableSr

LEMMA DisableSrKeeps ==
  ASSUME SrInv, NEW n \in Node, DisableSr(n)
  PROVE  SrInv'
<1>1. CASE n \notin spring
  <2>1. srCommands' \in 0..MaxSrCommands
    BY SrConstants, SrTypes DEF SrInv, DisableSr, SrCommand
  <2>2. Stop("pointer")
    BY <1>1 DEF DisableSr
  <2>3. QED
    BY <2>1, <2>2, StopKeeps
<1>2. CASE n \in spring
  <2>1. /\ SrCommand /\ Configured
        /\ spring' = spring \ {n} /\ sids' = [sids EXCEPT ![n] = <<>>]
        /\ UNCHANGED <<start, range>>
    BY <1>2 DEF DisableSr
  <2>2. SidsFit(sids', spring')
    <3>1. sids'[n] = <<>> /\ DOMAIN sids' = Node
      BY <2>1, ConfigNow
    <3>2. \A m \in Node : m # n => sids'[m] = sids[m]
      BY <2>1, ConfigNow
    <3>3. sids'[n] \in Seq(SidOf(n))
      BY <3>1
    <3>4. QED
      BY <2>1, <3>1, <3>2, <3>3, ConfigNow DEF SidsFit
  <2>3. QED
    BY <2>1, <2>2, ConfigNow, SidsThen
<1>3. QED
  BY <1>1, <1>2

LEMMA SetSidKeeps ==
  ASSUME SrInv, NEW n \in Node, NEW pfx \in Prefix, NEW i \in Index, SetSid(n, pfx, i)
  PROVE  SrInv'
<1>0. SrCommand /\ n \in spring /\ n \in pfx /\ srCommands' \in 0..MaxSrCommands
  BY SrConstants, SrTypes DEF SrInv, SetSid, SrCommand
<1>1. CASE i >= range[n]
  <2>1. Stop("assert")
    BY <1>1 DEF SetSid
  <2>2. Misconfigured
    BY <1>0, <1>1 DEF Misconfigured
  <2>3. QED
    BY <1>0, <2>1, <2>2, StopKeeps
<1>2. CASE ~(i >= range[n]) /\ Numbered(n, pfx) # {}
  <2>1. Stop("pointer")
    BY <1>2 DEF SetSid
  <2>2. QED
    BY <1>0, <2>1, StopKeeps
<1>3. CASE ~(i >= range[n]) /\ Numbered(n, pfx) = {}
  <2>1. /\ sids' = [sids EXCEPT ![n] = <<Sid(pfx, i)>> \o @]
        /\ Configured /\ UNCHANGED <<spring, start, range>>
    BY <1>3 DEF SetSid
  <2>2. PICK S : S = SidOf(n)
    OBVIOUS
  <2>3. PICK x : x = Sid(pfx, i)
    OBVIOUS
  <2>4. x \in S
    BY <1>0, <2>2, <2>3 DEF Sid, SidOf
  <2>5. sids[n] \in Seq(S)
    BY <2>2, ConfigNow
  <2>6. <<x>> \o sids[n] \in Seq(S)
    BY <2>4, <2>5
  <2>7. sids'[n] = <<x>> \o sids[n] /\ DOMAIN sids' = Node
    BY <2>1, <2>3, ConfigNow
  <2>8. \A m \in Node : m # n => sids'[m] = sids[m]
    BY <2>1, ConfigNow
  <2>9. sids'[n] \in Seq(SidOf(n))
    BY <2>2, <2>6, <2>7
  <2>10. SidsFit(sids', spring')
    BY <1>0, <2>1, <2>7, <2>8, <2>9, ConfigNow DEF SidsFit
  <2>11. QED
    BY <1>0, <2>1, <2>10, ConfigNow, SidsThen
<1>4. QED
  BY <1>1, <1>2, <1>3

LEMMA UnsetSidKeeps ==
  ASSUME SrInv, NEW n \in Node, NEW pfx \in Prefix, UnsetSid(n, pfx)
  PROVE  SrInv'
<1>0. SrCommand /\ n \in spring /\ srCommands' \in 0..MaxSrCommands
  BY SrConstants, SrTypes DEF SrInv, UnsetSid, SrCommand
<1>1. PICK k \in Numbered(n, pfx) :
        IF sids[n][k].idx >= range[n] THEN Stop("assert")
        ELSE /\ sids' = [sids EXCEPT ![n] = RemoveAt(@, k)]
             /\ Configured /\ UNCHANGED <<spring, start, range>>
  BY DEF UnsetSid
<1>2. k \in DOMAIN sids[n]
  BY DEF Numbered
<1>3. sids[n] \in Seq(SidOf(n))
  BY ConfigNow
<1>4. CASE sids[n][k].idx >= range[n]
  <2>0. sids[n][k] \in SidOf(n)
    BY <1>2, <1>3
  <2>1. sids[n][k].idx \in Index
    BY <2>0 DEF SidOf
  <2>2. Misconfigured
    BY <1>0, <1>4, <2>1 DEF Misconfigured
  <2>3. QED
    BY <1>0, <1>1, <1>4, <2>2, StopKeeps
<1>5. CASE ~(sids[n][k].idx >= range[n])
  <2>1. /\ sids' = [sids EXCEPT ![n] = RemoveAt(@, k)]
        /\ Configured /\ UNCHANGED <<spring, start, range>>
    BY <1>1, <1>5
  <2>2. PICK S : S = SidOf(n)
    OBVIOUS
  <2>3. PICK s : s = sids[n]
    OBVIOUS
  <2>4. s \in Seq(S) /\ k \in 1..Len(s)
    BY <1>2, <1>3, <2>2, <2>3
  <2>5. RemoveAt(s, k) \in Seq(S)
    BY <2>4, RemoveAtFacts
  <2>6. sids'[n] = RemoveAt(s, k) /\ DOMAIN sids' = Node
    BY <2>1, <2>3, ConfigNow
  <2>7. \A m \in Node : m # n => sids'[m] = sids[m]
    BY <2>1, ConfigNow
  <2>8. sids'[n] \in Seq(SidOf(n))
    BY <2>2, <2>5, <2>6
  <2>9. SidsFit(sids', spring')
    BY <1>0, <2>1, <2>6, <2>7, <2>8, ConfigNow DEF SidsFit
  <2>10. QED
    BY <1>0, <2>1, <2>9, ConfigNow, SidsThen
<1>6. QED
  BY <1>4, <1>5

LEMMA BlockKeeps ==
  ASSUME SrInv, NEW n \in Node,
         (\E r \in Ranges : SetRange(n, r)) \/ (\E s \in Starts : SetStart(n, s))
  PROVE  SrInv'
<1>1. /\ SrCommand /\ Configured /\ UNCHANGED <<spring, sids>>
      /\ start' \in [Node -> Starts \cup {DefaultStart}]
      /\ range' \in [Node -> Ranges \cup {DefaultRange}]
  BY ConfigNow DEF SetRange, SetStart
<1>2. SidsFit(sids', spring')
  BY <1>1, ConfigNow DEF SidsFit
<1>3. QED
  BY <1>1, <1>2, ConfigNow, SidsThen

LEMMA SrStep ==
  ASSUME SrInv, NextSr \/ UNCHANGED <<vars, srVars>>
  PROVE  SrInv'
<1>0. LabelInv
  BY DEF SrInv
<1>1. ASSUME LabelInv', UNCHANGED srVars
      PROVE  SrInv'
  BY <1>1, OtherKeeps DEF srVars, srTables
<1>2. CASE UNCHANGED <<vars, srVars>>
  BY <1>0, <1>1, <1>2, NothingKept
<1>3. CASE \E l \in Flaky : Other(SetStatus(l))
  BY <1>0, <1>1, <1>3, StatusKeeps DEF Other
<1>4. CASE \E S \in {{n} : n \in Node} \cup {Node} : SrRun(S)
  BY <1>4, SrRunKeeps
<1>5. CASE \E n \in Node, e \in Egress : Other(LdpTunnel(n, e))
  BY <1>0, <1>1, <1>5, LdpKeeps DEF Other
<1>6. CASE \E n \in Node, e \in Egress, name \in Name : Other(RsvpTunnel(n, e, name))
  BY <1>0, <1>1, <1>6, RsvpKeeps DEF Other
<1>7. CASE \E n \in Toggled, p \in Proto : Other(Toggle(p, n))
  BY <1>0, <1>1, <1>7, ToggleKeeps DEF Other
<1>8. CASE \E n \in Node : EnableSr(n) \/ DisableSr(n)
  BY <1>8, EnableSrKeeps, DisableSrKeeps
<1>9. CASE \E n \in Node, pfx \in Prefix : UnsetSid(n, pfx) \/ \E i \in Index : SetSid(n, pfx, i)
  BY <1>9, UnsetSidKeeps, SetSidKeeps
<1>10. CASE \E n \in Node : (\E r \in Ranges : SetRange(n, r)) \/ (\E s \in Starts : SetStart(n, s))
  BY <1>10, BlockKeeps
<1>11. QED
  BY <1>2, <1>3, <1>4, <1>5, <1>6, <1>7, <1>8, <1>9, <1>10 DEF NextSr

LEMMA SrInvariance == SrSpec => []SrInv
BY FirstState, SrStep, PTL DEF SrSpec

-----------------------------------------------------------------------------
(* Results.                                                                *)

\* On every network every variable keeps its type.
THEOREM SrTyped == SrSpec => []SrTypeOK
<1>1. SrInv => SrTypeOK
  BY DEF SrInv
<1>2. QED
  BY <1>1, SrInvariance, PTL

\* On every network a tunnel whose creation was not reported as failed leads to its
\* egress for ever.
THEOREM TunnelsDeliver == SrSpec => []BuiltTunnelsDeliver
<1>1. SrInv => BuiltTunnelsDeliver
  <2> SUFFICES ASSUME SrInv, NEW t \in built
               PROVE  /\ inet3[t[1]][t[2]][t[3]] # None
                      /\ LabelEnd(t[1], inet3[t[1]][t[2]][t[3]], t[3], Directed) = t[3]
    BY DEF BuiltTunnelsDeliver
  <2>1. t \in Proto \X Node \X Egress /\ Leads(t[1], t[2], t[3]) /\ LabelsLinked
    BY DEF SrInv, LabelInv, BuiltLead
  <2>2. PICK p \in Proto, n \in Node, e \in Egress : t = <<p, n, e>>
    BY <2>1
  <2>3. /\ inet3[p][n][e] \in Node /\ LabelsOf(p, e)[e] = Pop
        /\ Carries(LabelsOf(p, e), e, inet3[p][n][e]) /\ LabelsOf(p, e) \in Labels(e)
    BY <2>1, <2>2 DEF Leads, LabelsLinked
  <2>4. LabelEnd(p, inet3[p][n][e], e, Directed) = e
    BY <2>3, LabelsForward
  <2>5. QED
    BY <2>2, <2>3, <2>4, LabelConstants
<1>2. QED
  BY <1>1, SrInvariance, PTL

\* On every network the program stops for the reasons given only.
THEOREM StopsForAReason == SrSpec => []StopsExplained
<1>1. SrInv => StopsExplained
  <2>1. LabelInv => HangExplained
    BY DEF LabelInv
  <2>2. QED
    BY <2>1 DEF SrInv, HangExplained, RoutesCurrent, AssertExplained, Misconfigured, StopsExplained
<1>2. QED
  BY <1>1, SrInvariance, PTL

-----------------------------------------------------------------------------
(* Ping.                                                                   *)

\* Every router reaches the egresses.
Connected == \A n \in Node, e \in Egress : DistanceOver(Directed, e)[n] < Inf

RoutesTo(e) == [n \in Node |-> RouteTo(n, e, None)]

LEMMA RoutesCarry ==
  ASSUME up \in DOMAIN Distances, NEW e \in Node, \A m \in Node : Distance(e)[m] < Inf,
         NEW n \in Node
  PROVE  Carries(RoutesTo(e), e, n)
<1> SUFFICES ASSUME NEW A \in SUBSET Node, e \in A,
                    \A m \in Node : RoutesTo(e)[m] \in A => m \in A, n \notin A
             PROVE  FALSE
  BY DEF Carries
<1>1. PICK d : d = Distance(e)
  OBVIOUS
<1>2. \A m \in Node : d[m] \in Nat
  BY <1>1, RouteFacts
<1>3. PICK m \in Node \ A : \A x \in Node \ A : d[m] <= d[x]
  <2> DEFINE T == {d[x] : x \in Node \ A}
  <2>1. T \in SUBSET Nat /\ T # {}
    BY <1>2
  <2> HIDE DEF T
  <2>2. PICK t \in T : \A y \in T : t <= y
    BY <2>1, LeastExists
  <2>3. QED
    BY <2>2 DEF T
<1>4. PICK r : r = RouteTo(m, e, None)
  OBVIOUS
<1>5. r \in Node /\ LeadsNearer(m, r, e)
  BY <1>1, <1>3, <1>4, RouteFacts
<1>6. d[r] < d[m] /\ d[r] \in Nat /\ d[m] \in Nat
  BY <1>1, <1>5 DEF LeadsNearer
<1>7. r \in A
  BY <1>3, <1>5, <1>6
<1>8. QED
  BY <1>3, <1>4, <1>7 DEF RoutesTo

\* A walk along routes comes to their end.
LEMMA RoutesArrive ==
  ASSUME up \in DOMAIN Distances, NEW e \in Node, \A m \in Node : Distance(e)[m] < Inf,
         NEW x \in [0..Cardinality(Node) -> Node],
         \A k \in 0..Cardinality(Node) :
           k < Cardinality(Node) /\ x[k] # e => x[k + 1] = RouteTo(x[k], e, None)
  PROVE  \E k \in 0..Cardinality(Node) : x[k] = e
<1> SUFFICES ASSUME \A k \in 0..Cardinality(Node) : x[k] # e
             PROVE  FALSE
  OBVIOUS
<1>1. IsWay(RoutesTo(e), x)
  BY DEF IsWay, RoutesTo
<1>2. x[0] \in Node
  BY LabelConstants, FS_CardinalityType
<1>3. Carries(RoutesTo(e), e, x[0])
  BY <1>2, RoutesCarry
<1>4. QED
  BY <1>1, <1>3, CarriedArrives

\* What PingsDeliver supposes, in a network where every router reaches the egresses.
PingReady ==
  /\ SrInv /\ Connected
  /\ Synchronised /\ aborted = {} /\ stopped = "no" /\ spring \in {{}, Node}
  /\ \A m1, m2 \in Mappings : ~SidsConflict(m1, m2)

LEMMA ReadyFacts ==
  ASSUME PingReady, NEW e \in Egress
  PROVE  /\ up = Directed /\ up \in DOMAIN Distances /\ e \in Node /\ ~hung /\ LabelInv
         /\ \A n \in Node : Distance(e)[n] < Inf
         /\ inet0[e][e] = Local
         /\ \A n \in Node : n # e => /\ inet0[n][e] = RouteTo(n, e, None)
                                     /\ inet0[n][e] \in Node /\ <<n, inet0[n][e]>> \in up
<1>1. up = Directed /\ RoutesCurrent
  BY DEF PingReady, Synchronised, RoutesCurrent
<1>2. LabelInv /\ up \in DOMAIN Distances /\ e \in Node
  BY LabelConstants DEF PingReady, SrInv, LabelInv, TypeOK
<1>3. ~hung
  BY <1>1, <1>2 DEF PingReady, LabelInv, HangExplained
<1>4. Distance(e) = DistanceOver(up, e)
  BY <1>2 DEF Distance, Distances
<1>5. \A n \in Node : Distance(e)[n] < Inf
  BY <1>1, <1>4 DEF PingReady, Connected
<1>6. \A n \in Node : inet0[n][e] = RouteTo(n, e, inet0[n][e])
  BY <1>1 DEF RoutesCurrent
<1>7. inet0[e][e] = Local
  BY <1>2, <1>6 DEF RouteTo
<1>8. ASSUME NEW n \in Node, n # e
      PROVE  /\ inet0[n][e] = RouteTo(n, e, None)
             /\ inet0[n][e] \in Node /\ <<n, inet0[n][e]>> \in up
  <2>1. PICK old : old = inet0[n][e]
    OBVIOUS
  <2>2. PICK r : r = RouteTo(n, e, old)
    OBVIOUS
  <2>3. r \in Node /\ r = RouteTo(n, e, None) /\ LeadsNearer(n, r, e)
    BY <1>2, <1>5, <1>8, <2>2, RouteFacts
  <2>4. inet0[n][e] = r
    BY <1>6, <2>1, <2>2
  <2>5. QED
    BY <2>3, <2>4 DEF LeadsNearer
<1>9. QED
  BY <1>1, <1>2, <1>3, <1>5, <1>7, <1>8

\* A tunnel leads to its egress, if none was abandoned.
LEMMA TunnelArrives ==
  ASSUME PingReady, NEW p \in Proto, NEW n \in Node, NEW e \in Egress, inet3[p][n][e] # None
  PROVE  n # e /\ LabelEnd(p, inet3[p][n][e], e, up) = e
<1>1. LabelInv /\ ~hung /\ aborted = {} /\ up = Directed
  BY ReadyFacts DEF PingReady
<1>2. n # e /\ Leads(p, n, e)
  BY <1>1 DEF LabelInv, TunnelsFit
<1>3. LabelsOf(p, e) \in Labels(e)
  BY <1>1 DEF LabelInv, LabelsLinked
<1>4. PICK m : m = inet3[p][n][e]
  OBVIOUS
<1>5. m \in Node /\ LabelsOf(p, e)[e] = Pop /\ Carries(LabelsOf(p, e), e, m)
  BY <1>2, <1>4 DEF Leads
<1>6. LabelEnd(p, m, e, Directed) = e
  BY <1>3, <1>5, LabelsForward
<1>7. QED
  BY <1>1, <1>2, <1>4, <1>6

-----------------------------------------------------------------------------
(* Ping over the labels of segment routing.                                *)

Record(n, h, k) ==
  [dist |-> Distance(h)[n], place |-> k, sid |-> sids[h][k],
   hop |-> IgpRoute(n, sids[h][k].pfx, [g \in Node |-> Distance(g)[n]])]

LEMMA ProcessedExact ==
  ASSUME NEW n \in Node, spring = Node
  PROVE  \A x : x \in Processed(n) <=> \E h \in Node : \E k \in DOMAIN sids[h] :
                                        Distance(h)[n] < Inf /\ x = Record(n, h, k)
<1>1. PICK f : f = [h \in Node |-> Distance(h)[n]]
  OBVIOUS
<1>2. PICK d : d = Table(f)
  OBVIOUS
<1>3. f = [h \in Node |-> f[h]]
  BY <1>1
<1>4. d = f
  BY <1>2, <1>3, TableFacts
<1> DEFINE From(h) == {[dist |-> d[h], place |-> k, sid |-> sids[h][k],
                        hop |-> IgpRoute(n, sids[h][k].pfx, d)] : k \in DOMAIN sids[h]}
<1>5. Processed(n) = UNION {From(h) : h \in {g \in Node : d[g] < Inf}}
  BY <1>1, <1>2 DEF Processed
<1>6. ASSUME NEW h \in Node
      PROVE  /\ d[h] = Distance(h)[n]
             /\ \A x : x \in From(h) <=> \E k \in DOMAIN sids[h] : x = Record(n, h, k)
  BY <1>1, <1>4 DEF Record
<1> HIDE DEF From
<1>7. ASSUME NEW x, x \in Processed(n)
      PROVE  \E h \in Node : \E k \in DOMAIN sids[h] : Distance(h)[n] < Inf /\ x = Record(n, h, k)
  <2>1. PICK h \in {g \in Node : d[g] < Inf} : x \in From(h)
    BY <1>5, <1>7
  <2>2. QED
    BY <1>6, <2>1
<1>8. ASSUME NEW x, NEW h \in Node, NEW k \in DOMAIN sids[h], Distance(h)[n] < Inf, x = Record(n, h, k)
      PROVE  x \in Processed(n)
  <2>1. x \in From(h) /\ h \in {g \in Node : d[g] < Inf}
    BY <1>6, <1>8
  <2>2. QED
    BY <1>5, <2>1
<1>9. QED
  BY <1>7, <1>8

\* The route of a loopback address is the one to its router.
HopTo(n, e) == IF n = e THEN Local ELSE RouteTo(n, e, None)

LEMMA LoopbackRoute ==
  ASSUME NEW n, NEW e, NEW d, d[e] \in Nat
  PROVE  IgpRoute(n, {e}, d) = HopTo(n, e)
<1>1. (CHOOSE h \in {e} : \A x \in {e} : d[h] <= d[x]) = e
  <2>1. \A x \in {e} : d[e] <= d[x]
    OBVIOUS
  <2>2. \E h \in {e} : \A x \in {e} : d[h] <= d[x]
    BY <2>1
  <2>3. QED
    BY <2>2
<1>2. QED
  BY <1>1 DEF IgpRoute, HopTo

\* The SID that owns the index of the loopback address of e at n.
OwnerIs(n, o, s, e) == o \in Processed(n) /\ o.sid = s /\ o.hop = HopTo(n, e)

\* Without conflicts all SIDs of one index are the same.
LEMMA SidShared ==
  ASSUME PingReady, spring = Node, NEW e \in Egress, NEW k \in DOMAIN sids[e],
         sids[e][k].pfx = {e}, NEW n \in Node, NEW x \in Processed(n),
         x.sid.idx = sids[e][k].idx
  PROVE  /\ \E j \in DOMAIN sids[e] : x = Record(n, e, j)
         /\ OwnerIs(n, x, sids[e][k], e)
<1>1. SidsTyped /\ e \in Node /\ up \in DOMAIN Distances
  BY ReadyFacts DEF PingReady, SrInv
<1>2. PICK h \in Node : \E j \in DOMAIN sids[h] : x = Record(n, h, j)
  BY ProcessedExact
<1>3. PICK j \in DOMAIN sids[h] : x = Record(n, h, j)
  BY <1>2
<1>4. PICK s : s = sids[e][k]
  OBVIOUS
<1>5. PICK t : t = sids[h][j]
  OBVIOUS
<1>6. s \in SidOf(e) /\ t \in SidOf(h)
  <2>1. sids[e] \in Seq(SidOf(e)) /\ sids[h] \in Seq(SidOf(h))
    BY <1>1 DEF SidsTyped
  <2>2. QED
    BY <1>3, <1>4, <1>5, <2>1, ElementOfSeq
<1>7. x.sid = t /\ x.sid.idx = s.idx /\ s.pfx = {e}
  BY <1>3, <1>4, <1>5 DEF Record
<1>8. t.pfx = s.pfx
  <2>1. Mapping(e, s) \in Mappings /\ Mapping(h, t) \in Mappings
    BY <1>1, <1>3, <1>4, <1>5 DEF Mappings
  <2>2. ~SidsConflict(Mapping(e, s), Mapping(h, t))
    BY <2>1 DEF PingReady
  <2>3. QED
    BY <1>7, <2>2 DEF SidsConflict, Mapping
<1>9. t = s /\ h = e
  BY <1>6, <1>7, <1>8 DEF SidOf
<1>10. x.hop = HopTo(n, e)
  <2>1. PICK d : d = [g \in Node |-> Distance(g)[n]]
    OBVIOUS
  <2>2. d[e] \in Nat
    BY <1>1, <2>1, RouteFacts
  <2>3. x.hop = IgpRoute(n, {e}, d)
    BY <1>3, <1>4, <1>7, <1>9, <1>5, <2>1 DEF Record
  <2>4. QED
    BY <2>2, <2>3, LoopbackRoute
<1>11. QED
  BY <1>3, <1>4, <1>7, <1>9, <1>10 DEF OwnerIs

LEMMA SidOwner ==
  ASSUME PingReady, spring = Node, NEW e \in Egress, NEW k \in DOMAIN sids[e],
         sids[e][k].pfx = {e}, NEW n \in Node
  PROVE  /\ OwnerIs(n, Owner(Processed(n), sids[e][k].idx), sids[e][k], e)
         /\ Owner(Processed(n), sids[e][k].idx).sid.idx = sids[e][k].idx
<1>1. PICK i : i = sids[e][k].idx
  OBVIOUS
<1>2. PICK P : P = Processed(n)
  OBVIOUS
<1> DEFINE same == {x \in P : x.sid.idx = i}
           near == {x \in same : \A y \in same : x.dist <= y.dist}
           places == {x.place : x \in near}
<1>3. SidsTyped /\ e \in Node /\ up \in DOMAIN Distances /\ Distance(e)[n] < Inf
  BY ReadyFacts DEF PingReady, SrInv
<1>4. Distance(e)[n] \in Nat
  BY <1>3, RouteFacts
<1>5. PICK z \in Nat : DOMAIN sids[e] = 1..z
  <2>1. sids[e] \in Seq(SidOf(e))
    BY <1>3 DEF SidsTyped
  <2>2. QED
    BY <2>1
<1>6. \A x \in same : /\ x.dist = Distance(e)[n] /\ x.place \in 1..z
                      /\ x.sid.idx = i
                      /\ OwnerIs(n, x, sids[e][k], e)
  <2> SUFFICES ASSUME NEW x \in same
               PROVE  /\ x.dist = Distance(e)[n] /\ x.place \in 1..z
                      /\ x.sid.idx = i
                      /\ OwnerIs(n, x, sids[e][k], e)
    OBVIOUS
  <2>1. x \in Processed(n) /\ x.sid.idx = sids[e][k].idx
    BY <1>1, <1>2
  <2>2. /\ \E j \in DOMAIN sids[e] : x = Record(n, e, j)
        /\ OwnerIs(n, x, sids[e][k], e)
    BY <2>1, SidShared
  <2>3. x.dist = Distance(e)[n] /\ x.place \in 1..z
    BY <1>5, <2>2 DEF Record
  <2>4. QED
    BY <2>2, <2>3
<1>7. same # {}
  <2>1. PICK x : x = Record(n, e, k)
    OBVIOUS
  <2>2. x \in Processed(n)
    BY <1>3, <2>1, ProcessedExact
  <2>3. x.sid.idx = i
    BY <1>1, <2>1 DEF Record
  <2>4. QED
    BY <1>2, <2>2, <2>3
<1>8. near = same
  BY <1>4, <1>6
<1> HIDE DEF same
<1>9. places \in SUBSET (1..z) /\ places # {}
  BY <1>6, <1>7, <1>8
<1>10. PICK b \in places : \A y \in places : y <= b
  <2> HIDE DEF places
  <2>1. places \in SUBSET Nat /\ (\A y \in places : y <= z)
    BY <1>9
  <2>2. QED
    BY <1>5, <1>9, <2>1, GreatestExists
<1>11. \E x \in near : \A y \in near : x.place >= y.place
  <2>1. PICK x \in near : x.place = b
    OBVIOUS
  <2>2. \A y \in near : y.place <= b /\ y.place \in 1..z
    BY <1>6, <1>8, <1>10
  <2>3. QED
    BY <1>5, <2>1, <2>2
<1> HIDE DEF near
<1>12. PICK o : o = Owner(P, i)
  OBVIOUS
<1>13. o = CHOOSE x \in near : \A y \in near : x.place >= y.place
  BY <1>12 DEF Owner, near, same
<1>14. o \in near
  BY <1>11, <1>13
<1>15. QED
  BY <1>1, <1>2, <1>6, <1>8, <1>12, <1>14

\* What n sends a packet for the SID i of e to, and with which label.
SidHop(n, e, i) ==
  LET r == RouteTo(n, e, None) IN [to |-> r, out |-> IF r = e THEN 0 ELSE start[r] + i]

LEMMA OwnerHop ==
  ASSUME PingReady, spring = Node, NEW e \in Egress, NEW n \in Node, n # e,
         NEW x, NEW s \in SidOf(e), s.pfx = {e}, OwnerIs(n, x, s, e)
  PROVE  SrHop(n, x) = SidHop(n, e, s.idx) /\ SrHop(n, x) # None
<1>1. PICK r : r = RouteTo(n, e, None)
  OBVIOUS
<1>2. r \in Node
  BY <1>1, ReadyFacts
<1>3. x.hop = r /\ x.sid = s
  BY <1>1 DEF OwnerIs, HopTo
<1>4. SrHop(n, x) = [to |-> r, out |-> IF r \in {e} THEN 0 ELSE start[r] + s.idx]
  BY <1>2, <1>3 DEF SrHop
<1>5. SrHop(n, x) = SidHop(n, e, s.idx)
  BY <1>1, <1>4 DEF SidHop
<1>6. SrHop(n, x) # None
  <2>1. start[r] \in Nat /\ s.idx \in Nat
    BY <1>2, SrConstants, SrTypes DEF PingReady, SrInv, ConfigTyped, SidOf
  <2>2. PICK l \in Nat : l = IF r \in {e} THEN 0 ELSE start[r] + s.idx
    BY <2>1
  <2>3. QED
    BY <1>2, <1>4, <2>2, SrConstants
<1>7. QED
  BY <1>5, <1>6

LEMMA SidTyped ==
  ASSUME PingReady, NEW e \in Node, NEW k \in DOMAIN sids[e]
  PROVE  sids[e][k] \in SidOf(e) /\ sids[e][k].idx \in Nat \ {0}
<1>1. sids[e] \in Seq(SidOf(e))
  BY DEF PingReady, SrInv, SidsTyped
<1>2. sids[e][k] \in SidOf(e)
  BY <1>1, ElementOfSeq
<1>3. QED
  BY <1>2, SrConstants DEF SidOf

EntryIs(m, e, i) ==
  start[m] + i \in DOMAIN srMpls[m] /\ srMpls[m][start[m] + i] = SidHop(m, e, i)

\* The label table of every other router leads on to e.
LEMMA MplsEntry ==
  ASSUME PingReady, spring = Node, NEW e \in Egress, NEW k \in DOMAIN sids[e],
         sids[e][k].pfx = {e}, NEW m \in Node, m # e
  PROVE  EntryIs(m, e, sids[e][k].idx)
<1>1. PICK i : i = sids[e][k].idx
  OBVIOUS
<1>2. PICK P : P = Processed(m)
  OBVIOUS
<1>3. PICK o : o = Owner(P, i)
  OBVIOUS
<1>4. e \in Node /\ sids[e][k] \in SidOf(e) /\ i \in Nat
  BY <1>1, ReadyFacts, SidTyped
<1>5. OwnerIs(m, o, sids[e][k], e) /\ o.sid.idx = i
  BY <1>1, <1>2, <1>3, SidOwner
<1>6. SrHop(m, o) = SidHop(m, e, i) /\ SrHop(m, o) # None
  BY <1>1, <1>4, <1>5, OwnerHop
<1>7. start[m] \in Nat
  BY SrConstants, SrTypes DEF PingReady, SrInv, ConfigTyped
<1>8. PICK l : l = start[m] + i
  OBVIOUS
<1>9. l - start[m] = i
  BY <1>4, <1>7, <1>8
<1>10. l \in Refreshed(m, P)
  BY <1>2, <1>5, <1>8 DEF OwnerIs, Refreshed
<1>11. srMpls[m] = MplsAfter(m, P, DOMAIN srMpls[m])
  BY <1>2 DEF PingReady, Synchronised
<1>12. /\ l \in DOMAIN MplsAfter(m, P, DOMAIN srMpls[m])
       /\ MplsAfter(m, P, DOMAIN srMpls[m])[l] = SidHop(m, e, i)
  BY <1>3, <1>6, <1>9, <1>10 DEF MplsAfter
<1>13. QED
  BY <1>1, <1>8, <1>11, <1>12 DEF EntryIs

\* A SPRING route for e is one for a SID of its loopback address.
LEMMA Inet3Entry ==
  ASSUME PingReady, NEW n \in Node, NEW e \in Egress, srInet3[n][e] # None
  PROVE  /\ spring = Node /\ n # e
         /\ \E k \in DOMAIN sids[e] :
              /\ sids[e][k].pfx = {e} /\ srInet3[n][e] = SidHop(n, e, sids[e][k].idx)
<1>1. PICK P : P = Processed(n)
  OBVIOUS
<1> DEFINE own == {x \in P : x.sid.pfx = {e} /\ Owner(P, x.sid.idx) = x}
<1>2. srInet3[n][e] = IF own # {} THEN SrHop(n, CHOOSE x \in own : TRUE) ELSE None
  <2>1. srInet3[n] = Inet3After(n, P)
    BY <1>1 DEF PingReady, Synchronised
  <2>2. QED
    BY <2>1 DEF Inet3After
<1>3. PICK x \in own : srInet3[n][e] = SrHop(n, x)
  BY <1>2
<1>4. x \in Processed(n) /\ x.sid.pfx = {e}
  BY <1>1, <1>3
<1>5. spring = Node
  BY <1>4 DEF PingReady, Processed
<1>6. PICK h \in Node : \E j \in DOMAIN sids[h] : x = Record(n, h, j)
  BY <1>4, <1>5, ProcessedExact
<1>7. PICK k \in DOMAIN sids[h] : x = Record(n, h, k)
  BY <1>6
<1>8. x.sid = sids[h][k]
  BY <1>7 DEF Record
<1>9. h = e
  <2>1. sids[h][k] \in SidOf(h)
    BY SidTyped
  <2>2. QED
    BY <1>4, <1>8, <2>1 DEF SidOf
<1>10. OwnerIs(n, x, sids[e][k], e)
  <2>1. x.sid.idx = sids[e][k].idx /\ sids[e][k].pfx = {e} /\ k \in DOMAIN sids[e]
    BY <1>4, <1>7, <1>8, <1>9
  <2>2. QED
    BY <1>4, <1>5, <2>1, SidShared
<1>11. n # e
  <2>1. ASSUME n = e
        PROVE  SrHop(n, x) = None
    <3>1. x.hop = Local
      BY <1>10, <2>1 DEF OwnerIs, HopTo
    <3>2. QED
      BY <1>5, <3>1, LabelConstants DEF SrHop
  <2>2. QED
    BY <1>3, <2>1
<1>12. srInet3[n][e] = SidHop(n, e, sids[e][k].idx)
  <2>1. sids[e][k] \in SidOf(e) /\ sids[e][k].pfx = {e}
    BY <1>4, <1>7, <1>8, <1>9, SidTyped
  <2>2. QED
    BY <1>3, <1>5, <1>10, <1>11, <2>1, OwnerHop
<1>13. QED
  BY <1>4, <1>5, <1>7, <1>8, <1>9, <1>11, <1>12

\* A walk that follows the routes to e and stays there is there in the end.
LEMMA RoutesEnd ==
  ASSUME up \in DOMAIN Distances, NEW e \in Node, \A m \in Node : Distance(e)[m] < Inf,
         NEW M \in Nat, Cardinality(Node) <= M, NEW w \in [0..M -> Node],
         \A k \in 0..M : k < M => w[k + 1] = IF w[k] = e THEN e ELSE RouteTo(w[k], e, None)
  PROVE  w[M] = e
<1> DEFINE N == Cardinality(Node)
<1>1. N \in Nat
  BY LabelConstants, FS_CardinalityType
<1>2. PICK j \in 0..N : w[j] = e
  <2>1. PICK x : x = [k \in 0..N |-> w[k]]
    OBVIOUS
  <2>2. \A k \in 0..N : k \in 0..M /\ x[k] = w[k]
    BY <1>1, <2>1
  <2>3. x \in [0..N -> Node]
    BY <2>1, <2>2
  <2>4. \A k \in 0..N : k < N /\ x[k] # e => x[k + 1] = RouteTo(x[k], e, None)
    <3>1. ASSUME NEW k \in 0..N, k < N, x[k] # e
          PROVE  x[k + 1] = RouteTo(x[k], e, None)
      <4>1. k + 1 \in 0..N /\ k < M
        BY <1>1, <3>1
      <4>2. QED
        BY <2>2, <3>1, <4>1
    <3>2. QED
      BY <3>1
  <2>5. \E k \in 0..N : x[k] = e
    BY <2>3, <2>4, RoutesArrive
  <2>6. QED
    BY <2>2, <2>5
<1> DEFINE T == {k \in 0..M : k >= j => w[k] = e}
<1>3. 0 \in T
  BY <1>2
<1>4. ASSUME NEW k \in 0..M, k < M, k \in T
      PROVE  k + 1 \in T
  <2>1. k + 1 \in 0..M /\ (k + 1 >= j => k >= j \/ k + 1 = j)
    BY <1>1, <1>4
  <2>2. w[k] = e => w[k + 1] = e
    BY <1>4
  <2>3. QED
    BY <1>2, <1>4, <2>1, <2>2
<1> HIDE DEF T
<1>5. \A k \in 0..M : k \in T
  BY <1>3, <1>4, EachRound
<1>6. M \in 0..M /\ M >= j
  BY <1>1
<1>7. QED
  BY <1>5, <1>6 DEF T

\* A packet on its way to e, at m.
Packet(m, e, i) == [at |-> m, label |-> IF m = e THEN 0 ELSE start[m] + i, how |-> "going"]

\* Labels of segment routing lead a packet to the egress.
LEMMA SrEndFacts ==
  ASSUME PingReady, spring = Node, NEW e \in Egress, NEW j \in DOMAIN sids[e],
         sids[e][j].pfx = {e}, NEW n \in Node, n # e
  PROVE  SrEnd(n, start[n] + sids[e][j].idx) = Packet(e, e, sids[e][j].idx)
<1>1. PICK i : i = sids[e][j].idx
  OBVIOUS
<1>2. PICK label : label = start[n] + i
  OBVIOUS
<1> DEFINE N == Cardinality(Node)
           S == {Packet(m, e, i) : m \in Node}
           Onward(b) == IF b.how # "going" \/ b.label = 0 THEN b
                       ELSE IF b.label \notin DOMAIN srMpls[b.at] THEN [b EXCEPT !.how = "lost"]
                       ELSE LET hop == srMpls[b.at][b.label]
                            IN IF hop = None THEN [b EXCEPT !.how = "assert"]
                               ELSE IF <<b.at, hop.to>> \notin up THEN [b EXCEPT !.how = "lost"]
                               ELSE [b EXCEPT !.at = hop.to, !.label = hop.out]
           step == [b \in S |-> Onward(b)]
           base == [at |-> n, label |-> label, how |-> "going"]
           Ahead(f) == [k \in 0..N |-> IF k = 0 THEN base ELSE LET b == f[k - 1] IN Onward(b)]
           s == CHOOSE f : f = Ahead(f)
<1>3. SrEnd(n, label) = s[N]
  BY DEF SrEnd
<1>4. N \in Nat /\ e \in Node
  BY ReadyFacts, LabelConstants, FS_CardinalityType
<1>5. base \in S
  BY <1>2 DEF Packet
<1>6. ASSUME NEW m \in Node
      PROVE  Onward(Packet(m, e, i)) =
               Packet(IF m = e THEN e ELSE RouteTo(m, e, None), e, i)
  <2>1. ASSUME m = e
        PROVE  Onward(Packet(m, e, i)) = Packet(e, e, i)
    BY <2>1 DEF Packet
  <2>2. ASSUME m # e
        PROVE  Onward(Packet(m, e, i)) = Packet(RouteTo(m, e, None), e, i)
    <3>1. PICK r : r = RouteTo(m, e, None)
      OBVIOUS
    <3>2. r \in Node /\ <<m, r>> \in up
      BY <2>2, <3>1, ReadyFacts
    <3>3. PICK l : l = start[m] + i
      OBVIOUS
    <3>4. l # 0
      <4>1. start[m] \in Nat \ {0} /\ i \in Nat
        BY <1>1, <1>4, SidTyped, SrConstants, SrTypes DEF PingReady, SrInv, ConfigTyped
      <4>2. QED
        BY <3>3, <4>1
    <3>5. EntryIs(m, e, i)
      BY <1>1, <2>2, MplsEntry
    <3>6. l \in DOMAIN srMpls[m] /\ srMpls[m][l] = [to |-> r, out |-> IF r = e THEN 0 ELSE start[r] + i]
      BY <3>1, <3>3, <3>5 DEF EntryIs, SidHop
    <3>7. srMpls[m][l] # None
      <4>1. start[r] \in Nat /\ i \in Nat
        BY <1>1, <1>4, <3>2, SidTyped, SrConstants, SrTypes DEF PingReady, SrInv, ConfigTyped
      <4>2. PICK out \in Nat : out = IF r = e THEN 0 ELSE start[r] + i
        BY <4>1
      <4>3. QED
        BY <3>2, <3>6, <4>2, SrConstants
    <3>8. Packet(m, e, i) = [at |-> m, label |-> l, how |-> "going"]
      BY <2>2, <3>3 DEF Packet
    <3>9. Packet(r, e, i) = [at |-> r, label |-> IF r = e THEN 0 ELSE start[r] + i, how |-> "going"]
      BY DEF Packet
    <3>10. PICK p : p = Packet(m, e, i)
      OBVIOUS
    <3>11. p.how = "going" /\ p.label = l /\ p.at = m
      BY <3>8, <3>10
    <3>12. PICK out : out = IF r = e THEN 0 ELSE start[r] + i
      OBVIOUS
    <3>13. PICK hop : hop = srMpls[m][l]
      OBVIOUS
    <3>14. hop # None /\ hop.to = r /\ hop.out = out
      BY <3>6, <3>7, <3>12, <3>13
    <3>15. PICK q : q = Onward(p)
      OBVIOUS
    <3>16. q = [p EXCEPT !.at = r, !.label = out]
      BY <3>2, <3>4, <3>6, <3>11, <3>13, <3>14, <3>15
    <3>17. q = Packet(r, e, i)
      <4>1. p = [at |-> m, label |-> l, how |-> "going"]
        BY <3>8, <3>10
      <4>2. q = [at |-> r, label |-> out, how |-> "going"]
        BY <3>16, <4>1
      <4>3. QED
        BY <3>9, <3>12, <4>2
    <3>18. QED
      BY <3>1, <3>10, <3>15, <3>17, <2>2
  <2>3. QED
    BY <2>1, <2>2
<1> HIDE DEF Onward
<1>7. \E f : f \in [0..N -> S] /\ f = Ahead(f)
  <2>1. step \in [S -> S]
    <3>1. ASSUME NEW b \in S
          PROVE  Onward(b) \in S
      <4>1. PICK m \in Node : b = Packet(m, e, i)
        OBVIOUS
      <4>2. PICK r : r = IF m = e THEN e ELSE RouteTo(m, e, None)
        OBVIOUS
      <4>3. r \in Node
        BY <1>4, <4>2, ReadyFacts
      <4>4. Onward(b) = Packet(r, e, i)
        BY <1>6, <4>1, <4>2
      <4>5. QED
        BY <4>3, <4>4
    <3>2. QED
      BY <3>1
  <2>2. \A b \in S : step[b] = Onward(b)
    OBVIOUS
  <2> HIDE DEF S, step, base
  <2>3. PICK f : Repeats(f, N, S, base, step)
    BY <1>4, <1>5, <2>1, RepeatExists
  <2>4. ASSUME NEW k \in 0..N, k # 0
        PROVE  step[f[k - 1]] = Onward(f[k - 1])
    <3>1. k - 1 \in 0..N
      BY <1>4, <2>4
    <3>2. QED
      BY <2>2, <2>3, <3>1 DEF Repeats
  <2> HIDE DEF N
  <2>5. f = Ahead(f)
    BY <2>3, <2>4 DEF Repeats
  <2>6. QED
    BY <2>3, <2>5 DEF Repeats
<1>8. s = Ahead(s)
  <2> HIDE DEF Ahead
  <2>1. QED
    BY <1>7, Zenon
<1> HIDE DEF s
<1>9. s[0] = base
  BY <1>4, <1>8
<1>10. ASSUME NEW k \in 0..N, k < N
       PROVE  s[k + 1] = Onward(s[k])
  <2>1. k + 1 \in 0..N /\ k + 1 # 0 /\ (k + 1) - 1 = k
    BY <1>4, <1>10
  <2>2. QED
    BY <1>8, <2>1
<1> DEFINE T == {k \in 0..N : \E m \in Node : s[k] = Packet(m, e, i)}
<1>11. \A k \in 0..N : k \in T
  <2>1. 0 \in T
    BY <1>4, <1>5, <1>9
  <2>2. ASSUME NEW k \in 0..N, k < N, k \in T
        PROVE  k + 1 \in T
    <3>1. PICK m \in Node : s[k] = Packet(m, e, i)
      BY <2>2
    <3>2. PICK r : r = IF m = e THEN e ELSE RouteTo(m, e, None)
      OBVIOUS
    <3>3. r \in Node
      BY <1>4, <3>2, ReadyFacts
    <3>4. s[k + 1] = Packet(r, e, i)
      BY <1>6, <1>10, <2>2, <3>1, <3>2
    <3>5. k + 1 \in 0..N
      BY <1>4, <2>2
    <3>6. QED
      BY <3>3, <3>4, <3>5
  <2> HIDE DEF T
  <2>3. QED
    BY <1>4, <2>1, <2>2, EachRound
<1>12. PICK w : w = [k \in 0..N |-> s[k].at]
  OBVIOUS
<1>13. ASSUME NEW k \in 0..N
       PROVE  w[k] \in Node /\ s[k] = Packet(w[k], e, i)
  <2>1. PICK m \in Node : s[k] = Packet(m, e, i)
    BY <1>11
  <2>2. w[k] = m
    BY <1>12, <2>1 DEF Packet
  <2>3. QED
    BY <2>1, <2>2
<1>14. \A k \in 0..N : k < N => w[k + 1] = IF w[k] = e THEN e ELSE RouteTo(w[k], e, None)
  <2> SUFFICES ASSUME NEW k \in 0..N, k < N
               PROVE  w[k + 1] = IF w[k] = e THEN e ELSE RouteTo(w[k], e, None)
    OBVIOUS
  <2>1. k + 1 \in 0..N
    BY <1>4
  <2>2. PICK r : r = IF w[k] = e THEN e ELSE RouteTo(w[k], e, None)
    OBVIOUS
  <2>3. s[k + 1] = Packet(r, e, i)
    BY <1>6, <1>10, <1>13, <2>2
  <2>4. w[k + 1] = r
    BY <1>12, <2>1, <2>3 DEF Packet
  <2>5. QED
    BY <2>2, <2>4
<1>15. w[N] = e
  <2>1. w \in [0..N -> Node] /\ Cardinality(Node) <= N
    BY <1>4, <1>12, <1>13
  <2>2. up \in DOMAIN Distances /\ \A m \in Node : Distance(e)[m] < Inf
    BY ReadyFacts
  <2> HIDE DEF N
  <2>3. QED
    BY <1>4, <1>14, <2>1, <2>2, RoutesEnd
<1>16. s[N] = Packet(e, e, i)
  BY <1>4, <1>13, <1>15
<1>17. QED
  BY <1>1, <1>2, <1>3, <1>16

-----------------------------------------------------------------------------
(* The decisions of ping.                                                  *)

At(m, how, ip) == [at |-> m, how |-> how, ip |-> ip]

\* The states of a ping to e behind its first decision.
PingState(e) == {At(m, "going", TRUE) : m \in Node}
                \cup {At(e, "going", ip) : ip \in BOOLEAN}
                \cup {At(e, "complete", ip) : ip \in BOOLEAN}

Forwarded(s, r, b) == [s EXCEPT !.at = r, !.ip = b]

LEMMA AtForwarded ==
  ASSUME NEW m, NEW how, NEW ip, NEW r, NEW b
  PROVE  Forwarded(At(m, how, ip), r, b) = At(r, how, b)
<1> DEFINE s == [At(m, how, ip) EXCEPT !.at = r, !.ip = b]
<1>1. DOMAIN s = {"at", "how", "ip"} /\ DOMAIN At(r, how, b) = {"at", "how", "ip"}
  BY DEF At
<1>2. s.at = r
  BY DEF At
<1>3. s.how = how
  BY DEF At
<1>4. s.ip = b
  BY DEF At
<1>5. s = [x \in {"at", "how", "ip"} |-> s[x]]
  BY <1>1 DEF At
<1>6. At(r, how, b) = [x \in {"at", "how", "ip"} |-> At(r, how, b)[x]]
  BY <1>1 DEF At
<1> HIDE DEF s
<1>7. \A x \in {"at", "how", "ip"} : s[x] = At(r, how, b)[x]
  BY <1>2, <1>3, <1>4 DEF At
<1>8. PICK t : t = At(r, how, b)
  OBVIOUS
<1>9. t = [x \in {"at", "how", "ip"} |-> t[x]] /\ \A x \in {"at", "how", "ip"} : s[x] = t[x]
  BY <1>6, <1>7, <1>8
<1>10. s = t
  BY <1>5, <1>9
<1>11. QED
  BY <1>8, <1>10 DEF s, Forwarded

LEMMA PingStates ==
  ASSUME NEW e \in Node
  PROVE  /\ \A m \in Node : At(m, "going", TRUE) \in PingState(e)
         /\ \A ip \in BOOLEAN : /\ At(e, "going", ip) \in PingState(e)
                                /\ At(e, "complete", ip) \in PingState(e)
<1>1. \A m \in Node : At(m, "going", TRUE) \in {At(x, "going", TRUE) : x \in Node}
  BY Zenon
<1>2. \A ip \in BOOLEAN : /\ At(e, "going", ip) \in {At(e, "going", x) : x \in BOOLEAN}
                            /\ At(e, "complete", ip) \in {At(e, "complete", x) : x \in BOOLEAN}
  BY Zenon
<1>3. QED
  BY <1>1, <1>2, Zenon DEF PingState

\* At the egress there is neither a SPRING route nor a tunnel.
LEMMA PingEnds ==
  ASSUME PingReady, NEW e \in Egress, NEW ip \in BOOLEAN
  PROVE  /\ SrPingStep(e, At(e, "going", ip)) = At(e, "complete", ip)
         /\ SrPingStep(e, At(e, "complete", ip)) = At(e, "complete", ip)
<1>1. e \in Node /\ inet0[e][e] = Local
  BY ReadyFacts
<1>2. srInet3[e][e] = None
  BY <1>1, Inet3Entry
<1>3. \A p \in Proto : inet3[p][e][e] = None
  BY <1>1, TunnelArrives
<1>4. PICK s : s = At(e, "going", ip)
  OBVIOUS
<1>5. s.at = e /\ s.how = "going" /\ s.ip = ip
  BY <1>4 DEF At
<1>6. SrPingStep(e, s) = PingStep(e, s)
  BY <1>2, <1>5 DEF SrPingStep
<1>7. PingStep(e, s) = [s EXCEPT !.how = "complete"]
  <2> DEFINE tunnels == {p \in Proto : inet3[p][s.at][e] # None /\ <<s.at, inet3[p][s.at][e]>> \in up}
  <2>1. tunnels = {}
    BY <1>3, <1>5
  <2>2. QED
    BY <1>1, <1>5, <2>1 DEF PingStep
<1>8. [s EXCEPT !.how = "complete"] = At(e, "complete", ip)
  BY <1>4 DEF At
<1>9. PICK t : t = At(e, "complete", ip)
  OBVIOUS
<1>10. t.how = "complete"
  BY <1>9 DEF At
<1>11. SrPingStep(e, t) = t
  BY <1>10 DEF SrPingStep, PingStep
<1>12. QED
  BY <1>4, <1>6, <1>7, <1>8, <1>9, <1>11

\* A packet without a label follows the route.
LEMMA PingRoutes ==
  ASSUME PingReady, NEW e \in Egress, NEW n \in Node, n # e, NEW ip \in BOOLEAN,
         ip \/ \A p \in Proto : inet3[p][n][e] = None \/ <<n, inet3[p][n][e]>> \notin up
  PROVE  PingStep(e, At(n, "going", ip)) = At(RouteTo(n, e, None), "going", TRUE)
<1>1. PICK r : r = RouteTo(n, e, None)
  OBVIOUS
<1>2. inet0[n][e] = r /\ r \in Node /\ <<n, r>> \in up
  BY <1>1, ReadyFacts
<1>3. r # Local /\ r # None
  BY <1>2, LabelConstants
<1>4. PICK s : s = At(n, "going", ip)
  OBVIOUS
<1>5. s.at = n /\ s.how = "going" /\ s.ip = ip
  BY <1>4 DEF At
<1> DEFINE tunnels == {p \in Proto : inet3[p][s.at][e] # None /\ <<s.at, inet3[p][s.at][e]>> \in up}
<1>6. s.ip \/ tunnels = {}
  BY <1>5
<1> HIDE DEF tunnels
<1>7. PingStep(e, s) = Forwarded(s, r, TRUE)
  BY <1>2, <1>3, <1>5, <1>6 DEF PingStep, tunnels, Forwarded
<1>8. Forwarded(At(n, "going", ip), r, TRUE) = At(r, "going", TRUE)
  <2>1. ASSUME NEW b, NEW x
        PROVE  Forwarded(At(n, "going", x), r, b) = At(r, "going", b)
    BY AtForwarded
  <2>2. QED
    BY <2>1, Zenon
<1>9. QED
  BY <1>1, <1>4, <1>7, <1>8, Zenon

LEMMA PingGoesOn ==
  ASSUME PingReady, NEW e \in Egress, NEW m \in Node, m # e
  PROVE  SrPingStep(e, At(m, "going", TRUE)) = At(RouteTo(m, e, None), "going", TRUE)
<1>1. PICK s : s = At(m, "going", TRUE)
  OBVIOUS
<1>2. s.at = m /\ s.how = "going" /\ s.ip
  BY <1>1 DEF At
<1>3. SrPingStep(e, s) = PingStep(e, s)
  BY <1>2 DEF SrPingStep
<1>4. PingStep(e, s) = At(RouteTo(m, e, None), "going", TRUE)
  BY <1>1, PingRoutes
<1>5. QED
  BY <1>1, <1>3, <1>4

\* The first decision leads to the egress, by labels of either kind, or along the route.
LEMMA PingStarts ==
  ASSUME PingReady, NEW e \in Egress, NEW n \in Node,
         srInet3[n][e] = None \/ srInet3[n][e].to # e
  PROVE  SrPingStep(e, At(n, "going", FALSE)) \in PingState(e)
<1>1. PICK s : s = At(n, "going", FALSE)
  OBVIOUS
<1>2. s.at = n /\ s.how = "going" /\ ~s.ip
  BY <1>1 DEF At
<1>3. e \in Node
  BY ReadyFacts
<1>4. CASE n = e
  <2>1. SrPingStep(e, At(e, "going", FALSE)) = At(e, "complete", FALSE)
    BY PingEnds
  <2>2. QED
    BY <1>3, <1>4, <2>1, PingStates
<1>5. CASE n # e /\ srInet3[n][e] # None
  <2>1. /\ spring = Node
        /\ \E k \in DOMAIN sids[e] :
             sids[e][k].pfx = {e} /\ srInet3[n][e] = SidHop(n, e, sids[e][k].idx)
    BY <1>5, Inet3Entry
  <2>2. PICK k \in DOMAIN sids[e] :
             sids[e][k].pfx = {e} /\ srInet3[n][e] = SidHop(n, e, sids[e][k].idx)
    BY <2>1
  <2>3. PICK i : i = sids[e][k].idx
    OBVIOUS
  <2>4. PICK r : r = RouteTo(n, e, None)
    OBVIOUS
  <2>5. r \in Node /\ <<n, r>> \in up
    BY <1>5, <2>4, ReadyFacts
  <2>6. PICK hop : hop = srInet3[n][e]
    OBVIOUS
  <2>7. hop.to = r /\ hop.out = IF r = e THEN 0 ELSE start[r] + i
    BY <2>2, <2>3, <2>4, <2>6 DEF SidHop
  <2>8. r # e
    BY <1>5, <2>6, <2>7
  <2>9. hop.out # 0
    <3>1. start[r] \in Nat \ {0} /\ i \in Nat
      BY <1>3, <2>3, <2>5, SidTyped, SrConstants, SrTypes DEF PingReady, SrInv, ConfigTyped
    <3>2. QED
      BY <2>7, <2>8, <3>1
  <2>10. SrEnd(r, start[r] + i) = Packet(e, e, i)
    BY <2>1, <2>2, <2>3, <2>5, <2>8, SrEndFacts
  <2>11. PICK out : out = SrEnd(hop.to, hop.out)
    OBVIOUS
  <2>12. out.at = e /\ out.how = "going"
    BY <2>7, <2>8, <2>10, <2>11 DEF Packet
  <2>13. SrPingStep(e, s) = [s EXCEPT !.at = e, !.how = "going"]
    BY <1>2, <1>5, <2>5, <2>6, <2>7, <2>9, <2>11, <2>12 DEF SrPingStep
  <2>14. SrPingStep(e, s) = At(e, "going", FALSE)
    BY <1>1, <2>13 DEF At
  <2>15. QED
    BY <1>1, <1>3, <2>14, PingStates
<1>6. CASE n # e /\ srInet3[n][e] = None
  <2> DEFINE tunnels == {p \in Proto : inet3[p][s.at][e] # None /\ <<s.at, inet3[p][s.at][e]>> \in up}
             first == IF "LDP" \in tunnels THEN "LDP" ELSE "RSVP"
  <2>1. SrPingStep(e, s) = PingStep(e, s)
    BY <1>2, <1>6 DEF SrPingStep
  <2>2. CASE tunnels = {}
    <3>1. PICK r : r = RouteTo(n, e, None)
      OBVIOUS
    <3>2. \A p \in Proto : inet3[p][n][e] = None \/ <<n, inet3[p][n][e]>> \notin up
      BY <1>2, <2>2
    <3>3. PingStep(e, s) = At(r, "going", TRUE)
      BY <1>1, <1>6, <3>1, <3>2, PingRoutes
    <3>4. r \in Node
      BY <1>6, <3>1, ReadyFacts
    <3>5. QED
      BY <1>1, <1>3, <2>1, <3>3, <3>4, PingStates
  <2>3. CASE tunnels # {}
    <3>1. first \in tunnels
      BY <2>3 DEF Proto
    <3>2. PICK p \in Proto : p = first
      BY <3>1
    <3>3. inet3[p][n][e] # None
      BY <1>2, <3>1, <3>2
    <3>4. LabelEnd(p, inet3[p][n][e], e, up) = e /\ e # None
      BY <1>3, <3>3, TunnelArrives, LabelConstants
    <3>5. PingStep(e, s) = [s EXCEPT !.at = e]
      <4>1. PICK out : out = LabelEnd(first, inet3[first][s.at][e], e, up)
        OBVIOUS
      <4>2. out = e
        BY <1>2, <3>2, <3>4, <4>1
      <4> HIDE DEF LabelEnd
      <4>3. QED
        BY <1>2, <2>3, <3>4, <4>1, <4>2 DEF PingStep
    <3>6. PingStep(e, s) = At(e, "going", FALSE)
      BY <1>1, <3>5 DEF At
    <3>7. QED
      BY <1>1, <1>3, <2>1, <3>6, PingStates
  <2>4. QED
    BY <2>2, <2>3
<1>7. QED
  BY <1>4, <1>5, <1>6

\* Behind its first decision a ping follows the routes, and it ends at the egress.
LEMMA PingNext ==
  ASSUME PingReady, NEW e \in Egress, NEW s \in PingState(e)
  PROVE  /\ s.at \in Node /\ SrPingStep(e, s) \in PingState(e)
         /\ SrPingStep(e, s).at = IF s.at = e THEN e ELSE RouteTo(s.at, e, None)
         /\ s.at = e => SrPingStep(e, s).how = "complete"
<1>1. e \in Node
  BY ReadyFacts
<1>2. ASSUME NEW ip \in BOOLEAN, s = At(e, "going", ip) \/ s = At(e, "complete", ip)
      PROVE  s.at = e /\ SrPingStep(e, s) = At(e, "complete", ip)
  <2>1. s.at = e
    BY <1>2 DEF At
  <2>2. QED
    BY <1>2, <2>1, PingEnds
<1>3. CASE \E ip \in BOOLEAN : s = At(e, "going", ip) \/ s = At(e, "complete", ip)
  <2>1. PICK ip \in BOOLEAN : s = At(e, "going", ip) \/ s = At(e, "complete", ip)
    BY <1>3
  <2>2. s.at = e /\ SrPingStep(e, s) = At(e, "complete", ip)
    BY <1>2, <2>1
  <2>3. PICK t : t = SrPingStep(e, s)
    OBVIOUS
  <2>4. t.at = e /\ t.how = "complete"
    BY <2>2, <2>3 DEF At
  <2>5. t \in PingState(e)
    BY <1>1, <2>2, <2>3, PingStates
  <2>6. QED
    BY <1>1, <2>2, <2>3, <2>4, <2>5
<1>4. CASE \E m \in Node : m # e /\ s = At(m, "going", TRUE)
  <2>1. PICK m \in Node : m # e /\ s = At(m, "going", TRUE)
    BY <1>4
  <2>2. s.at = m
    BY <2>1 DEF At
  <2>3. PICK r : r = RouteTo(m, e, None)
    OBVIOUS
  <2>4. r \in Node
    BY <2>1, <2>3, ReadyFacts
  <2>5. PICK t : t = SrPingStep(e, s)
    OBVIOUS
  <2>6. t = At(r, "going", TRUE)
    BY <2>1, <2>3, <2>5, PingGoesOn
  <2>7. t.at = r /\ t \in PingState(e)
    <3>1. t.at = r
      BY <2>6 DEF At
    <3>2. QED
      BY <1>1, <2>4, <2>6, <3>1, PingStates
  <2>8. QED
    BY <2>1, <2>2, <2>3, <2>5, <2>7
<1>5. \/ \E ip \in BOOLEAN : s = At(e, "going", ip) \/ s = At(e, "complete", ip)
      \/ \E m \in Node : m # e /\ s = At(m, "going", TRUE)
  <2>1. CASE s \in {At(m, "going", TRUE) : m \in Node}
    <3>1. PICK m \in Node : s = At(m, "going", TRUE)
      BY <2>1
    <3>2. TRUE \in BOOLEAN
      OBVIOUS
    <3>3. QED
      BY <3>1, <3>2, Zenon
  <2>2. CASE s \in {At(e, "going", ip) : ip \in BOOLEAN}
    BY <2>2, Zenon
  <2>3. CASE s \in {At(e, "complete", ip) : ip \in BOOLEAN}
    BY <2>3, Zenon
  <2>4. QED
    BY <2>1, <2>2, <2>3, Zenon DEF PingState
<1>6. QED
  BY <1>3, <1>4, <1>5

LEMMA PingArrives ==
  ASSUME PingReady, NEW e \in Egress, NEW n \in Node,
         srInet3[n][e] = None \/ srInet3[n][e].to # e
  PROVE  Ping(n, e).at = e /\ Ping(n, e).how = "complete"
<1> DEFINE N == Cardinality(Node)
           L == 3 * N
           base == [at |-> n, how |-> "going", ip |-> FALSE]
           S == PingState(e) \cup {base}
           step == [b \in S |-> SrPingStep(e, b)]
           Ahead(f) == [k \in 0..L |-> IF k = 0 THEN base
                                      ELSE LET before == f[k - 1] IN SrPingStep(e, before)]
           s == CHOOSE f : f = Ahead(f)
<1>1. Ping(n, e) = s[L]
  BY DEF Ping
<1>2. e \in Node /\ up \in DOMAIN Distances /\ \A m \in Node : Distance(e)[m] < Inf
  BY ReadyFacts
<1>3. N \in Nat /\ N >= 1
  <2>1. N \in Nat /\ N # 0
    BY <1>2, LabelConstants, FS_CardinalityType, FS_EmptySet
  <2>2. QED
    BY <2>1
<1> HIDE DEF N
<1>4. L \in Nat /\ L - 2 \in Nat /\ N <= L - 2 /\ (L - 2) + 1 = L - 1 /\ (L - 1) + 1 = L
  BY <1>3
<1> HIDE DEF L
<1>5. SrPingStep(e, base) \in PingState(e)
  BY PingStarts DEF At
<1>6. \A b \in S : SrPingStep(e, b) \in PingState(e)
  BY <1>5, PingNext
<1>7. \E f : f = Ahead(f)
  <2>1. step \in [S -> S] /\ base \in S /\ \A b \in S : step[b] = SrPingStep(e, b)
    BY <1>6
  <2> HIDE DEF S, step, base
  <2>2. PICK f : Repeats(f, L, S, base, step)
    BY <1>4, <2>1, RepeatExists
  <2>3. ASSUME NEW k \in 0..L, k # 0
        PROVE  step[f[k - 1]] = SrPingStep(e, f[k - 1])
    <3>1. k - 1 \in 0..L
      BY <1>4, <2>3
    <3>2. QED
      BY <2>1, <2>2, <3>1 DEF Repeats
  <2>4. f = Ahead(f)
    BY <2>2, <2>3 DEF Repeats
  <2>5. QED
    BY <2>4
<1>8. s = Ahead(s)
  <2> HIDE DEF Ahead
  <2>1. QED
    BY <1>7, Zenon
<1> HIDE DEF s, base
<1>9. s[0] = base
  BY <1>4, <1>8
<1>10. ASSUME NEW k \in 0..L, k < L
       PROVE  s[k + 1] = SrPingStep(e, s[k])
  <2>1. k + 1 \in 0..L /\ k + 1 # 0 /\ (k + 1) - 1 = k
    BY <1>4, <1>10
  <2>2. QED
    BY <1>8, <2>1
<1> DEFINE T == {k \in 0..L : k # 0 => s[k] \in PingState(e)}
<1>11. \A k \in 0..L : k \in T
  <2>1. 0 \in T
    BY <1>4
  <2>2. ASSUME NEW k \in 0..L, k < L, k \in T
        PROVE  k + 1 \in T
    <3>1. k + 1 \in 0..L
      BY <1>4, <2>2
    <3>2. s[k] \in S
      BY <1>9, <2>2
    <3>3. s[k + 1] \in PingState(e)
      BY <1>6, <1>10, <2>2, <3>2
    <3>4. QED
      BY <3>1, <3>3
  <2> HIDE DEF T
  <2>3. QED
    BY <1>4, <2>1, <2>2, EachRound
<1>12. PICK M \in Nat : M = L - 2
  BY <1>4
<1>13. ASSUME NEW k \in 0..M
       PROVE  k + 1 \in 0..L /\ k + 1 < L /\ s[k + 1] \in PingState(e)
  <2>1. k + 1 \in 0..L /\ k + 1 < L /\ k + 1 # 0
    BY <1>4, <1>12
  <2>2. k + 1 \in T
    BY <1>11, <2>1
  <2>3. QED
    BY <2>1, <2>2
<1>14. PICK w : w = [k \in 0..M |-> s[k + 1].at]
  OBVIOUS
<1>15. \A k \in 0..M : w[k] = s[k + 1].at /\ w[k] \in Node
  BY <1>13, <1>14, PingNext
<1>16. ASSUME NEW k \in 0..M, k < M
       PROVE  w[k + 1] = IF w[k] = e THEN e ELSE RouteTo(w[k], e, None)
  <2>1. k + 1 \in 0..M
    BY <1>16
  <2>2. PICK t : t = s[k + 1]
    OBVIOUS
  <2>3. t \in PingState(e) /\ w[k] = t.at
    BY <1>13, <1>15, <2>2
  <2>4. s[(k + 1) + 1] = SrPingStep(e, t)
    BY <1>10, <1>13, <2>2
  <2>5. w[k + 1] = SrPingStep(e, t).at
    BY <1>15, <2>1, <2>4
  <2>6. QED
    BY <2>3, <2>5, PingNext
<1>17. w[M] = e
  <2>1. w \in [0..M -> Node] /\ Cardinality(Node) <= M
    BY <1>4, <1>12, <1>14, <1>15 DEF N
  <2>2. QED
    BY <1>2, <1>16, <2>1, RoutesEnd
<1>18. s[M + 1] \in PingState(e) /\ s[M + 1].at = e /\ s[L] = SrPingStep(e, s[M + 1])
  <2>1. M \in 0..M /\ (M + 1) + 1 = L
    BY <1>4, <1>12
  <2>2. s[M + 1] \in PingState(e) /\ s[M + 1].at = e
    BY <1>13, <1>15, <1>17, <2>1
  <2>3. s[(M + 1) + 1] = SrPingStep(e, s[M + 1])
    BY <1>10, <1>13, <2>1
  <2>4. QED
    BY <2>1, <2>2, <2>3
<1>19. SrPingStep(e, s[M + 1]).at = e /\ SrPingStep(e, s[M + 1]).how = "complete"
  BY <1>18, PingNext
<1>20. QED
  BY <1>1, <1>18, <1>19

\* On every connected network each ping arrives that PingsDeliver speaks of.
THEOREM PingsArrive == SrSpec => [](Connected => PingsDeliver)
<1>1. SrInv => (Connected => PingsDeliver)
  <2> SUFFICES ASSUME SrInv, Connected, Synchronised /\ aborted = {} /\ stopped = "no",
                      spring \in {{}, Node}, \A m1, m2 \in Mappings : ~SidsConflict(m1, m2),
                      NEW n \in Node, NEW e \in Egress,
                      ~(srInet3[n][e] # None /\ srInet3[n][e].to = e)
               PROVE  Ping(n, e).at = e /\ Ping(n, e).how = "complete"
    BY DEF PingsDeliver
  <2>1. PingReady
    BY DEF PingReady
  <2>2. QED
    BY <2>1, PingArrives
<1>2. QED
  BY <1>1, SrInvariance, PTL

-----------------------------------------------------------------------------
(* Conflicts of SIDs.                                                      *)

\* Of two different prefixes exactly one is preferred.
LEMMA PreferenceTotal ==
  ASSUME NEW p \in DOMAIN Address, NEW q \in DOMAIN Address, p # q
  PROVE  Preferred(p, q) <=> ~Preferred(q, p)
<1>1. Cardinality(p) \in Nat /\ Cardinality(q) \in Nat
  BY AddressConstants, FS_CardinalityType
<1>2. Address[p] \in Nat /\ Address[q] \in Nat /\ Address[p] # Address[q]
  BY AddressConstants
<1>3. QED
  BY <1>1, <1>2 DEF Preferred, ShorterMask

AreMappings(S) == \A m \in S : m.pfx \in DOMAIN Address /\ m.idx \in Nat

\* Of two mappings in conflict the same one loses whichever comes first in the list.
\* The mappings that the two passes of the conflict resolution are to leave have no
\* conflict, and no index is lost that is the lowest of a prefix.
THEOREM SurvivorsAgree ==
  ASSUME NEW S, AreMappings(S)
  PROVE  /\ \A m1, m2 \in S : SidsConflict(m1, m2) => (SidLost(m1, m2) <=> ~SidLost(m2, m1))
         /\ \A m1, m2 \in Survivors(S) : m1.pfx = m2.pfx <=> m1.idx = m2.idx
         /\ \A x \in S : \E m \in Survivors(S) : m.idx = Lowest(S, x.pfx)
<1>1. ASSUME NEW m1 \in Survivors(S), NEW m2 \in Survivors(S)
      PROVE  m1.pfx = m2.pfx <=> m1.idx = m2.idx
  <2>1. /\ m1 \in S /\ m1.idx = Lowest(S, m1.pfx)
        /\ m2 \in S /\ m2.idx = Lowest(S, m2.pfx)
    BY DEF Survivors
  <2>2. ASSUME m1.idx = m2.idx, m1.pfx # m2.pfx
        PROVE  FALSE
    <3>1. Preferred(m1.pfx, m2.pfx) /\ Preferred(m2.pfx, m1.pfx)
      BY <2>1, <2>2 DEF Survivors
    <3>2. m1.pfx \in DOMAIN Address /\ m2.pfx \in DOMAIN Address
      BY <2>1 DEF AreMappings
    <3>3. QED
      BY <2>2, <3>1, <3>2, PreferenceTotal
  <2>3. QED
    BY <2>1, <2>2
<1>2. ASSUME NEW x \in S
      PROVE  \E m \in Survivors(S) : m.idx = Lowest(S, x.pfx)
  <2>1. PICK i : i = Lowest(S, x.pfx)
    OBVIOUS
  <2> DEFINE A == {y \in S : Lowest(S, y.pfx) = i}
             sizes == {Cardinality(y.pfx) : y \in A}
  <2>2. \A y \in A : y.pfx \in DOMAIN Address /\ Cardinality(y.pfx) \in Nat /\ Address[y.pfx] \in Nat
    BY AddressConstants, FS_CardinalityType DEF AreMappings
  <2>3. PICK c \in sizes : \A d \in sizes : c <= d
    <3>1. sizes \in SUBSET Nat /\ sizes # {}
      BY <2>1, <2>2
    <3> HIDE DEF sizes
    <3>2. QED
      BY <3>1, LeastExists
  <2> DEFINE B == {y \in A : Cardinality(y.pfx) = c}
             addresses == {Address[y.pfx] : y \in B}
  <2>4. PICK a \in addresses : \A b \in addresses : a <= b
    <3>1. addresses \in SUBSET Nat /\ addresses # {}
      BY <2>2, <2>3
    <3> HIDE DEF addresses
    <3>2. QED
      BY <3>1, LeastExists
  <2>5. PICK y \in B : Address[y.pfx] = a
    OBVIOUS
  <2>6. PICK m \in S : m.pfx = y.pfx /\ m.idx = i
    <3> DEFINE I == {z.idx : z \in {w \in S : w.pfx = y.pfx}}
    <3>1. I \in SUBSET Nat /\ I # {}
      BY <2>5 DEF AreMappings
    <3>2. i = Min(I)
      BY <2>5 DEF Lowest
    <3> HIDE DEF I
    <3>3. i \in I
      BY <3>1, <3>2, MinFacts
    <3>4. QED
      BY <3>3 DEF I
  <2>7. ASSUME NEW z \in S, z.pfx # m.pfx, Lowest(S, z.pfx) = m.idx
        PROVE  Preferred(m.pfx, z.pfx)
    <3>1. z \in A /\ y \in A /\ Cardinality(m.pfx) = c /\ Address[m.pfx] = a
      BY <2>5, <2>6, <2>7
    <3>2. c <= Cardinality(z.pfx)
      BY <2>3, <3>1
    <3>3. Cardinality(z.pfx) = c => a <= Address[z.pfx]
      BY <2>4, <3>1
    <3>4. /\ Cardinality(z.pfx) \in Nat /\ Cardinality(m.pfx) \in Nat
          /\ Address[z.pfx] \in Nat /\ Address[m.pfx] \in Nat
      BY <2>2, <2>6, <3>1
    <3>5. Address[z.pfx] # Address[m.pfx]
      BY <2>2, <2>6, <2>7, <3>1, AddressConstants
    <3>6. QED
      BY <3>1, <3>2, <3>3, <3>4, <3>5 DEF Preferred, ShorterMask
  <2>8. m \in Survivors(S)
    <3>1. m.idx = Lowest(S, m.pfx)
      BY <2>5, <2>6
    <3>2. QED
      BY <2>6, <2>7, <3>1 DEF Survivors
  <2>9. QED
    BY <2>1, <2>6, <2>8
<1>3. ASSUME NEW m1 \in S, NEW m2 \in S, SidsConflict(m1, m2)
      PROVE  SidLost(m1, m2) <=> ~SidLost(m2, m1)
  <2>1. /\ m1.pfx \in DOMAIN Address /\ m2.pfx \in DOMAIN Address /\ m1.pfx # m2.pfx
    BY <1>3 DEF AreMappings, SidsConflict
  <2>2. Preferred(m1.pfx, m2.pfx) <=> ~Preferred(m2.pfx, m1.pfx)
    BY <2>1, PreferenceTotal
  <2>3. SidLost(m1, m2) <=> Preferred(m2.pfx, m1.pfx)
    BY DEF SidLost, Preferred
  <2>4. SidLost(m2, m1) <=> Preferred(m1.pfx, m2.pfx)
    BY DEF SidLost, Preferred
  <2>5. QED
    BY <2>2, <2>3, <2>4
<1>4. QED
  BY <1>1, <1>2, <1>3
-----------------------------------------------------------------------------
(* The passes over a list.                                                 *)

\* Mapping j of the list makes mapping i lose.
Beats(list, pass, j, i) == Conflict(pass, list[i], list[j]) /\ Lost(pass, list[i], list[j])
Unbeaten(list, pass) ==
  {i \in DOMAIN list : \A j \in DOMAIN list : ~Beats(list, pass, j, i)}

\* Conflicts are decided, and who is beaten is beaten by one that is not.
Decided(list, pass) ==
  /\ \A i, j \in DOMAIN list : Conflict(pass, list[i], list[j]) =>
       /\ Conflict(pass, list[j], list[i])
       /\ Lost(pass, list[i], list[j]) <=> ~Lost(pass, list[j], list[i])
  /\ \A i \in DOMAIN list \ Unbeaten(list, pass) :
       \E j \in Unbeaten(list, pass) : Beats(list, pass, j, i)

\* The first a mappings, and a + 1 as far as mapping b, have met all behind them.
Met(list, pass, S, a, b) ==
  /\ Unbeaten(list, pass) \subseteq S /\ S \subseteq DOMAIN list
  /\ \A x, y \in DOMAIN list :
       /\ x < y /\ (x <= a \/ (x = a + 1 /\ y <= b))
       => /\ x \in Unbeaten(list, pass) /\ Beats(list, pass, x, y) => y \notin S
          /\ y \in Unbeaten(list, pass) /\ Beats(list, pass, y, x) => x \notin S

LEMMA MeetKeeps ==
  ASSUME NEW list, NEW n \in Nat, DOMAIN list = 1..n, NEW pass, Decided(list, pass),
         NEW S, NEW a \in Nat, NEW b \in Nat, a < n, b < n, Met(list, pass, S, a, b)
  PROVE  Met(list, pass, Meet(list, pass, S, a + 1, b + 1), a, b + 1)
<1> DEFINE i == a + 1
           j == b + 1
           T == Meet(list, pass, S, i, j)
           U == Unbeaten(list, pass)
<1>1. i \in DOMAIN list /\ j \in DOMAIN list /\ U \subseteq S /\ S \subseteq DOMAIN list
  BY DEF Met
<1>2. T \subseteq S
  BY DEF Meet
<1>3. U \subseteq T
  <2>1. SUFFICES ASSUME i < j, {i, j} \subseteq S, Conflict(pass, list[i], list[j])
                 PROVE  (IF Lost(pass, list[i], list[j]) THEN i ELSE j) \notin U
    BY <1>1 DEF Meet
  <2>2. CASE Lost(pass, list[i], list[j])
    <3>1. Beats(list, pass, j, i)
      BY <2>1, <2>2 DEF Beats
    <3>2. QED
      BY <1>1, <2>2, <3>1 DEF Unbeaten
  <2>3. CASE ~Lost(pass, list[i], list[j])
    <3>1. Beats(list, pass, i, j)
      BY <1>1, <2>1, <2>3 DEF Beats, Decided
    <3>2. QED
      BY <1>1, <2>3, <3>1 DEF Unbeaten
  <2>4. QED
    BY <2>2, <2>3
<1>4. ASSUME i < j
      PROVE  /\ i \in U /\ Beats(list, pass, i, j) => j \notin T
             /\ j \in U /\ Beats(list, pass, j, i) => i \notin T
  <2>1. ASSUME i \in U, Beats(list, pass, i, j), j \in S
        PROVE  j \notin T
    <3>1. Conflict(pass, list[i], list[j]) /\ ~Lost(pass, list[i], list[j])
      BY <1>1, <2>1 DEF Beats, Decided
    <3>2. QED
      BY <1>1, <1>4, <2>1, <3>1 DEF Meet
  <2>2. ASSUME j \in U, Beats(list, pass, j, i), i \in S
        PROVE  i \notin T
    <3>1. Conflict(pass, list[i], list[j]) /\ Lost(pass, list[i], list[j])
      BY <2>2 DEF Beats
    <3>2. QED
      BY <1>1, <1>4, <2>2, <3>1 DEF Meet
  <2>3. QED
    BY <1>2, <2>1, <2>2
<1> HIDE DEF T, U
<1>5. ASSUME NEW x \in DOMAIN list, NEW y \in DOMAIN list,
             x < y, x <= a \/ (x = a + 1 /\ y <= b + 1)
      PROVE  /\ x \in U /\ Beats(list, pass, x, y) => y \notin T
             /\ y \in U /\ Beats(list, pass, y, x) => x \notin T
  <2>1. CASE x = i /\ y = j
    BY <1>4, <1>5, <2>1
  <2>2. CASE ~(x = i /\ y = j)
    <3>1. x <= a \/ (x = a + 1 /\ y <= b)
      BY <1>5, <2>2
    <3>2. /\ x \in U /\ Beats(list, pass, x, y) => y \notin S
          /\ y \in U /\ Beats(list, pass, y, x) => x \notin S
      BY <1>5, <3>1 DEF Met, U
    <3>3. QED
      BY <1>2, <3>2
  <2>3. QED
    BY <2>1, <2>2
<1>6. QED
  BY <1>1, <1>2, <1>3, <1>5 DEF Met, T, U

LEMMA MeetAllKeeps ==
  ASSUME NEW list, NEW n \in Nat, DOMAIN list = 1..n, Len(list) = n, NEW pass,
         Decided(list, pass), NEW S, NEW a \in Nat, a < n, Met(list, pass, S, a, 0)
  PROVE  Met(list, pass, MeetAll(list, pass, S, a + 1), a + 1, 0)
<1> DEFINE Body(f) == [j \in 0..n |-> IF j = 0 THEN S ELSE Meet(list, pass, f[j - 1], a + 1, j)]
           met == CHOOSE f : f = Body(f)
<1>1. \E f : f = Body(f)
  <2> DEFINE D == SUBSET (S \cup DOMAIN list)
             step == [p \in (0..n) \X D |-> Meet(list, pass, p[2], a + 1, p[1])]
  <2>1. step \in [(0..n) \X D -> D] /\ S \in D
    <3>1. \A p \in (0..n) \X D : Meet(list, pass, p[2], a + 1, p[1]) \in D
      BY DEF Meet
    <3>2. QED
      BY <3>1
  <2>2. \A k \in 0..n, R \in D : step[<<k, R>>] = Meet(list, pass, R, a + 1, k)
    OBVIOUS
  <2> HIDE DEF step, D
  <2>3. PICK f : Counts(f, n, D, S, step)
    BY <2>1, CountedSteps
  <2>4. f \in [0..n -> D] /\ f[0] = S
    BY <2>3 DEF Counts
  <2>5. ASSUME NEW k \in 1..n PROVE f[k] = Meet(list, pass, f[k - 1], a + 1, k)
    <3>1. f[k] = step[<<k, f[k - 1]>>] /\ f[k - 1] \in D /\ k \in 0..n
      BY <2>3, <2>4 DEF Counts
    <3>2. QED
      BY <2>2, <3>1
  <2>6. \A k \in 0..n : f[k] = IF k = 0 THEN S ELSE Meet(list, pass, f[k - 1], a + 1, k)
    BY <2>4, <2>5
  <2>7. f = Body(f)
    BY <2>4, <2>6
  <2>8. QED
    BY <2>7
<1>2. met = Body(met)
  BY <1>1
<1>3. MeetAll(list, pass, S, a + 1) = met[n]
  BY DEF MeetAll
<1> HIDE DEF met
<1>4. met[0] = S /\ \A j \in 0..n : j < n => met[j + 1] = Meet(list, pass, met[j], a + 1, j + 1)
  BY <1>2
<1> DEFINE K == {j \in 0..n : Met(list, pass, met[j], a, j)}
<1>5. 0 \in K
  BY <1>4
<1>6. ASSUME NEW j \in 0..n, j < n, j \in K PROVE j + 1 \in K
  BY <1>4, <1>6, MeetKeeps
<1> HIDE DEF K
<1>7. \A j \in 0..n : j \in K
  BY <1>5, <1>6, EachRound
<1>8. Met(list, pass, met[n], a, n)
  BY <1>7 DEF K
<1>9. QED
  BY <1>3, <1>8 DEF Met

\* The mappings that stay active are those that no other beats.
LEMMA ActiveIs ==
  ASSUME NEW list, NEW n \in Nat, DOMAIN list = 1..n, Len(list) = n, NEW pass,
         Decided(list, pass)
  PROVE  Active(list, pass) = Unbeaten(list, pass)
<1> DEFINE D == SUBSET (1..n)
           U == Unbeaten(list, pass)
           Body(f) == [i \in 0..n |-> IF i = 0 THEN 1..n ELSE MeetAll(list, pass, f[i - 1], i)]
           left == CHOOSE f : f = Body(f)
\* A set that is not one of the loop's has no say.
           step == [p \in (0..n) \X D |->
                      IF MeetAll(list, pass, p[2], p[1]) \in D
                      THEN MeetAll(list, pass, p[2], p[1]) ELSE {}]
<1>1. step \in [(0..n) \X D -> D] /\ 1..n \in D
  OBVIOUS
<1>2. \A k \in 0..n, R \in D : MeetAll(list, pass, R, k) \in D =>
        step[<<k, R>>] = MeetAll(list, pass, R, k)
  OBVIOUS
<1>3. Met(list, pass, 1..n, 0, 0)
  BY DEF Met, Unbeaten
<1>4. ASSUME NEW S \in D, NEW a \in 0..n, a < n, Met(list, pass, S, a, 0)
      PROVE  /\ Met(list, pass, MeetAll(list, pass, S, a + 1), a + 1, 0)
             /\ MeetAll(list, pass, S, a + 1) \in D
  <2>1. a \in Nat
    BY <1>4
  <2>2. Met(list, pass, MeetAll(list, pass, S, a + 1), a + 1, 0)
    BY <1>4, <2>1, MeetAllKeeps
  <2>3. QED
    BY <2>2 DEF Met
<1> HIDE DEF step, D
<1>5. PICK f : Counts(f, n, D, 1..n, step)
  BY <1>1, CountedSteps
<1>6. f \in [0..n -> D] /\ f[0] = 1..n
  BY <1>5 DEF Counts
<1>7. \A k \in 1..n : f[k] = step[<<k, f[k - 1]>>]
  BY <1>5 DEF Counts
<1> DEFINE K == {k \in 0..n : /\ Met(list, pass, f[k], k, 0)
                              /\ k # 0 => f[k] = MeetAll(list, pass, f[k - 1], k)}
<1>8. 0 \in K
  BY <1>3, <1>6
<1>9. ASSUME NEW k \in 0..n, k < n, k \in K PROVE k + 1 \in K
  <2>1. k + 1 \in 1..n /\ k + 1 \in 0..n /\ (k + 1) - 1 = k /\ k + 1 # 0
    BY <1>9
  <2>2. f[k] \in D /\ Met(list, pass, f[k], k, 0)
    BY <1>6, <1>9
  <2>3. f[k + 1] = step[<<k + 1, f[k]>>]
    BY <1>7, <2>1
  <2>4. /\ Met(list, pass, MeetAll(list, pass, f[k], k + 1), k + 1, 0)
        /\ MeetAll(list, pass, f[k], k + 1) \in D
    BY <1>4, <1>9, <2>2
  <2>5. f[k + 1] = MeetAll(list, pass, f[k], k + 1)
    BY <1>2, <2>1, <2>2, <2>3, <2>4
  <2>6. QED
    BY <2>1, <2>4, <2>5
<1> HIDE DEF K
<1>10. \A k \in 0..n : k \in K
  BY <1>8, <1>9, EachRound
<1>11. \A k \in 1..n : f[k] = MeetAll(list, pass, f[k - 1], k)
  <2>1. ASSUME NEW k \in 1..n PROVE f[k] = MeetAll(list, pass, f[k - 1], k)
    <3>1. k \in K /\ k # 0
      BY <1>10
    <3>2. QED
      BY <3>1 DEF K
  <2>2. QED
    BY <2>1
<1>12. f = Body(f)
  <2>1. \A k \in 0..n : f[k] = IF k = 0 THEN 1..n ELSE MeetAll(list, pass, f[k - 1], k)
    BY <1>6, <1>11
  <2>2. QED
    BY <1>6, <2>1
<1>13. left = Body(left)
  BY <1>12
<1>14. Active(list, pass) = left[n]
  BY DEF Active
<1> HIDE DEF left
<1> DEFINE G == {k \in 0..n : left[k] = f[k]}
<1>15. 0 \in G
  BY <1>6, <1>13
<1>16. ASSUME NEW k \in 0..n, k < n, k \in G PROVE k + 1 \in G
  <2>1. k + 1 \in 1..n /\ (k + 1) - 1 = k
    BY <1>16
  <2>2. left[k + 1] = MeetAll(list, pass, left[k], k + 1)
    BY <1>13, <2>1
  <2>3. f[k + 1] = MeetAll(list, pass, f[k], k + 1)
    BY <1>11, <2>1
  <2>4. QED
    BY <1>16, <2>1, <2>2, <2>3
<1> HIDE DEF G
<1>17. \A k \in 0..n : k \in G
  BY <1>15, <1>16, EachRound
<1>18. Active(list, pass) = f[n] /\ Met(list, pass, f[n], n, 0)
  <2>1. n \in K /\ n \in G
    BY <1>10, <1>17
  <2>2. QED
    BY <1>14, <2>1 DEF K, G
<1>19. ASSUME NEW i \in f[n], i \notin U PROVE FALSE
  <2>1. i \in DOMAIN list
    BY <1>18, <1>19 DEF Met
  <2>2. PICK j \in U : Beats(list, pass, j, i)
    BY <1>19, <2>1 DEF Decided
  <2>3. j \in DOMAIN list /\ i # j
    BY <1>19, <2>2 DEF Unbeaten
  <2>4. CASE i < j
    BY <1>18, <1>19, <2>1, <2>2, <2>3, <2>4 DEF Met
  <2>5. CASE j < i
    BY <1>18, <1>19, <2>1, <2>2, <2>3, <2>5 DEF Met
  <2>6. QED
    BY <2>1, <2>3, <2>4, <2>5
<1>20. U \subseteq f[n]
  BY <1>18 DEF Met
<1>21. QED
  BY <1>18, <1>19, <1>20

\* f collects the entries of list whose indices are in U.
Collects(f, list, n, U) ==
  f = [k \in 0..n |-> IF k = 0 THEN <<>>
                      ELSE IF k \in U THEN Append(f[k - 1], list[k]) ELSE f[k - 1]]

LEMMA CollectsExists ==
  ASSUME NEW S, NEW n \in Nat, NEW list \in [1..n -> S], NEW U \in SUBSET (1..n)
  PROVE  \E f : Collects(f, list, n, U)
<1> DEFINE D == Seq(S)
           step == [p \in (0..n) \X D |-> IF p[1] \in U THEN Append(p[2], list[p[1]]) ELSE p[2]]
<1>1. <<>> \in D
  OBVIOUS
<1>2. \A p \in (0..n) \X D :
        (IF p[1] \in U THEN Append(p[2], list[p[1]]) ELSE p[2]) \in D
  <2>1. SUFFICES ASSUME NEW p \in (0..n) \X D, p[1] \in U
                 PROVE  Append(p[2], list[p[1]]) \in D
    OBVIOUS
  <2>2. p[2] \in Seq(S) /\ list[p[1]] \in S
    BY <2>1
  <2>3. QED
    BY <2>2, AppendProperties
<1> HIDE DEF D
<1>3. step \in [(0..n) \X D -> D]
  BY <1>2
<1>4. \A k \in 0..n, s \in D : step[<<k, s>>] = IF k \in U THEN Append(s, list[k]) ELSE s
  OBVIOUS
<1> HIDE DEF step
<1>5. PICK f : Counts(f, n, D, <<>>, step)
  BY <1>1, <1>3, CountedSteps
<1>6. f \in [0..n -> D] /\ f = [k \in 0..n |-> IF k = 0 THEN <<>> ELSE step[<<k, f[k - 1]>>]]
  BY <1>5 DEF Counts
<1>7. ASSUME NEW k \in 1..n
      PROVE  f[k] = IF k \in U THEN Append(f[k - 1], list[k]) ELSE f[k - 1]
  <2>1. k \in 0..n /\ k # 0 /\ k - 1 \in 0..n
    OBVIOUS
  <2>2. f[k] = step[<<k, f[k - 1]>>] /\ f[k - 1] \in D
    BY <1>6, <2>1
  <2>3. QED
    BY <1>4, <2>1, <2>2
<1>8. \A k \in 0..n : f[k] = IF k = 0 THEN <<>>
                             ELSE IF k \in U THEN Append(f[k - 1], list[k]) ELSE f[k - 1]
  <2>1. f[0] = <<>>
    BY <1>6
  <2>2. QED
    BY <1>7, <2>1
<1>9. Collects(f, list, n, U)
  BY <1>6, <1>8 DEF Collects
<1>10. QED
  BY <1>9

\* s is a sequence over S with the entries of list at the indices of U up to k.
Collected(s, S, list, U, k) ==
  s \in Seq(S) /\ \A x : x \in ToSet(s) <=> \E i \in U : i <= k /\ x = list[i]

LEMMA AppendSet ==
  ASSUME NEW S, NEW s \in Seq(S), NEW e \in S
  PROVE  /\ Append(s, e) \in Seq(S)
         /\ \A x : x \in ToSet(Append(s, e)) <=> x \in ToSet(s) \/ x = e
<1>1. /\ Append(s, e) \in Seq(S) /\ Len(Append(s, e)) = Len(s) + 1 /\ Len(s) \in Nat
      /\ \A i \in 1..Len(s) : Append(s, e)[i] = s[i]
      /\ Append(s, e)[Len(s) + 1] = e
  BY AppendProperties, LenProperties
<1>2. DOMAIN s = 1..Len(s) /\ DOMAIN Append(s, e) = 1..(Len(s) + 1)
  BY <1>1, LenProperties
<1>3. ASSUME NEW x, x \in ToSet(Append(s, e)) PROVE x \in ToSet(s) \/ x = e
  <2>1. PICK i \in 1..(Len(s) + 1) : x = Append(s, e)[i]
    BY <1>2, <1>3 DEF ToSet
  <2>2. CASE i \in 1..Len(s)
    BY <1>1, <1>2, <2>1, <2>2 DEF ToSet
  <2>3. CASE i = Len(s) + 1
    BY <1>1, <2>1, <2>3
  <2>4. QED
    BY <1>1, <2>2, <2>3
<1>4. ASSUME NEW x, x \in ToSet(s) PROVE x \in ToSet(Append(s, e))
  <2>1. PICK i \in 1..Len(s) : x = s[i]
    BY <1>2, <1>4 DEF ToSet
  <2>2. i \in 1..(Len(s) + 1) /\ Append(s, e)[i] = x
    BY <1>1, <2>1
  <2>3. QED
    BY <1>2, <2>2 DEF ToSet
<1>5. e \in ToSet(Append(s, e))
  <2>1. Len(s) + 1 \in 1..(Len(s) + 1)
    BY <1>1
  <2>2. QED
    BY <1>1, <1>2, <2>1 DEF ToSet
<1>6. QED
  BY <1>1, <1>3, <1>4, <1>5

LEMMA CollectsAll ==
  ASSUME NEW S, NEW n \in Nat, NEW list \in [1..n -> S],
         NEW U \in SUBSET (1..n), NEW f, Collects(f, list, n, U)
  PROVE  Collected(f[n], S, list, U, n)
<1>1. f[0] = <<>>
  BY DEF Collects
<1>2. ASSUME NEW k \in 1..n
      PROVE  f[k] = IF k \in U THEN Append(f[k - 1], list[k]) ELSE f[k - 1]
  <2>1. k \in 0..n /\ k # 0
    OBVIOUS
  <2>2. QED
    BY <2>1 DEF Collects
<1> DEFINE K == {k \in 0..n : Collected(f[k], S, list, U, k)}
<1>3. 0 \in K
  <2>1. <<>> \in Seq(S) /\ ToSet(<<>>) = {} /\ \A i \in U : ~(i <= 0)
    BY DEF ToSet
  <2>2. Collected(<<>>, S, list, U, 0)
    BY <2>1 DEF Collected
  <2>3. QED
    BY <1>1, <2>2
<1>4. ASSUME NEW k \in 0..n, k < n, k \in K PROVE k + 1 \in K
  <2>1. k + 1 \in 1..n /\ (k + 1) - 1 = k /\ k + 1 \in 0..n
    BY <1>4
  <2>2. f[k + 1] = IF k + 1 \in U THEN Append(f[k], list[k + 1]) ELSE f[k]
    BY <1>2, <2>1
  <2>3. Collected(f[k], S, list, U, k)
    BY <1>4
  <2>4. \A i \in U : i <= k + 1 <=> i <= k \/ i = k + 1
    BY <1>4
  <2>5. CASE k + 1 \in U
    <3>1. list[k + 1] \in S /\ f[k] \in Seq(S)
      BY <2>1, <2>3 DEF Collected
    <3>2. /\ f[k + 1] \in Seq(S)
          /\ \A x : x \in ToSet(f[k + 1]) <=> x \in ToSet(f[k]) \/ x = list[k + 1]
      BY <2>2, <2>5, <3>1, AppendSet
    <3>3. Collected(f[k + 1], S, list, U, k + 1)
      BY <2>3, <2>4, <2>5, <3>2 DEF Collected
    <3>4. QED
      BY <2>1, <3>3
  <2>6. CASE k + 1 \notin U
    <3>1. f[k + 1] = f[k]
      BY <2>2, <2>6
    <3>2. Collected(f[k + 1], S, list, U, k + 1)
      BY <2>3, <2>4, <2>6, <3>1 DEF Collected
    <3>3. QED
      BY <2>1, <3>2
  <2>7. QED
    BY <2>5, <2>6
<1> HIDE DEF K
<1>5. \A k \in 0..n : k \in K
  BY <1>3, <1>4, EachRound
<1>6. n \in K
  BY <1>5
<1>7. QED
  BY <1>6 DEF K

LEMMA ChosenCollects ==
  ASSUME NEW list, NEW n, NEW U, NEW g, Collects(g, list, n, U)
  PROVE  Collects(CHOOSE f : f = [k \in 0..n |-> IF k = 0 THEN <<>>
                    ELSE IF k \in U THEN Append(f[k - 1], list[k]) ELSE f[k - 1]], list, n, U)
<1> DEFINE Body(f) == [k \in 0..n |-> IF k = 0 THEN <<>>
                    ELSE IF k \in U THEN Append(f[k - 1], list[k]) ELSE f[k - 1]]
<1>1. g = Body(g)
  BY Zenon DEF Collects
<1>2. SUFFICES (CHOOSE f : f = Body(f)) = Body(CHOOSE f : f = Body(f))
  BY Zenon DEF Collects
<1> HIDE DEF Body
<1>3. QED
  BY <1>1

\* What a pass leaves of a list.
LEMMA WinnersAre ==
  ASSUME NEW S, NEW list \in Seq(S), NEW pass, Decided(list, pass)
  PROVE  /\ Winners(list, pass) \in Seq(S)
         /\ \A x : x \in ToSet(Winners(list, pass)) <=>
                     \E i \in Unbeaten(list, pass) : x = list[i]
<1>1. PICK n \in Nat : Len(list) = n
  BY LenProperties
<1>2. DOMAIN list = 1..n /\ list \in [1..n -> S]
  BY <1>1, LenProperties
<1>3. PICK U : U = Unbeaten(list, pass)
  OBVIOUS
<1>4. U \in SUBSET (1..n)
  BY <1>2, <1>3 DEF Unbeaten
<1>5. Active(list, pass) = U
  BY <1>1, <1>2, <1>3, ActiveIs
<1> DEFINE kept == CHOOSE f : f = [k \in 0..n |-> IF k = 0 THEN <<>>
                      ELSE IF k \in U THEN Append(f[k - 1], list[k]) ELSE f[k - 1]]
<1>6. Winners(list, pass) = kept[n]
  BY <1>1, <1>5 DEF Winners
<1>7. \E g : Collects(g, list, n, U)
  BY <1>2, <1>4, CollectsExists
<1>8. Collects(kept, list, n, U)
  BY <1>7, ChosenCollects
<1> HIDE DEF kept
<1>9. Collected(kept[n], S, list, U, n)
  BY <1>2, <1>4, <1>8, CollectsAll
<1>10. \A i \in U : i <= n
  BY <1>4
<1>11. QED
  BY <1>3, <1>6, <1>9, <1>10 DEF Collected

LEMMA LowestFacts ==
  ASSUME NEW S, AreMappings(S), NEW x \in S
  PROVE  /\ Lowest(S, x.pfx) \in Nat
         /\ \E m \in S : m.pfx = x.pfx /\ m.idx = Lowest(S, x.pfx)
         /\ \A y \in S : y.pfx = x.pfx => Lowest(S, x.pfx) <= y.idx
<1> DEFINE I == {z.idx : z \in {w \in S : w.pfx = x.pfx}}
<1>1. I \in SUBSET Nat /\ I # {} /\ Lowest(S, x.pfx) = Min(I)
  BY DEF AreMappings, Lowest
<1>2. Min(I) \in I /\ \A i \in I : Min(I) <= i
  <2> HIDE DEF I
  <2>1. QED
    BY <1>1, MinFacts
<1>3. QED
  BY <1>1, <1>2

\* The entries of a list.
LEMMA Entries ==
  ASSUME NEW S, NEW list \in Seq(S)
  PROVE  /\ \A i \in DOMAIN list : list[i] \in S /\ list[i] \in ToSet(list)
         /\ \A x : x \in ToSet(list) => \E i \in DOMAIN list : x = list[i]
<1>1. \A i \in DOMAIN list : list[i] \in S
  BY LenProperties
<1>2. QED
  BY <1>1 DEF ToSet

\* The first pass leaves the mappings with the lowest index of their prefix.
LEMMA PrefixPass ==
  ASSUME NEW S, AreMappings(S), NEW list \in Seq(S), \A x \in S : x \in ToSet(list)
  PROVE  /\ Decided(list, "prefix")
         /\ \A i \in DOMAIN list :
              i \in Unbeaten(list, "prefix") <=> list[i].idx = Lowest(S, list[i].pfx)
<1>1. /\ \A i \in DOMAIN list : list[i] \in S /\ list[i].idx \in Nat
      /\ \A x \in S : \E i \in DOMAIN list : x = list[i]
  BY Entries DEF AreMappings
<1>2. ASSUME NEW i \in DOMAIN list, NEW j \in DOMAIN list
      PROVE  /\ Conflict("prefix", list[i], list[j]) <=>
                  list[i].pfx = list[j].pfx /\ list[i].idx # list[j].idx
             /\ Lost("prefix", list[i], list[j]) <=> list[i].idx > list[j].idx
  BY DEF Conflict, Lost, PrefixesConflict, PrefixLost
<1>3. ASSUME NEW i \in DOMAIN list, NEW j \in DOMAIN list
      PROVE  Beats(list, "prefix", j, i) <=>
               list[i].pfx = list[j].pfx /\ list[j].idx < list[i].idx
  BY <1>1, <1>2 DEF Beats
<1>4. ASSUME NEW i \in DOMAIN list
      PROVE  /\ Lowest(S, list[i].pfx) \in Nat
             /\ \E j \in DOMAIN list : list[j].pfx = list[i].pfx /\ list[j].idx = Lowest(S, list[i].pfx)
             /\ \A j \in DOMAIN list : list[j].pfx = list[i].pfx => Lowest(S, list[i].pfx) <= list[j].idx
  <2>1. list[i] \in S
    BY <1>1
  <2>2. /\ Lowest(S, list[i].pfx) \in Nat
        /\ \E m \in S : m.pfx = list[i].pfx /\ m.idx = Lowest(S, list[i].pfx)
        /\ \A y \in S : y.pfx = list[i].pfx => Lowest(S, list[i].pfx) <= y.idx
    BY <2>1, LowestFacts
  <2>3. QED
    BY <1>1, <2>2
<1>5. ASSUME NEW i \in DOMAIN list
      PROVE  i \in Unbeaten(list, "prefix") <=> list[i].idx = Lowest(S, list[i].pfx)
  <2>1. i \in Unbeaten(list, "prefix") <=> \A j \in DOMAIN list : ~Beats(list, "prefix", j, i)
    BY DEF Unbeaten
  <2>2. PICK low \in Nat : low = Lowest(S, list[i].pfx)
    BY <1>4
  <2>3. PICK idx \in Nat : idx = list[i].idx
    BY <1>1
  <2>4. low <= idx
    BY <1>4, <2>2, <2>3
  <2>5. ASSUME low < idx PROVE \E j \in DOMAIN list : Beats(list, "prefix", j, i)
    <3>1. PICK j \in DOMAIN list : list[j].pfx = list[i].pfx /\ list[j].idx = low
      BY <1>4, <2>2
    <3>2. Beats(list, "prefix", j, i)
      BY <1>3, <2>3, <2>5, <3>1
    <3>3. QED
      BY <3>2
  <2>6. ASSUME NEW j \in DOMAIN list, Beats(list, "prefix", j, i) PROVE low < idx
    <3>1. list[j].pfx = list[i].pfx /\ list[j].idx < idx
      BY <1>3, <2>3, <2>6
    <3>2. low <= list[j].idx /\ list[j].idx \in Nat
      BY <1>1, <1>4, <2>2, <3>1
    <3>3. QED
      BY <3>1, <3>2
  <2>7. low < idx <=> low # idx
    BY <2>4
  <2>8. QED
    BY <2>1, <2>2, <2>3, <2>5, <2>6, <2>7
<1>6. ASSUME NEW i \in DOMAIN list, i \notin Unbeaten(list, "prefix")
      PROVE  \E j \in Unbeaten(list, "prefix") : Beats(list, "prefix", j, i)
  <2>1. PICK j \in DOMAIN list : list[j].pfx = list[i].pfx /\ list[j].idx = Lowest(S, list[i].pfx)
    BY <1>4
  <2>2. j \in Unbeaten(list, "prefix")
    BY <1>5, <2>1
  <2>3. list[i].idx # list[j].idx /\ list[j].idx <= list[i].idx
    BY <1>4, <1>5, <1>6, <2>1
  <2>4. list[j].idx < list[i].idx
    BY <1>1, <2>3
  <2>5. Beats(list, "prefix", j, i)
    BY <1>3, <2>1, <2>4
  <2>6. QED
    BY <2>2, <2>5
<1>7. Decided(list, "prefix")
  BY <1>1, <1>2, <1>6 DEF Decided
<1>8. QED
  BY <1>5, <1>7

\* The second pass leaves of these the best prefix of each index.
LEMMA SidPass ==
  ASSUME NEW S, AreMappings(S), NEW list \in Seq(S),
         \A x : x \in ToSet(list) <=> x \in S /\ x.idx = Lowest(S, x.pfx)
  PROVE  /\ Decided(list, "sid")
         /\ \A i \in DOMAIN list : i \in Unbeaten(list, "sid") <=> list[i] \in Survivors(S)
<1>1. /\ \A i \in DOMAIN list : /\ list[i] \in S /\ list[i].idx = Lowest(S, list[i].pfx)
                                /\ list[i].pfx \in DOMAIN Address
      /\ \A x \in S : x.idx = Lowest(S, x.pfx) => \E i \in DOMAIN list : x = list[i]
  BY Entries DEF AreMappings
<1>2. ASSUME NEW i \in DOMAIN list, NEW j \in DOMAIN list
      PROVE  /\ Conflict("sid", list[i], list[j]) <=>
                  list[i].idx = list[j].idx /\ list[i].pfx # list[j].pfx
             /\ Lost("sid", list[i], list[j]) <=> Preferred(list[j].pfx, list[i].pfx)
  BY DEF Conflict, Lost, SidsConflict, SidLost, Preferred
<1>3. ASSUME NEW i \in DOMAIN list, NEW j \in DOMAIN list
      PROVE  Beats(list, "sid", j, i) <=>
               /\ list[i].idx = list[j].idx /\ list[i].pfx # list[j].pfx
               /\ Preferred(list[j].pfx, list[i].pfx)
  BY <1>2 DEF Beats
<1>4. ASSUME NEW i \in DOMAIN list
      PROVE  i \in Unbeaten(list, "sid") <=> list[i] \in Survivors(S)
  <2>1. i \in Unbeaten(list, "sid") <=> \A j \in DOMAIN list : ~Beats(list, "sid", j, i)
    BY DEF Unbeaten
  <2>2. ASSUME list[i] \in Survivors(S), NEW j \in DOMAIN list, Beats(list, "sid", j, i)
        PROVE  FALSE
    <3>1. list[i].idx = list[j].idx /\ list[i].pfx # list[j].pfx
          /\ Preferred(list[j].pfx, list[i].pfx)
      BY <1>3, <2>2
    <3>2. Preferred(list[i].pfx, list[j].pfx)
      BY <1>1, <2>2, <3>1 DEF Survivors
    <3>3. QED
      BY <1>1, <3>1, <3>2, PreferenceTotal
  <2>3. ASSUME \A j \in DOMAIN list : ~Beats(list, "sid", j, i),
               NEW x \in S, x.pfx # list[i].pfx, Lowest(S, x.pfx) = list[i].idx
        PROVE  Preferred(list[i].pfx, x.pfx)
    <3>1. PICK m \in S : m.pfx = x.pfx /\ m.idx = Lowest(S, x.pfx)
      BY LowestFacts
    <3>2. PICK j \in DOMAIN list : m = list[j]
      BY <1>1, <3>1
    <3>3. ~Preferred(list[j].pfx, list[i].pfx)
      BY <1>3, <2>3, <3>1, <3>2
    <3>4. QED
      BY <1>1, <2>3, <3>1, <3>2, <3>3, PreferenceTotal
  <2>4. QED
    BY <1>1, <2>1, <2>2, <2>3 DEF Survivors
<1>5. ASSUME NEW i \in DOMAIN list, i \notin Unbeaten(list, "sid")
      PROVE  \E j \in Unbeaten(list, "sid") : Beats(list, "sid", j, i)
  <2>1. list[i] \in S /\ list[i] \notin Survivors(S) /\ list[i].idx = Lowest(S, list[i].pfx)
    BY <1>1, <1>4, <1>5
  <2>2. PICK m \in Survivors(S) : m.idx = Lowest(S, list[i].pfx)
    BY <2>1, SurvivorsAgree
  <2>3. m \in S /\ m.idx = Lowest(S, m.pfx)
    BY DEF Survivors
  <2>4. PICK j \in DOMAIN list : m = list[j]
    BY <1>1, <2>3
  <2>5. m.pfx # list[i].pfx
    BY <2>1, <2>2, <2>3 DEF Survivors
  <2>6. Preferred(m.pfx, list[i].pfx)
    BY <2>1, <2>2, <2>5 DEF Survivors
  <2>7. j \in Unbeaten(list, "sid") /\ Beats(list, "sid", j, i)
    BY <1>3, <1>4, <2>1, <2>2, <2>4, <2>5, <2>6
  <2>8. QED
    BY <2>7
<1>6. ASSUME NEW i \in DOMAIN list, NEW j \in DOMAIN list, Conflict("sid", list[i], list[j])
      PROVE  /\ Conflict("sid", list[j], list[i])
             /\ Lost("sid", list[i], list[j]) <=> ~Lost("sid", list[j], list[i])
  BY <1>1, <1>2, <1>6, PreferenceTotal
<1>7. Decided(list, "sid")
  BY <1>5, <1>6 DEF Decided
<1>8. QED
  BY <1>4, <1>7

\* Whatever the order of the list, the two passes leave the survivors.
LEMMA ResolvedAre ==
  ASSUME NEW S, AreMappings(S), NEW list \in Seq(S), \A x \in S : x \in ToSet(list)
  PROVE  ToSet(Resolved(list)) = Survivors(S)
<1>1. PICK first : first = Winners(list, "prefix")
  OBVIOUS
<1>2. /\ Decided(list, "prefix")
      /\ \A i \in DOMAIN list :
           i \in Unbeaten(list, "prefix") <=> list[i].idx = Lowest(S, list[i].pfx)
  BY PrefixPass
<1>3. /\ first \in Seq(S)
      /\ \A x : x \in ToSet(first) <=> \E i \in Unbeaten(list, "prefix") : x = list[i]
  BY <1>1, <1>2, WinnersAre
<1>4. \A x : x \in ToSet(first) <=> x \in S /\ x.idx = Lowest(S, x.pfx)
  <2>1. Unbeaten(list, "prefix") \subseteq DOMAIN list
    BY DEF Unbeaten
  <2>2. /\ \A i \in DOMAIN list : list[i] \in S
        /\ \A x \in S : \E i \in DOMAIN list : x = list[i]
    BY Entries
  <2>3. QED
    BY <1>2, <1>3, <2>1, <2>2
<1>5. /\ Decided(first, "sid")
      /\ \A i \in DOMAIN first : i \in Unbeaten(first, "sid") <=> first[i] \in Survivors(S)
  BY <1>3, <1>4, SidPass
<1>6. \A x : x \in ToSet(Winners(first, "sid")) <=> \E i \in Unbeaten(first, "sid") : x = first[i]
  BY <1>3, <1>5, WinnersAre
<1>7. \A x : x \in ToSet(Winners(first, "sid")) <=> x \in Survivors(S)
  <2>1. Unbeaten(first, "sid") \subseteq DOMAIN first
    BY DEF Unbeaten
  <2>2. \A x \in Survivors(S) : x \in ToSet(first)
    BY <1>4 DEF Survivors
  <2>3. \A x \in Survivors(S) : \E i \in DOMAIN first : x = first[i]
    BY <1>3, <2>2, Entries
  <2>4. QED
    BY <1>5, <1>6, <2>1, <2>3
<1>8. QED
  BY <1>1, <1>7 DEF Resolved

LEMMA Orders ==
  ASSUME NEW S, IsFiniteSet(S), NEW list \in SetToSeqs(S)
  PROVE  list \in Seq(S) /\ \A x \in S : x \in ToSet(list)
<1>1. PICK n \in Nat : n = Cardinality(S)
  BY FS_CardinalityType
<1>2. list \in [1..n -> S] /\ \A i, j \in 1..n : i # j => list[i] # list[j]
  BY <1>1 DEF SetToSeqs
<1>3. list \in Injection(1..n, S)
  BY <1>2 DEF Injection, IsInjective
<1>4. IsFiniteSet(1..n) /\ Cardinality(1..n) = n
  BY FS_Interval
<1>5. list \in Surjection(1..n, S)
  BY <1>1, <1>3, <1>4, FS_Injection
<1>6. \A x \in S : \E i \in 1..n : list[i] = x
  BY <1>5 DEF Surjection
<1>7. QED
  BY <1>2, <1>6, SeqDef DEF ToSet

LEMMA MappingsFinite ==
  ASSUME SidsTyped
  PROVE  IsFiniteSet(Mappings) /\ AreMappings(Mappings)
<1> DEFINE at(h) == {Mapping(h, sids[h][k]) : k \in DOMAIN sids[h]}
           all == {at(h) : h \in Node}
<1>1. ASSUME NEW h \in Node PROVE IsFiniteSet(at(h))
  <2>1. sids[h] \in Seq(SidOf(h))
    BY DEF SidsTyped
  <2>2. PICK n \in Nat : DOMAIN sids[h] = 1..n
    BY <2>1, LenProperties
  <2>3. IsFiniteSet(1..n)
    BY FS_Interval
  <2> DEFINE g == [k \in 1..n |-> Mapping(h, sids[h][k])]
  <2>4. g \in Surjection(1..n, at(h))
    BY <2>2 DEF Surjection
  <2> HIDE DEF g, at
  <2>5. QED
    BY <2>3, <2>4, FS_Surjection
<1> HIDE DEF at
<1>2. IsFiniteSet(all)
  <2> DEFINE g == [h \in Node |-> at(h)]
  <2>1. g \in Surjection(Node, all)
    BY DEF Surjection
  <2> HIDE DEF g, all
  <2>2. QED
    BY <2>1, LabelConstants, FS_Surjection
<1>3. \A T \in all : IsFiniteSet(T)
  BY <1>1
<1>4. IsFiniteSet(UNION all)
  <2> HIDE DEF all
  <2>1. QED
    BY <1>2, <1>3, FS_UNION
<1>5. Mappings = UNION all
  BY DEF Mappings, at
<1>6. ASSUME NEW m \in Mappings PROVE m.pfx \in DOMAIN Address /\ m.idx \in Nat
  <2>1. PICK h \in Node : m \in at(h)
    BY DEF Mappings, at
  <2>2. PICK k \in DOMAIN sids[h] : m = Mapping(h, sids[h][k])
    BY <2>1 DEF at
  <2>3. sids[h][k] \in SidOf(h)
    BY LenProperties DEF SidsTyped
  <2>4. QED
    BY <2>2, <2>3, SrConstants DEF Mapping, SidOf, Prefix
<1>7. QED
  BY <1>4, <1>5, <1>6 DEF AreMappings

\* On every network and whatever SIDs are configured, the two passes over the list of
\* mappings leave the same ones in every order of the list, which have no conflict.
THEOREM ResolutionIsOrderless == SrSpec => []ConflictsResolved
<1>1. SrInv => ConflictsResolved
  <2> SUFFICES ASSUME SrInv, NEW list \in SetToSeqs(Mappings)
               PROVE  /\ ToSet(Resolved(list)) = Survivors(Mappings)
                      /\ \A m1, m2 \in ToSet(Resolved(list)) : m1.pfx = m2.pfx <=> m1.idx = m2.idx
    BY DEF ConflictsResolved
  <2>1. IsFiniteSet(Mappings) /\ AreMappings(Mappings)
    BY MappingsFinite DEF SrInv
  <2>2. list \in Seq(Mappings) /\ \A x \in Mappings : x \in ToSet(list)
    BY <2>1, Orders
  <2>3. ToSet(Resolved(list)) = Survivors(Mappings)
    BY <2>1, <2>2, ResolvedAre
  <2>4. \A m1, m2 \in Survivors(Mappings) : m1.pfx = m2.pfx <=> m1.idx = m2.idx
    BY <2>1, SurvivorsAgree
  <2>5. QED
    BY <2>3, <2>4
<1>2. QED
  BY <1>1, SrInvariance, PTL
=============================================================================
