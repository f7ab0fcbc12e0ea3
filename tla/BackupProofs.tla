---------------------------- MODULE BackupProofs ----------------------------
(***************************************************************************)
(* Backup next hops on every network: the types, what alternates and       *)
(* tunnels promise, and which destinations have them.                      *)
(*                                                                         *)
(* The distances of a run are the greatest potential: no function that is  *)
(* 0 at the root and grows by at most the cost over each edge lies above   *)
(* them.  The triangle inequality, the distances from an overloaded router *)
(* and those of the way back each come from a potential.                   *)
(***************************************************************************)
EXTENDS BackupRun, FiniteSetTheorems, SequenceLemmas

LEMMA MinNatFacts ==
  ASSUME NEW S \in SUBSET Nat, S # {}
  PROVE  MinNat(S) \in S /\ \A y \in S : MinNat(S) <= y
BY LeastExists DEF MinNat

LEMMA TableIs ==
  ASSUME NEW f
  PROVE  Table(f) = f
BY DEF Table

LEMMA UsableFacts ==
  /\ Usable \in SUBSET Edge
  /\ \A e \in Usable : status[e] /\ Src[e] \in Node /\ Dst[e] \in Node
BY BackupConstants DEF Usable

LEMMA CostFacts ==
  ASSUME NEW m \in [Edge -> Nat], NEW e \in Edge
  PROVE  /\ Cost(m, e) \in Nat
         /\ Src[e] \notin overload => Cost(m, e) = m[e]
         /\ Src[e] \in overload => Cost(m, e) = Inf
BY BackupConstants DEF Cost

-----------------------------------------------------------------------------
(* Rounds of longer paths.                                                 *)

Start(s) == [n \in Node |-> IF n = s THEN 0 ELSE Inf]

\* r are the distances over one edge more than those of d.
IsLonger(d, r, m) ==
  /\ r \in [Node -> 0..Inf]
  /\ \A n \in Node : r[n] <= d[n]
  /\ \A e \in Usable : r[Dst[e]] <= d[Src[e]] + Cost(m, e)
  /\ \A n \in Node : \/ r[n] = d[n]
                     \/ \E e \in Usable : Dst[e] = n /\ r[n] = d[Src[e]] + Cost(m, e)

LEMMA LongerFacts ==
  ASSUME NEW m \in [Edge -> Nat], NEW d \in [Node -> 0..Inf]
  PROVE  IsLonger(d, Longer(m, d, Usable), m)
<1> DEFINE Over(n) == {d[Src[e]] + Cost(m, e) : e \in {f \in Usable : Dst[f] = n}}
<1>1. PICK r : r = Longer(m, d, Usable)
  OBVIOUS
<1>2. r = [n \in Node |-> MinNat({d[n]} \cup Over(n))]
  BY <1>1 DEF Longer
<1>3. Inf \in Nat /\ \A n \in Node : d[n] \in 0..Inf
  BY BackupConstants
<1>4. \A e \in Usable : d[Src[e]] + Cost(m, e) \in Nat
  <2>1. ASSUME NEW e \in Usable PROVE d[Src[e]] + Cost(m, e) \in Nat
    <3>1. e \in Edge /\ Src[e] \in Node
      BY UsableFacts
    <3>2. Cost(m, e) \in Nat /\ d[Src[e]] \in Nat
      BY <1>3, <3>1, CostFacts
    <3>3. QED
      BY <3>2
  <2>2. QED
    BY <2>1
<1>5. ASSUME NEW n \in Node
      PROVE  /\ r[n] \in 0..Inf /\ r[n] <= d[n]
             /\ \A e \in Usable : Dst[e] = n => r[n] <= d[Src[e]] + Cost(m, e)
             /\ \/ r[n] = d[n]
                \/ \E e \in Usable : Dst[e] = n /\ r[n] = d[Src[e]] + Cost(m, e)
  <2> DEFINE S == {d[n]} \cup Over(n)
  <2>1. S \in SUBSET Nat /\ S # {}
    BY <1>3, <1>4
  <2>2. r[n] = MinNat(S)
    BY <1>2
  <2>3. d[n] \in S /\ \A e \in Usable : Dst[e] = n => d[Src[e]] + Cost(m, e) \in S
    OBVIOUS
  <2>4. \A x \in S : x = d[n] \/ \E e \in Usable : Dst[e] = n /\ x = d[Src[e]] + Cost(m, e)
    OBVIOUS
  <2> HIDE DEF S
  <2>5. r[n] \in S /\ \A x \in S : r[n] <= x
    BY <2>1, <2>2, MinNatFacts
  <2>6. r[n] \in Nat /\ r[n] <= d[n] /\ d[n] \in 0..Inf
    BY <1>3, <2>1, <2>3, <2>5
  <2>7. r[n] \in 0..Inf
    BY <1>3, <2>6
  <2>8. QED
    BY <2>3, <2>4, <2>5, <2>6, <2>7
<1> HIDE DEF Over
<1>6. r \in [Node -> 0..Inf]
  BY <1>2, <1>5
<1>7. \A e \in Usable : r[Dst[e]] <= d[Src[e]] + Cost(m, e)
  BY <1>5, UsableFacts
<1>8. QED
  BY <1>1, <1>5, <1>6, <1>7 DEF IsLonger

\* w are the distances over 0, 1, 2, ... edges.
IsChain(w, m, s) ==
  /\ w[0] = Start(s)
  /\ \A k \in Nat : w[k] \in [Node -> 0..Inf]
  /\ \A k \in Nat : IsLonger(w[k], w[k + 1], m)

LEMMA ChainExists ==
  ASSUME NEW m \in [Edge -> Nat], NEW s \in Node
  PROVE  \E w : IsChain(w, m, s) /\ Distances(m, s) = w[Cardinality(Node)]
<1> DEFINE D == [Node -> 0..Inf]
           step == [d \in D |-> Longer(m, d, Usable)]
           Within(f) == [k \in Nat |-> IF k = 0 THEN Start(s)
                                       ELSE Longer(m, Table(f[k - 1]), Usable)]
           w == CHOOSE f : f = Within(f)
<1>1. Inf \in Nat
  BY BackupConstants
<1>2. Distances(m, s) = w[Cardinality(Node)]
  BY TableIs DEF Distances, Start
<1>3. Start(s) \in D
  BY <1>1 DEF Start
<1>4. \A d \in D : Longer(m, d, Usable) \in D /\ IsLonger(d, Longer(m, d, Usable), m)
  BY LongerFacts DEF IsLonger
<1>5. \E f : f = Within(f)
  <2>1. step \in [D -> D]
    BY <1>4
  <2>2. \A d \in D : step[d] = Longer(m, d, Usable)
    OBVIOUS
  <2> HIDE DEF D, step
  <2>3. PICK f : Repeated(f, D, Start(s), step)
    BY <1>3, <2>1, RepeatForever
  <2>4. \A k \in Nat : k # 0 => f[k - 1] \in D
    BY <2>3 DEF Repeated
  <2>5. \A k \in Nat : k # 0 => step[f[k - 1]] = Longer(m, Table(f[k - 1]), Usable)
    BY <2>2, <2>4, TableIs
  <2>6. f = Within(f)
    BY <2>3, <2>5 DEF Repeated
  <2>7. QED
    BY <2>6
<1>6. w = Within(w)
  BY <1>5
<1> HIDE DEF w
<1>7. w[0] = Start(s)
  BY <1>6
<1>8. \A k \in Nat : w[k + 1] = Longer(m, w[k], Usable)
  <2>1. ASSUME NEW k \in Nat PROVE w[k + 1] = Longer(m, w[k], Usable)
    <3>1. k + 1 \in Nat /\ k + 1 # 0 /\ (k + 1) - 1 = k
      OBVIOUS
    <3>2. w[k + 1] = Longer(m, Table(w[(k + 1) - 1]), Usable)
      BY <1>6, <3>1
    <3>3. QED
      BY <3>1, <3>2, TableIs
  <2>2. QED
    BY <2>1
<1>9. \A k \in Nat : w[k] \in D
  <2>1. ASSUME NEW N \in Nat PROVE w[N] \in D
    <3> DEFINE T == {k \in 0..N : w[k] \in D}
    <3>1. 0 \in T
      BY <1>3, <1>7
    <3>2. ASSUME NEW k \in 0..N, k < N, k \in T PROVE k + 1 \in T
      <4>1. k + 1 \in 0..N /\ k \in Nat
        BY <3>2
      <4>2. w[k + 1] = Longer(m, w[k], Usable)
        BY <1>8, <4>1
      <4>3. QED
        BY <1>4, <3>2, <4>1, <4>2
    <3> HIDE DEF T
    <3>3. N \in T
      BY <3>1, <3>2, EachRound
    <3>4. QED
      BY <3>3 DEF T
  <2>2. QED
    BY <2>1
<1> HIDE DEF D
<1>10. \A k \in Nat : IsLonger(w[k], w[k + 1], m)
  BY <1>4, <1>8, <1>9
<1>11. IsChain(w, m, s)
  BY <1>7, <1>9, <1>10 DEF IsChain, D
<1>12. QED
  BY <1>2, <1>11

LEMMA ChainFalls ==
  ASSUME NEW w, NEW m, NEW s, IsChain(w, m, s), NEW n \in Node, NEW N \in Nat
  PROVE  \A j \in 0..N : w[N][n] <= w[j][n]
<1> DEFINE T == {k \in 0..N : \A j \in 0..k : w[k][n] <= w[j][n]}
<1>0. Inf \in Nat
  BY BackupConstants
<1>1. \A k \in Nat : w[k][n] \in 0..Inf /\ w[k + 1][n] <= w[k][n]
  <2>1. ASSUME NEW k \in Nat PROVE w[k][n] \in 0..Inf /\ w[k + 1][n] <= w[k][n]
    <3>1. w[k] \in [Node -> 0..Inf] /\ IsLonger(w[k], w[k + 1], m)
      BY DEF IsChain
    <3>2. QED
      BY <3>1 DEF IsLonger
  <2>2. QED
    BY <2>1
<1>2. 0 \in T
  BY <1>0, <1>1
<1>3. ASSUME NEW k \in 0..N, k < N, k \in T PROVE k + 1 \in T
  <2>1. k + 1 \in 0..N /\ k \in Nat /\ k + 1 \in Nat
    BY <1>3
  <2>2. w[k + 1][n] \in Nat /\ w[k][n] \in Nat /\ w[k + 1][n] <= w[k][n]
    BY <1>0, <1>1, <2>1
  <2>3. ASSUME NEW j \in 0..(k + 1) PROVE w[k + 1][n] <= w[j][n]
    <3>1. CASE j = k + 1
      BY <2>2, <3>1
    <3>2. CASE j # k + 1
      <4>1. j \in 0..k /\ j \in Nat
        BY <2>1, <3>2
      <4>2. w[k][n] <= w[j][n] /\ w[j][n] \in Nat
        BY <1>0, <1>1, <1>3, <4>1
      <4>3. QED
        BY <2>2, <4>2
    <3>3. QED
      BY <3>1, <3>2
  <2>4. QED
    BY <2>1, <2>3
<1> HIDE DEF T
<1>4. N \in T
  BY <1>2, <1>3, EachRound
<1>5. QED
  BY <1>4 DEF T

\* v are the last distances of the chain, and J the rounds they appear in.
IsLast(w, v, J) ==
  /\ v \in [Node -> 0..Inf] /\ J \in [Node -> Nat]
  /\ \A n \in Node : \A k \in Nat : v[n] <= w[k][n] /\ (w[k][n] = v[n] <=> J[n] <= k)

LEMMA LastExists ==
  ASSUME NEW w, NEW m, NEW s, IsChain(w, m, s)
  PROVE  \E v, J : IsLast(w, v, J)
<1> DEFINE Of(n) == {w[k][n] : k \in Nat}
           At(n) == {k \in Nat : w[k][n] = MinNat(Of(n))}
<1>1. Inf \in Nat /\ \A n \in Node : \A k \in Nat : w[k][n] \in 0..Inf
  BY BackupConstants DEF IsChain
<1>2. PICK v : v = [n \in Node |-> MinNat(Of(n))]
  OBVIOUS
<1>3. PICK J : J = [n \in Node |-> MinNat(At(n))]
  OBVIOUS
<1>4. ASSUME NEW n \in Node
      PROVE  /\ v[n] \in 0..Inf /\ J[n] \in Nat
             /\ \A k \in Nat : v[n] <= w[k][n]
             /\ \A k \in Nat : w[k][n] = v[n] <=> J[n] <= k
  <2>1. Of(n) \in SUBSET Nat /\ Of(n) # {}
    BY <1>1
  <2>2. \A k \in Nat : w[k][n] \in Of(n)
    OBVIOUS
  <2>3. \A x \in Of(n) : x \in 0..Inf /\ \E k \in Nat : x = w[k][n]
    BY <1>1
  <2>4. v[n] = MinNat(Of(n))
    BY <1>2
  <2> HIDE DEF Of
  <2>5. v[n] \in Of(n) /\ \A x \in Of(n) : v[n] <= x
    BY <2>1, <2>4, MinNatFacts
  <2>6. At(n) \in SUBSET Nat /\ At(n) # {}
    BY <2>3, <2>4, <2>5
  <2>7. \A k : k \in At(n) <=> k \in Nat /\ w[k][n] = v[n]
    BY <2>4
  <2>8. J[n] = MinNat(At(n))
    BY <1>3
  <2> HIDE DEF At
  <2>9. J[n] \in At(n) /\ \A k \in At(n) : J[n] <= k
    BY <2>6, <2>8, MinNatFacts
  <2>10. J[n] \in Nat /\ w[J[n]][n] = v[n] /\ v[n] \in 0..Inf
    BY <2>3, <2>5, <2>7, <2>9
  <2>11. \A k \in Nat : v[n] <= w[k][n]
    BY <2>2, <2>5
  <2>12. ASSUME NEW k \in Nat, J[n] <= k PROVE w[k][n] = v[n]
    <3>1. \A j \in 0..k : w[k][n] <= w[j][n]
      BY ChainFalls
    <3>2. w[k][n] <= v[n] /\ v[n] <= w[k][n] /\ v[n] \in Nat /\ w[k][n] \in Nat
      BY <1>1, <2>10, <2>11, <2>12, <3>1
    <3>3. QED
      BY <3>2
  <2>13. QED
    BY <2>7, <2>9, <2>10, <2>11, <2>12
<1>5. v \in [Node -> 0..Inf] /\ J \in [Node -> Nat]
  BY <1>2, <1>3, <1>4
<1>6. IsLast(w, v, J)
  BY <1>4, <1>5 DEF IsLast
<1>7. QED
  BY <1>6

\* The last distances cannot be shortened.
LEMMA LastClosed ==
  ASSUME NEW m \in [Edge -> Nat], NEW s \in Node, NEW w, NEW v, NEW J,
         IsChain(w, m, s), IsLast(w, v, J), NEW e \in Usable
  PROVE  v[Dst[e]] <= v[Src[e]] + Cost(m, e)
<1>1. /\ Src[e] \in Node /\ Dst[e] \in Node /\ Cost(m, e) \in Nat
  BY UsableFacts, CostFacts
<1>2. PICK k \in Nat : k = J[Src[e]]
  BY <1>1 DEF IsLast
<1>3. w[k][Src[e]] = v[Src[e]]
  BY <1>1, <1>2 DEF IsLast
<1>4. w[k + 1][Dst[e]] <= w[k][Src[e]] + Cost(m, e)
  BY <1>2 DEF IsChain, IsLonger
<1>5. v[Dst[e]] <= w[k + 1][Dst[e]] /\ k + 1 \in Nat
  BY <1>1 DEF IsLast
<1>6. /\ v[Dst[e]] \in Nat /\ v[Src[e]] \in Nat /\ w[k + 1][Dst[e]] \in Nat
  BY <1>1, <1>5, BackupConstants DEF IsLast, IsChain
<1>7. QED
  BY <1>1, <1>3, <1>4, <1>5, <1>6

Settled(J, k) == {n \in Node : J[n] <= k}

\* A round more settles another router: of those not settled the one that a
\* round settles first.
LEMMA SettledGrows ==
  ASSUME NEW m \in [Edge -> Nat], NEW s \in Node, NEW w, NEW v, NEW J,
         IsChain(w, m, s), IsLast(w, v, J), NEW k \in Nat, Settled(J, k) # Node
  PROVE  \E n \in Node : /\ n \notin Settled(J, k)
                         /\ Settled(J, k) \cup {n} \subseteq Settled(J, k + 1)
<1> DEFINE T == {J[n] : n \in {x \in Node : ~(J[x] <= k)}}
<1>1. Inf \in Nat /\ \A n \in Node : J[n] \in Nat /\ v[n] \in 0..Inf
  BY BackupConstants DEF IsLast
<1>2. PICK x \in Node : ~(J[x] <= k)
  BY DEF Settled
<1>3. T \in SUBSET Nat /\ T # {}
  BY <1>1, <1>2
<1>4. \A t \in T : \E n \in Node : ~(J[n] <= k) /\ t = J[n]
  OBVIOUS
<1>5. \A n \in Node : ~(J[n] <= k) => J[n] \in T
  OBVIOUS
<1> HIDE DEF T
<1>6. PICK t \in T : \A y \in T : t <= y
  BY <1>3, LeastExists
<1>7. PICK n \in Node : ~(J[n] <= k) /\ t = J[n]
  BY <1>4
<1>8. PICK j \in Nat : J[n] = j + 1 /\ k <= j
  <2>1. J[n] - 1 \in Nat /\ J[n] = (J[n] - 1) + 1 /\ k <= J[n] - 1
    BY <1>1, <1>7
  <2>2. QED
    BY <2>1
<1>9. w[j][n] # v[n] /\ w[j + 1][n] = v[n]
  <2>1. ~(j + 1 <= j) /\ j + 1 <= j + 1 /\ j + 1 \in Nat
    OBVIOUS
  <2>2. QED
    BY <1>8, <2>1 DEF IsLast
<1>10. PICK e \in Usable : Dst[e] = n /\ w[j + 1][n] = w[j][Src[e]] + Cost(m, e)
  BY <1>9 DEF IsChain, IsLonger
<1>11. Src[e] \in Node /\ Cost(m, e) \in Nat
  BY UsableFacts, CostFacts
<1>12. v[n] <= v[Src[e]] + Cost(m, e)
  BY <1>10, LastClosed
<1>13. v[Src[e]] <= w[j][Src[e]] /\ w[j][Src[e]] \in Nat
  BY <1>11, BackupConstants DEF IsLast, IsChain
<1>14. w[j][Src[e]] = v[Src[e]]
  BY <1>1, <1>9, <1>10, <1>11, <1>12, <1>13
<1>15. J[Src[e]] <= j
  BY <1>11, <1>14 DEF IsLast
<1>16. J[Src[e]] <= k
  <2>1. ~(t <= J[Src[e]])
    BY <1>1, <1>7, <1>8, <1>11, <1>15
  <2>2. QED
    BY <1>5, <1>6, <1>11, <2>1
<1>17. w[k][Src[e]] = v[Src[e]]
  BY <1>11, <1>16 DEF IsLast
<1>18. w[k + 1][n] <= w[k][Src[e]] + Cost(m, e)
  BY <1>10 DEF IsChain, IsLonger
<1>19. w[k + 1][n] <= v[n]
  BY <1>9, <1>10, <1>14, <1>17, <1>18
<1>20. w[k + 1][n] = v[n]
  <2>1. v[n] <= w[k + 1][n] /\ k + 1 \in Nat
    BY DEF IsLast
  <2>2. w[k + 1][n] \in Nat /\ v[n] \in Nat
    BY <1>1, <2>1, BackupConstants DEF IsChain
  <2>3. QED
    BY <1>19, <2>1, <2>2
<1>21. J[n] <= k + 1
  BY <1>20 DEF IsLast
<1>22. \A y \in Node : J[y] <= k => J[y] <= k + 1
  BY <1>1
<1>23. QED
  BY <1>7, <1>21, <1>22 DEF Settled

LEMMA AllSettled ==
  ASSUME NEW m \in [Edge -> Nat], NEW s \in Node, NEW w, NEW v, NEW J,
         IsChain(w, m, s), IsLast(w, v, J)
  PROVE  Settled(J, Cardinality(Node)) = Node
<1> DEFINE N == Cardinality(Node)
           P(k) == Settled(J, k) = Node \/ Cardinality(Settled(J, k)) >= k + 1
           S == {k \in 0..N : P(k)}
<1>1. IsFiniteSet(Node) /\ N \in Nat /\ Inf \in Nat
  BY BackupConstants, FS_CardinalityType
<1>2. \A k : Settled(J, k) \in SUBSET Node
  BY DEF Settled
<1>3. \A k : IsFiniteSet(Settled(J, k)) /\ Cardinality(Settled(J, k)) \in Nat
  BY <1>1, <1>2, FS_Subset, FS_CardinalityType
<1>4. P(0)
  <2>1. w[0][s] = 0
    BY DEF IsChain, Start
  <2>2. v[s] <= w[0][s] /\ v[s] \in 0..Inf
    BY DEF IsLast
  <2>3. v[s] = w[0][s]
    BY <1>1, <2>1, <2>2
  <2>4. J[s] <= 0
    BY <2>3 DEF IsLast
  <2>5. s \in Settled(J, 0)
    BY <2>4 DEF Settled
  <2>6. Cardinality(Settled(J, 0)) # 0
    BY <1>3, <2>5, FS_EmptySet
  <2>7. QED
    BY <1>3, <2>6
<1>5. ASSUME NEW k \in 0..N, k < N, k \in S
      PROVE  k + 1 \in S
  <2>0. k + 1 \in 0..N /\ k \in Nat
    BY <1>1, <1>5
  <2>1. P(k)
    BY <1>5
  <2>2. CASE Settled(J, k) = Node
    <3>1. \A n \in Node : J[n] \in Nat
      BY DEF IsLast
    <3>2. \A n \in Node : J[n] <= k
      BY <2>2 DEF Settled
    <3>3. \A n \in Node : J[n] <= k + 1
      BY <2>0, <3>1, <3>2
    <3>4. Settled(J, k + 1) = Node
      BY <3>3 DEF Settled
    <3>5. QED
      BY <2>0, <3>4
  <2>3. CASE Settled(J, k) # Node
    <3>1. PICK n \in Node : /\ n \notin Settled(J, k)
                            /\ Settled(J, k) \cup {n} \subseteq Settled(J, k + 1)
      BY <2>0, <2>3, SettledGrows
    <3>2. Cardinality(Settled(J, k) \cup {n}) = Cardinality(Settled(J, k)) + 1
      BY <1>3, <3>1, FS_AddElement
    <3>3. Cardinality(Settled(J, k) \cup {n}) <= Cardinality(Settled(J, k + 1))
      BY <1>3, <3>1, FS_Subset
    <3>4. Cardinality(Settled(J, k + 1)) >= (k + 1) + 1
      BY <1>3, <2>0, <2>1, <2>3, <3>2, <3>3
    <3>5. QED
      BY <2>0, <3>4
  <2>4. QED
    BY <2>2, <2>3
<1> HIDE DEF P
<1>6. 0 \in S
  BY <1>1, <1>4
<1> HIDE DEF S
<1>7. N \in S
  <2>1. \A k \in 0..N : k \in S
    BY <1>1, <1>5, <1>6, EachRound
  <2>2. N \in 0..N
    BY <1>1
  <2>3. QED
    BY <2>1, <2>2
<1>8. P(N)
  BY <1>7 DEF S
<1>9. Cardinality(Settled(J, N)) <= N
  BY <1>1, <1>2, FS_Subset
<1>10. QED
  BY <1>1, <1>3, <1>8, <1>9 DEF P

-----------------------------------------------------------------------------
(* Distances as the greatest potential.                                    *)

\* d grows by at most the cost over each edge in use.
IsPotential(d, m) ==
  /\ d \in [Node -> Int]
  /\ \A n \in Node : d[n] <= Inf
  /\ \A e \in Usable : d[Dst[e]] <= d[Src[e]] + Cost(m, e)

LEMMA DistanceFacts ==
  ASSUME NEW m \in [Edge -> Nat], NEW s \in Node
  PROVE  /\ Distances(m, s) \in [Node -> 0..Inf]
         /\ Distances(m, s)[s] = 0
         /\ IsPotential(Distances(m, s), m)
<1> DEFINE N == Cardinality(Node)
<1>0. Inf \in Nat /\ N \in Nat
  BY BackupConstants, FS_CardinalityType
<1>1. PICK d : d = Distances(m, s)
  OBVIOUS
<1>2. PICK w : IsChain(w, m, s) /\ d = w[N]
  BY <1>1, ChainExists
<1>3. PICK v, J : IsLast(w, v, J)
  BY <1>2, LastExists
<1>4. d \in [Node -> 0..Inf]
  BY <1>0, <1>2 DEF IsChain
<1>5. \A n \in Node : d[n] = v[n]
  <2>1. \A n \in Node : J[n] <= N
    BY <1>2, <1>3, AllSettled DEF Settled
  <2>2. QED
    BY <1>0, <1>2, <1>3, <2>1 DEF IsLast
<1>6. d[s] = 0
  <2>1. v[s] <= w[0][s] /\ w[0][s] = 0
    BY <1>2, <1>3 DEF IsLast, IsChain, Start
  <2>2. d[s] <= 0 /\ d[s] \in 0..Inf
    BY <1>4, <1>5, <2>1
  <2>3. QED
    BY <1>0, <2>2
<1>7. \A e \in Usable : d[Dst[e]] <= d[Src[e]] + Cost(m, e)
  <2>1. ASSUME NEW e \in Usable PROVE d[Dst[e]] <= d[Src[e]] + Cost(m, e)
    <3>1. v[Dst[e]] <= v[Src[e]] + Cost(m, e)
      BY <1>2, <1>3, LastClosed
    <3>2. QED
      BY <1>5, <3>1, UsableFacts
  <2>2. QED
    BY <2>1
<1>8. d \in [Node -> Int] /\ \A n \in Node : d[n] <= Inf
  BY <1>0, <1>4
<1>9. QED
  BY <1>1, <1>4, <1>6, <1>7, <1>8 DEF IsPotential

LEMMA Greatest ==
  ASSUME NEW m \in [Edge -> Nat], NEW s \in Node, NEW g, IsPotential(g, m), g[s] <= 0,
         NEW n \in Node
  PROVE  g[n] <= Distances(m, s)[n]
<1> DEFINE N == Cardinality(Node)
<1>0. Inf \in Nat /\ N \in Nat
  BY BackupConstants, FS_CardinalityType
<1>1. PICK w : IsChain(w, m, s) /\ Distances(m, s) = w[N]
  BY ChainExists
<1> DEFINE T == {k \in 0..N : \A x \in Node : g[x] <= w[k][x]}
<1> HIDE DEF N
<1>2. 0 \in T
  <2>1. \A x \in Node : g[x] <= w[0][x]
    BY <1>1 DEF IsChain, Start, IsPotential
  <2>2. QED
    BY <1>0, <2>1
<1>3. ASSUME NEW k \in 0..N, k < N, k \in T PROVE k + 1 \in T
  <2>1. k \in Nat /\ k + 1 \in 0..N /\ k + 1 \in Nat
    BY <1>0, <1>3
  <2>2. IsLonger(w[k], w[k + 1], m)
    BY <1>1, <2>1 DEF IsChain
  <2>3. ASSUME NEW x \in Node PROVE g[x] <= w[k + 1][x]
    <3>1. g[x] <= w[k][x]
      BY <1>3
    <3>2. ASSUME NEW e \in Usable, Dst[e] = x, w[k + 1][x] = w[k][Src[e]] + Cost(m, e)
          PROVE  g[x] <= w[k + 1][x]
      <4>1. Src[e] \in Node /\ Cost(m, e) \in Nat
        BY UsableFacts, CostFacts
      <4>2. g[x] <= g[Src[e]] + Cost(m, e) /\ g[Src[e]] <= w[k][Src[e]]
        BY <1>3, <3>2, <4>1 DEF IsPotential
      <4>3. g[x] \in Int /\ g[Src[e]] \in Int /\ w[k][Src[e]] \in Nat
        BY <1>0, <1>1, <2>1, <4>1 DEF IsPotential, IsChain
      <4>4. QED
        BY <3>2, <4>1, <4>2, <4>3
    <3>3. QED
      BY <2>2, <3>1, <3>2 DEF IsLonger
  <2>4. QED
    BY <2>1, <2>3
<1> HIDE DEF T
<1>4. N \in T
  <2>1. \A k \in 0..N : k \in T
    BY <1>0, <1>2, <1>3, EachRound
  <2>2. QED
    BY <1>0, <2>1
<1>5. QED
  BY <1>1, <1>4 DEF T, N

\* The triangle inequality.
LEMMA Triangle ==
  ASSUME NEW m \in [Edge -> Nat], NEW s \in Node, NEW x \in Node, NEW n \in Node
  PROVE  Distances(m, s)[n] <= Distances(m, s)[x] + Distances(m, x)[n]
<1>1. PICK d : d = Distances(m, s)
  OBVIOUS
<1>2. PICK g : g = [y \in Node |-> d[y] - d[x]]
  OBVIOUS
<1>3. d \in [Node -> 0..Inf] /\ IsPotential(d, m) /\ Inf \in Nat
  BY <1>1, DistanceFacts, BackupConstants
<1>4. \A y \in Node : d[y] \in 0..Inf
  BY <1>3
<1>5. g \in [Node -> Int] /\ \A y \in Node : g[y] <= Inf
  BY <1>2, <1>3, <1>4
<1>6. ASSUME NEW e \in Usable PROVE g[Dst[e]] <= g[Src[e]] + Cost(m, e)
  <2>1. Src[e] \in Node /\ Dst[e] \in Node /\ Cost(m, e) \in Nat
    BY UsableFacts, CostFacts
  <2>2. d[Dst[e]] <= d[Src[e]] + Cost(m, e)
    BY <1>3 DEF IsPotential
  <2>3. QED
    BY <1>2, <1>3, <1>4, <2>1, <2>2
<1>7. IsPotential(g, m)
  BY <1>5, <1>6 DEF IsPotential
<1>8. g[x] <= 0
  BY <1>2, <1>3, <1>4
<1>9. g[n] <= Distances(m, x)[n]
  BY <1>7, <1>8, Greatest
<1>10. Distances(m, x)[n] \in 0..Inf
  BY DistanceFacts
<1>11. QED
  BY <1>1, <1>2, <1>3, <1>4, <1>9, <1>10

\* An overloaded router leads nowhere.
LEMMA Overloaded ==
  ASSUME NEW m \in [Edge -> Nat], NEW s \in overload, s \in Node, NEW n \in Node, n # s
  PROVE  Distances(m, s)[n] = Inf
<1>1. PICK g : g = Start(s)
  OBVIOUS
<1>2. Inf \in Nat /\ \A y \in Node : g[y] \in 0..Inf /\ (y # s => g[y] = Inf)
  BY <1>1, BackupConstants DEF Start
<1>3. g \in [Node -> Int] /\ \A y \in Node : g[y] <= Inf
  BY <1>1, <1>2, BackupConstants DEF Start
<1>4. ASSUME NEW e \in Usable PROVE g[Dst[e]] <= g[Src[e]] + Cost(m, e)
  <2>1. Src[e] \in Node /\ Dst[e] \in Node /\ e \in Edge /\ Cost(m, e) \in Nat
    BY UsableFacts, CostFacts
  <2>2. CASE Src[e] = s
    <3>1. Cost(m, e) = Inf
      BY <2>1, <2>2, CostFacts
    <3>2. QED
      BY <1>2, <2>1, <3>1
  <2>3. CASE Src[e] # s
    BY <1>2, <2>1, <2>3
  <2>4. QED
    BY <2>2, <2>3
<1>5. IsPotential(g, m) /\ g[s] <= 0
  BY <1>1, <1>3, <1>4 DEF IsPotential, Start
<1>6. g[n] <= Distances(m, s)[n]
  BY <1>5, Greatest
<1>7. Distances(m, s)[n] \in 0..Inf
  BY DistanceFacts
<1>8. QED
  BY <1>2, <1>6, <1>7

LEMMA InverseFacts ==
  ASSUME NEW m \in [Edge -> Nat]
  PROVE  /\ InverseTopology(m) \in [Edge -> Nat]
         /\ \A e \in DOMAIN Twin : InverseTopology(m)[Twin[e]] = m[e]
BY TwinEdges DEF InverseTopology

\* The way back is not longer on the inverse topology.
LEMMA WayBack ==
  ASSUME NEW m \in [Edge -> Nat], NEW i \in [Edge -> Nat],
         \A e \in DOMAIN Twin : i[Twin[e]] = m[e],
         Paired, NEW p \in Node, p \notin overload, NEW b \in Node, b \notin overload
  PROVE  Distances(i, b)[p] <= Distances(m, p)[b]
<1>1. PICK d : d = Distances(i, b)
  OBVIOUS
<1>2. PICK g : g = [y \in Node |-> d[p] - (IF y \in overload THEN Inf ELSE d[y])]
  OBVIOUS
<1>3. d \in [Node -> 0..Inf] /\ d[b] = 0 /\ IsPotential(d, i) /\ Inf \in Nat
  BY <1>1, DistanceFacts, BackupConstants
<1>4. \A y \in Node : d[y] \in 0..Inf
  BY <1>3
<1>5. g \in [Node -> Int] /\ \A y \in Node : g[y] <= Inf
  BY <1>2, <1>3, <1>4
<1>6. ASSUME NEW e \in Usable PROVE g[Dst[e]] <= g[Src[e]] + Cost(m, e)
  <2>1. Src[e] \in Node /\ Dst[e] \in Node /\ e \in Edge /\ Cost(m, e) \in Nat
    BY UsableFacts, CostFacts
  <2>2. CASE Dst[e] \in overload
    BY <1>2, <1>3, <1>4, <2>1, <2>2
  <2>3. CASE Src[e] \in overload
    <3>1. Cost(m, e) = Inf
      BY <2>1, <2>3, CostFacts
    <3>2. QED
      BY <1>2, <1>3, <1>4, <2>1, <2>3, <3>1
  <2>4. CASE Src[e] \notin overload /\ Dst[e] \notin overload
    <3>1. PICK f \in Usable : f = Twin[e] /\ e \in DOMAIN Twin
      BY DEF Paired
    <3>2. Src[f] = Dst[e] /\ Dst[f] = Src[e] /\ i[f] = m[e] /\ f \in Edge
      BY <3>1, TwinEdges, UsableFacts
    <3>3. Cost(i, f) = m[e] /\ Cost(m, e) = m[e]
      BY <2>1, <2>4, <3>2, CostFacts
    <3>4. d[Src[e]] <= d[Dst[e]] + m[e]
      BY <1>3, <3>1, <3>2, <3>3 DEF IsPotential
    <3>5. QED
      BY <1>2, <1>3, <1>4, <2>1, <2>4, <3>3, <3>4
  <2>5. QED
    BY <2>2, <2>3, <2>4
<1>7. IsPotential(g, m)
  BY <1>5, <1>6 DEF IsPotential
<1>8. g[p] <= 0 /\ g[b] = d[p]
  BY <1>2, <1>3, <1>4
<1>9. g[b] <= Distances(m, p)[b]
  BY <1>7, <1>8, Greatest
<1>10. QED
  BY <1>1, <1>8, <1>9

-----------------------------------------------------------------------------
(* What is computed from the configuration stays while it does.            *)

Dist == [x \in Node |-> Distances(metric, x)]
Back == [x \in Node |-> Distances(InverseTopology(metric), x)]
Runs == [x \in Node |-> Run(metric, x)]

LEMMA UsableKept ==
  ASSUME UNCHANGED confVars
  PROVE  /\ Usable' = Usable
         /\ \A n : UpEdges(n)' = UpEdges(n)
BY DEF confVars, Usable, UpEdges

LEMMA DistancesKept ==
  ASSUME UNCHANGED confVars, NEW m, NEW s
  PROVE  Distances(m, s)' = Distances(m, s)
BY DEF confVars, Distances, Longer, Cost, Usable, UpEdges, Table

LEMMA ConfigKept ==
  ASSUME UNCHANGED confVars
  PROVE  /\ Dist' = Dist /\ Back' = Back /\ Runs' = Runs
BY DEF Dist, Back, Runs, Run, InverseTopology, confVars, Distances, Longer, Cost, Usable, UpEdges, Table

-----------------------------------------------------------------------------
(* Sums and runs.                                                          *)

\* A sum that wraps is only smaller: what is below it is below the exact sum.
LEMMA BelowPlus ==
  ASSUME NEW a \in Nat, NEW b \in Nat, NEW c \in Nat, c < Plus(a, b)
  PROVE  c < a + b
<1>1. Wrap \in Nat /\ Wrap > 0
  BY BackupConstants
<1>2. PICK x \in Nat : x = a + b
  OBVIOUS
<1>3. x % Wrap <= x /\ x % Wrap \in Nat
  BY <1>1
<1>4. QED
  BY <1>2, <1>3 DEF Plus

Hops == {Hop(e) : e \in Edge}
Result == [dist : [Node -> 0..Inf], hops : [Node -> SUBSET Hops]]

\* The next hops of a run are neighbours.
LEMMA RunFacts ==
  ASSUME NEW m \in [Edge -> Nat], NEW s \in Node
  PROVE  /\ Run(m, s) \in Result
         /\ Run(m, s).dist = Distances(m, s)
         /\ \A n \in Node : \A h \in Run(m, s).hops[n] :
              h.node \in Neighbours(s) /\ Distances(m, h.node)[n] < Inf
<1> DEFINE D == Distances(m, s)
           First == {e \in Usable : Src[e] = s}
           Rest == [e \in First |-> Distances(m, Dst[e])]
           To(n) == {f \in First : D[n] < Inf /\ m[f] + Rest[f][n] = D[n]}
<1>1. Run(m, s) = [dist |-> D, hops |-> [n \in Node |-> {Hop(e) : e \in To(n)}]]
  <2>1. Table(Rest) = Rest
    BY TableIs
  <2>2. QED
    BY <2>1 DEF Run
<1>2. D \in [Node -> 0..Inf]
  BY DistanceFacts
<1>3. \A e \in First : e \in Edge /\ Dst[e] \in Node /\ Dst[e] \in Neighbours(s)
  BY UsableFacts DEF Neighbours, UpEdges
<1>4. ASSUME NEW n \in Node, NEW e \in To(n)
      PROVE  Hop(e).node = Dst[e] /\ Distances(m, Dst[e])[n] < Inf
  <2>1. Rest[e][n] = Distances(m, Dst[e])[n]
    BY <1>4
  <2>2. Distances(m, Dst[e])[n] \in 0..Inf /\ m[e] \in Nat /\ D[n] \in 0..Inf /\ Inf \in Nat
    <3>1. e \in Edge /\ Dst[e] \in Node
      BY <1>3
    <3>2. Distances(m, Dst[e]) \in [Node -> 0..Inf]
      BY <3>1, DistanceFacts
    <3>3. QED
      BY <1>2, <3>1, <3>2, BackupConstants
  <2>3. D[n] < Inf /\ m[e] + Rest[e][n] = D[n]
    OBVIOUS
  <2>4. Distances(m, Dst[e])[n] < Inf
    <3> HIDE DEF D, Rest
    <3>1. QED
      BY <2>1, <2>2, <2>3
  <2>5. QED
    BY <2>4 DEF Hop
<1>5. \A n \in Node : \A e \in To(n) : e \in Edge
  BY <1>3
<1>6. \A n \in Node : {Hop(e) : e \in To(n)} \in SUBSET Hops
  BY <1>5 DEF Hops
<1>7. ASSUME NEW n \in Node, NEW h \in {Hop(e) : e \in To(n)}
      PROVE  h.node \in Neighbours(s) /\ Distances(m, h.node)[n] < Inf
  <2>1. PICK e \in To(n) : h = Hop(e)
    OBVIOUS
  <2>2. e \in First
    OBVIOUS
  <2>3. QED
    BY <1>3, <1>4, <2>1, <2>2
<1> HIDE DEF D, To
<1>8. Run(m, s).dist = D /\ \A n \in Node : Run(m, s).hops[n] = {Hop(e) : e \in To(n)}
  BY <1>1
<1>9. Run(m, s) \in Result
  BY <1>1, <1>2, <1>6 DEF Result
<1>10. QED
  BY <1>7, <1>8, <1>9 DEF D

LEMMA RefreshFacts ==
  ASSUME NEW m \in [Edge -> Nat], NEW res \in [Node -> Result], NEW S
  PROVE  /\ Refresh(res, S, m) \in [Node -> Result]
         /\ \A n \in Node : Refresh(res, S, m)[n] =
              IF n \in S /\ n \notin overload THEN Run(m, n) ELSE res[n]
<1>1. \A n \in Node : Run(m, n) \in Result
  BY RunFacts
<1>2. QED
  BY <1>1 DEF Refresh

LEMMA FlushFacts ==
  ASSUME NEW res, NEW s
  PROVE  /\ \A n \in Node : Flush(res, s)[n] = {} \/ Flush(res, s)[n] = backup[n]
         /\ \A n \in Node : res[s].dist[n] < Inf => Flush(res, s)[n] = {}
         /\ backup \in [Node -> SUBSET Backups] => Flush(res, s) \in [Node -> SUBSET Backups]
BY DEF Flush, Listed

-----------------------------------------------------------------------------
(* The extended P space.                                                   *)

\* b is a tunnel that the scan for the link e may record.
IsFound(b, e) ==
  /\ b \in Backups
  /\ \E p \in Node \ (overload \cup {root, Dst[e]}) : \E f \in Tunnels(e, p) :
       b = Rlfa(f, e, PKind(e, f, p), p)

LEMMA RlfaFacts ==
  ASSUME NEW f \in Edge, NEW e \in Edge, NEW kind \in {"link", "node"}, NEW p \in Node
  PROVE  /\ Rlfa(f, e, kind, p) \in Backups /\ IsTunnel(Rlfa(f, e, kind, p))
         /\ Rlfa(f, e, kind, p).node = NoNode /\ Rlfa(f, e, kind, p).oif = f
         /\ Rlfa(f, e, kind, p).link = e /\ Rlfa(f, e, kind, p).kind = kind
         /\ Rlfa(f, e, kind, p).proxy = Dst[f] /\ Rlfa(f, e, kind, p).rlfa = p
<1>1. Dst[f] \in Node /\ p # NoNode
  BY BackupConstants
<1>2. QED
  BY <1>1 DEF Rlfa, Backups, IsTunnel

LEMMA LfaFacts ==
  ASSUME NEW f \in Edge, NEW e \in Edge, NEW kind \in {"link", "node"}
  PROVE  /\ Lfa(f, e, kind) \in Backups /\ ~IsTunnel(Lfa(f, e, kind))
         /\ Lfa(f, e, kind).node = Dst[f] /\ Dst[f] # NoNode
         /\ Lfa(f, e, kind).oif = f /\ Lfa(f, e, kind).link = e
         /\ Lfa(f, e, kind).kind = kind
<1>1. Dst[f] \in Node /\ Dst[f] # NoNode
  BY BackupConstants
<1>2. QED
  BY <1>1 DEF Lfa, Backups, IsTunnel

LEMMA TunnelsFacts ==
  ASSUME NEW e, NEW p
  PROVE  /\ Tunnels(e, p) \in SUBSET Nat /\ Tunnels(e, p) \subseteq UpEdges(root)
         /\ UpEdges(root) \subseteq Edge
BY BackupConstants DEF Tunnels, UpEdges

Scanned(X, e) == [nbr : X, pq : SUBSET {b \in Backups : IsFound(b, e)}]

LEMMA SetNbr ==
  ASSUME NEW X, NEW Y, NEW acc \in [nbr : X, pq : Y], NEW v \in X
  PROVE  [acc EXCEPT !.nbr = v] \in [nbr : X, pq : Y]
OBVIOUS

LEMMA ScanPFacts ==
  ASSUME NEW e \in Edge, NEW p \in Node, NEW X,
         Node \cup {NoNode, Dst[MaxNat(UpEdges(root))]} \subseteq X,
         NEW acc \in Scanned(X, e)
  PROVE  ScanP(e, acc, p) \in Scanned(X, e)
<1> DEFINE F == MinNat(Tunnels(e, p))
           G == {b \in Backups : IsFound(b, e)}
<1>1. CASE p \in overload \cup {root, acc.nbr, Dst[e]}
  BY <1>1 DEF ScanP
<1>2. CASE p \notin overload \cup {root, acc.nbr, Dst[e]} /\ Tunnels(e, p) = {}
  <2>1. PICK v \in X : v = IF UpEdges(root) = {} THEN NoNode ELSE Dst[MaxNat(UpEdges(root))]
    OBVIOUS
  <2>2. ScanP(e, acc, p) = [acc EXCEPT !.nbr = v]
    BY <1>2, <2>1 DEF ScanP
  <2>3. QED
    BY <2>2, SetNbr DEF Scanned
<1>3. CASE p \notin overload \cup {root, acc.nbr, Dst[e]} /\ Tunnels(e, p) # {}
  <2>1. F \in Tunnels(e, p)
    BY <1>3, TunnelsFacts, MinNatFacts
  <2>2. F \in Edge
    BY <2>1, TunnelsFacts
  <2>3. PICK b : b = Rlfa(F, e, PKind(e, F, p), p)
    OBVIOUS
  <2>4. b \in Backups
    BY <2>2, <2>3, RlfaFacts DEF PKind
  <2>5. IsFound(b, e)
    BY <1>3, <2>1, <2>3, <2>4 DEF IsFound
  <2>6. ScanP(e, acc, p) = [nbr |-> Dst[F], pq |-> acc.pq \cup {b}]
    BY <1>3, <2>3 DEF ScanP
  <2>7. Dst[F] \in X
    BY <2>2, BackupConstants
  <2>8. acc.pq \in SUBSET G /\ b \in G
    BY <2>4, <2>5 DEF Scanned
  <2> HIDE DEF G, F
  <2>9. [nbr |-> Dst[F], pq |-> acc.pq \cup {b}] \in [nbr : X, pq : SUBSET G]
    BY <2>7, <2>8
  <2>10. QED
    BY <2>6, <2>9 DEF Scanned, G
<1>4. QED
  BY <1>1, <1>2, <1>3

\* The lists of the result are sequences of routers.
LEMMA ResultListFacts ==
  ASSUME NEW s \in ResultLists
  PROVE  Len(s) \in Nat /\ \A k \in 1..Len(s) : s[k] \in Node
<1>1. Listed(results, root) \in SUBSET Node
  BY DEF Listed
<1>2. IsFiniteSet(Listed(results, root))
  BY <1>1, BackupConstants, FS_Subset
<1>3. PICK L : L = Listed(results, root)
  OBVIOUS
<1>4. PICK N \in Nat : N = Cardinality(L)
  BY <1>2, <1>3, FS_CardinalityType
<1>5. s \in [1..N -> L]
  BY <1>3, <1>4 DEF ResultLists, SetToSeqs
<1>6. Len(s) = N
  BY <1>5
<1>7. QED
  BY <1>1, <1>3, <1>5, <1>6

\* Whatever the scan records may be recorded.
LEMMA ScanAllFacts ==
  ASSUME NEW e \in Edge, NEW s \in ResultLists
  PROVE  \A b \in ScanAll(e, s).pq : b \in Backups /\ IsFound(b, e)
<1> DEFINE X == Node \cup {NoNode, Dst[MaxNat(UpEdges(root))]}
           L == Len(s)
           A == Scanned(X, e)
           Step(t) == IF t[1] < L THEN <<t[1] + 1, ScanP(e, t[2], s[t[1] + 1])>> ELSE t
           step == [t \in (0..L) \X A |-> Step(t)]
           None == [nbr |-> NoNode, pq |-> {}]
           Scan(f) == [k \in 0..L |-> IF k = 0 THEN None ELSE ScanP(e, f[k - 1], s[k])]
           w == CHOOSE f : f = Scan(f)
<1>1. L \in Nat /\ \A k \in 1..L : s[k] \in Node
  BY ResultListFacts
<1>2. ScanAll(e, s) = w[L]
  BY DEF ScanAll
<1>3. None \in A
  BY DEF Scanned
<1>4. \A k \in 1..L : \A a \in A : ScanP(e, a, s[k]) \in A
  <2>1. ASSUME NEW k \in 1..L, NEW a \in A PROVE ScanP(e, a, s[k]) \in A
    <3>1. s[k] \in Node
      BY <1>1
    <3>2. Node \cup {NoNode, Dst[MaxNat(UpEdges(root))]} \subseteq X
      OBVIOUS
    <3> HIDE DEF X
    <3>3. QED
      BY <3>1, <3>2, ScanPFacts
  <2>2. QED
    BY <2>1
<1> HIDE DEF A, None, X, L
<1>5. \E f : f = Scan(f)
  <2>1. ASSUME NEW t \in (0..L) \X A PROVE Step(t) \in (0..L) \X A
    <3>1. t[1] \in 0..L /\ t[2] \in A
      OBVIOUS
    <3>2. CASE t[1] < L
      <4>1. t[1] + 1 \in 1..L /\ t[1] + 1 \in 0..L
        BY <1>1, <3>1, <3>2
      <4>2. ScanP(e, t[2], s[t[1] + 1]) \in A
        BY <1>4, <3>1, <4>1
      <4>3. QED
        BY <3>2, <4>1, <4>2
    <3>3. CASE ~(t[1] < L)
      BY <3>3
    <3>4. QED
      BY <3>2, <3>3
  <2>2. step \in [(0..L) \X A -> (0..L) \X A]
    BY <2>1
  <2>3. \A t \in (0..L) \X A : step[t] = Step(t)
    OBVIOUS
  <2>4. <<0, None>> \in (0..L) \X A
    BY <1>1, <1>3
  <2> HIDE DEF step
  <2>5. PICK f : Repeats(f, L, (0..L) \X A, <<0, None>>, step)
    BY <1>1, <2>2, <2>4, RepeatExists
  <2>6. /\ f[0] = <<0, None>>
        /\ \A k \in 0..L : f[k] \in (0..L) \X A
        /\ \A k \in 0..L : k # 0 => f[k] = Step(f[k - 1])
    <3>1. /\ f \in [0..L -> (0..L) \X A]
          /\ f = [k \in 0..L |-> IF k = 0 THEN <<0, None>> ELSE step[f[k - 1]]]
      BY <2>5 DEF Repeats
    <3>2. \A k \in 0..L : f[k] \in (0..L) \X A
      BY <3>1
    <3>3. ASSUME NEW k \in 0..L, k # 0 PROVE f[k] = Step(f[k - 1])
      <4>1. k - 1 \in 0..L
        BY <1>1, <3>3
      <4>2. f[k] = step[f[k - 1]]
        BY <3>1, <3>3
      <4>3. step[f[k - 1]] = Step(f[k - 1])
        <5> HIDE DEF Step
        <5>1. QED
          BY <2>3, <3>2, <4>1
      <4>4. QED
        BY <4>2, <4>3
    <3>4. f[0] = <<0, None>>
      BY <1>1, <3>1
    <3>5. QED
      BY <3>2, <3>3, <3>4
  <2> HIDE DEF Step
  <2> DEFINE T == {k \in 0..L : f[k][1] = k}
  <2>7. 0 \in T
    BY <1>1, <2>6
  <2>8. ASSUME NEW k \in 0..L, k < L, k \in T PROVE k + 1 \in T
    <3>1. k + 1 \in 0..L /\ k + 1 # 0 /\ (k + 1) - 1 = k
      BY <1>1, <2>8
    <3>2. f[k + 1] = Step(f[k]) /\ f[k][1] = k
      BY <2>6, <2>8, <3>1
    <3>3. f[k + 1] = <<k + 1, ScanP(e, f[k][2], s[k + 1])>>
      BY <2>8, <3>2 DEF Step
    <3>4. QED
      BY <3>1, <3>3
  <2> HIDE DEF T
  <2>9. \A k \in 0..L : k \in T
    BY <1>1, <2>7, <2>8, EachRound
  <2>10. PICK g : g = [k \in 0..L |-> f[k][2]]
    OBVIOUS
  <2>11. ASSUME NEW k \in 0..L, k # 0 PROVE g[k] = ScanP(e, g[k - 1], s[k])
    <3>1. k - 1 \in 0..L /\ k - 1 < L /\ (k - 1) + 1 = k
      BY <1>1, <2>11
    <3>2. f[k] = Step(f[k - 1]) /\ f[k - 1][1] = k - 1
      BY <2>6, <2>9, <2>11, <3>1 DEF T
    <3>3. f[k] = <<k, ScanP(e, f[k - 1][2], s[k])>>
      BY <3>1, <3>2 DEF Step
    <3>4. QED
      BY <2>10, <3>1, <3>3
  <2>12. g[0] = None
    BY <1>1, <2>6, <2>10
  <2>13. g = Scan(g)
    BY <2>10, <2>11, <2>12
  <2>14. QED
    BY <2>13
<1>6. w = Scan(w)
  BY <1>5
<1> HIDE DEF w
<1> DEFINE T == {k \in 0..L : w[k] \in A}
<1>7. 0 \in T
  BY <1>1, <1>3, <1>6
<1>8. ASSUME NEW k \in 0..L, k < L, k \in T PROVE k + 1 \in T
  <2>1. k + 1 \in 0..L /\ k + 1 \in 1..L /\ k + 1 # 0 /\ (k + 1) - 1 = k
    BY <1>1, <1>8
  <2>2. w[k + 1] = ScanP(e, w[k], s[k + 1])
    BY <1>6, <2>1
  <2>3. QED
    BY <1>4, <1>8, <2>1, <2>2
<1> HIDE DEF T
<1>9. L \in T
  <2>1. \A k \in 0..L : k \in T
    BY <1>1, <1>7, <1>8, EachRound
  <2>2. QED
    BY <1>1, <2>1
<1>10. w[L] \in A
  BY <1>9 DEF T
<1>11. QED
  BY <1>2, <1>10 DEF A, Scanned

-----------------------------------------------------------------------------
(* Types.                                                                  *)

ConfOK ==
  /\ metric \in [Edge -> Nat] /\ status \in [Edge -> BOOLEAN]
  /\ overload \subseteq Node
  /\ protect \in [Edge -> SUBSET Flags] /\ options \in [Node -> SUBSET Options]

BackupOK ==
  /\ backup \in [Node -> SUBSET Backups]
  /\ \A n \in Node : \A b \in backup[n] : (b.node = NoNode) = IsTunnel(b)

RunOK ==
  /\ pc \in {"idle", "runs", "weed", "slot", "pspace", "filter", "built"}
  /\ root \in Node /\ partial \in BOOLEAN /\ ran \subseteq Node
  /\ results \in [Node -> Result]
  /\ noNeed \subseteq Node
  /\ slots \subseteq {e \in Edge : root \in {Src[e], Dst[e]}}
  /\ pq \subseteq Backups /\ \A b \in pq : IsTunnel(b)
  /\ cmds \in 0..MaxCmds

Types == ConfOK /\ RunOK /\ BackupOK

LEMMA TypesOK ==
  ASSUME Types
  PROVE  TypeOK
BY DEF Types, ConfOK, RunOK, BackupOK, TypeOK, Result, Hops

LEMMA TypesInit ==
  ASSUME Init
  PROVE  Types
<1>1. PICK c \in Networks : /\ metric = c.metric /\ status = c.status
                            /\ overload = c.overload /\ protect = c.protect
                            /\ options = c.options /\ cmds = c.cmds
  BY DEF Init
<1>2. ConfOK /\ cmds \in 0..MaxCmds
  BY <1>1, InitialNetworks DEF ConfOK
<1>3. results \in [Node -> Result]
  <2>1. NoRecords \in Result
    BY BackupConstants DEF NoRecords, Result
  <2>2. QED
    BY <2>1 DEF Init
<1>4. RunOK
  BY <1>2, <1>3, BackupConstants DEF Init, RunOK
<1>5. BackupOK
  BY DEF Init, BackupOK
<1>6. QED
  BY <1>2, <1>4, <1>5 DEF Types

\* The slot the loop is at is an edge of the root.
LEMMA SlotFacts ==
  ASSUME Types, NEW e, AtSlot(e)
  PROVE  e \in slots /\ e \in Edge /\ root \in {Src[e], Dst[e]} /\ Dst[e] \in Node
<1>1. slots \in SUBSET Nat /\ slots # {}
  BY BackupConstants DEF Types, RunOK, AtSlot
<1>2. e \in slots
  BY <1>1, MinNatFacts DEF AtSlot
<1>3. QED
  BY <1>2, BackupConstants DEF Types, RunOK

Configured ==
  \/ \E e \in ConfEdges : \/ SetStatus(e)
                          \/ \E x \in LinkMetrics : SetMetric(e, x)
                          \/ \E flag \in Flags : Enable(e, flag) \/ Disable(e, flag)
  \/ \E n \in {Src[e] : e \in ConfEdges} : SetOverload(n) \/ SetOptions(n)

LEMMA ConfiguredTypes ==
  ASSUME Types, Configured
  PROVE  Types' /\ pc = "idle" /\ pc' = "idle"
<1>1. ConfEdges \subseteq Edge /\ LinkMetrics \subseteq Nat /\ Src \in [Edge -> Node]
  BY BackupConstants
<1>2. ConfOK
  BY DEF Types
<1>3. /\ Configure
      /\ ConfOK'
  <2>1. ASSUME NEW e \in ConfEdges, SetStatus(e) PROVE Configure /\ ConfOK'
    BY <1>1, <1>2, <2>1 DEF SetStatus, ConfOK
  <2>2. ASSUME NEW e \in ConfEdges, NEW x \in LinkMetrics, SetMetric(e, x)
        PROVE  Configure /\ ConfOK'
    BY <1>1, <1>2, <2>2 DEF SetMetric, ConfOK
  <2>3. ASSUME NEW e \in ConfEdges, NEW flag \in Flags, Enable(e, flag)
        PROVE  Configure /\ ConfOK'
    <3>1. e \in Edge /\ protect[e] \in SUBSET Flags
      BY <1>1, <1>2 DEF ConfOK
    <3>2. PICK x \in SUBSET Flags :
            x = protect[e] \cup {flag} \cup (IF flag = "node" THEN {"link"} ELSE {})
      BY <3>1 DEF Flags
    <3>3. protect' = [protect EXCEPT ![e] = x]
      BY <2>3, <3>2 DEF Enable
    <3>4. QED
      BY <1>2, <2>3, <3>3 DEF Enable, ConfOK
  <2>4. ASSUME NEW e \in ConfEdges, NEW flag \in Flags, Disable(e, flag)
        PROVE  Configure /\ ConfOK'
    <3>1. e \in Edge /\ protect[e] \ {flag} \in SUBSET Flags
      BY <1>1, <1>2 DEF ConfOK
    <3>2. QED
      BY <1>2, <2>4, <3>1 DEF Disable, ConfOK
  <2>5. ASSUME NEW n \in {Src[e] : e \in ConfEdges}, SetOverload(n)
        PROVE  Configure /\ ConfOK'
    BY <1>1, <1>2, <2>5 DEF SetOverload, ConfOK
  <2>6. ASSUME NEW n \in {Src[e] : e \in ConfEdges}, SetOptions(n)
        PROVE  Configure /\ ConfOK'
    <3>1. n \in Node /\ options[n] \in SUBSET Options
      BY <1>1, <1>2 DEF ConfOK
    <3>2. \E x \in SUBSET Options : options' = [options EXCEPT ![n] = x]
      BY <2>6, <3>1 DEF SetOptions, Options
    <3>3. QED
      BY <1>2, <2>6, <3>2 DEF SetOptions, ConfOK
  <2>7. QED
    BY <2>1, <2>2, <2>3, <2>4, <2>5, <2>6 DEF Configured
<1>4. pc = "idle" /\ pc' = "idle" /\ cmds' \in 0..MaxCmds
  BY <1>3, BackupConstants DEF Configure, Command, Types, RunOK
<1>5. RunOK' /\ BackupOK'
  BY <1>3, <1>4 DEF Configure, Types, RunOK, BackupOK
<1>6. QED
  BY <1>3, <1>4, <1>5 DEF Types

LEMMA FlushTypes ==
  ASSUME Types, NEW res, NEW s, backup' = Flush(res, s)
  PROVE  BackupOK'
BY FlushFacts DEF Types, BackupOK, IsTunnel

LEMMA FullRunTypes ==
  ASSUME Types, NEW r \in Node, FullRun(r)
  PROVE  Types'
<1>1. ConfOK' /\ cmds' \in 0..MaxCmds
  BY BackupConstants DEF Types, ConfOK, RunOK, FullRun, Command, confVars
<1>2. results' \in [Node -> Result]
  BY RefreshFacts DEF Types, ConfOK, RunOK, FullRun
<1>3. RunOK'
  BY <1>1, <1>2 DEF Types, RunOK, FullRun
<1>4. BackupOK'
  BY FlushTypes DEF FullRun
<1>5. QED
  BY <1>1, <1>3, <1>4 DEF Types

LEMMA PartialRunTypes ==
  ASSUME Types, NEW r \in Node, PartialRun(r)
  PROVE  Types'
BY BackupConstants DEF Types, ConfOK, RunOK, BackupOK, PartialRun, Command, confVars

LEMMA BackupRunsTypes ==
  ASSUME Types, BackupRuns
  PROVE  Types'
<1>1. results' \in [Node -> Result]
  BY RefreshFacts DEF Types, ConfOK, RunOK, BackupRuns
<1>2. BackupOK'
  BY FlushTypes DEF BackupRuns
<1>3. QED
  BY <1>1, <1>2 DEF Types, ConfOK, RunOK, BackupRuns, confVars

LEMMA WeedTypes ==
  ASSUME Types, Weed
  PROVE  Types'
<1>1. noNeed' \subseteq Node
  BY DEF Weed, Listed
<1>2. QED
  BY <1>1 DEF Types, ConfOK, RunOK, BackupOK, Weed, confVars

LEMMA SkipSlotTypes ==
  ASSUME Types, NEW e, SkipSlot(e)
  PROVE  Types'
BY DEF Types, ConfOK, RunOK, BackupOK, SkipSlot, confVars

LEMMA ComputeLfaTypes ==
  ASSUME Types, NEW e, ComputeLfa(e)
  PROVE  Types'
<1>1. e \in Edge
  BY SlotFacts DEF ComputeLfa
<1>2. PICK junk \in BOOLEAN :
        backup' = [n \in Node |-> backup[n] \cup
          IF n \in Listed(results, root) \ {root} /\ Impacted(results, noNeed, e, n)
          THEN {Lfa(f, e, LfaKind(e, f, n, junk)) : f \in Alternates(e, n, junk)}
          ELSE {}]
  BY DEF ComputeLfa
<1>3. ASSUME NEW n \in Node, NEW f \in Alternates(e, n, junk)
      PROVE  /\ Lfa(f, e, LfaKind(e, f, n, junk)) \in Backups
             /\ ~IsTunnel(Lfa(f, e, LfaKind(e, f, n, junk)))
             /\ Lfa(f, e, LfaKind(e, f, n, junk)).node # NoNode
  <2>1. f \in Edge
    BY DEF Alternates, UpEdges
  <2>2. LfaKind(e, f, n, junk) \in {"link", "node"}
    BY DEF LfaKind
  <2>3. QED
    BY <1>1, <2>1, <2>2, LfaFacts
<1>4. ASSUME NEW n \in Node, NEW b \in backup'[n]
      PROVE  b \in Backups /\ (b.node = NoNode) = IsTunnel(b)
  <2>1. \/ b \in backup[n]
        \/ \E f \in Alternates(e, n, junk) : b = Lfa(f, e, LfaKind(e, f, n, junk))
    BY <1>2
  <2>2. CASE b \in backup[n]
    BY <2>2 DEF Types, BackupOK
  <2>3. CASE \E f \in Alternates(e, n, junk) : b = Lfa(f, e, LfaKind(e, f, n, junk))
    BY <1>3, <2>3 DEF IsTunnel
  <2>4. QED
    BY <2>1, <2>2, <2>3
<1>5. BackupOK'
  <2>1. backup' \in [Node -> SUBSET Backups]
    BY <1>2, <1>4
  <2>2. QED
    BY <1>4, <2>1 DEF BackupOK, IsTunnel
<1>6. RunOK' /\ ConfOK'
  BY DEF ComputeLfa, Types, RunOK, ConfOK, confVars
<1>7. QED
  BY <1>5, <1>6 DEF Types

LEMMA ExtendedPSpaceTypes ==
  ASSUME Types, NEW e, ExtendedPSpace(e)
  PROVE  Types' /\ \A b \in pq' : IsFound(b, e)
<1>1. e \in Edge
  BY SlotFacts DEF ExtendedPSpace
<1>2. PICK s \in ResultLists : pq' = ScanAll(e, s).pq
  BY DEF ExtendedPSpace
<1>3. \A b \in pq' : b \in Backups /\ IsFound(b, e)
  BY <1>1, <1>2, ScanAllFacts
<1>4. ASSUME NEW b \in pq' PROVE IsTunnel(b)
  <2>1. PICK p \in Node : \E f \in Tunnels(e, p) : b = Rlfa(f, e, PKind(e, f, p), p)
    BY <1>3 DEF IsFound
  <2>2. PICK f \in Tunnels(e, p) : b = Rlfa(f, e, PKind(e, f, p), p)
    BY <2>1
  <2>3. f \in Edge /\ PKind(e, f, p) \in {"link", "node"}
    BY TunnelsFacts DEF PKind
  <2>4. QED
    BY <1>1, <2>2, <2>3, RlfaFacts
<1>5. RunOK'
  BY <1>3, <1>4 DEF Types, RunOK, ExtendedPSpace, IsTunnel
<1>6. QED
  BY <1>3, <1>5 DEF Types, ConfOK, BackupOK, ExtendedPSpace, confVars

\* The runs of SelectPqNodes.
InverseRuns(e) == Refresh(results, {root, Dst[e]}, InverseTopology(metric))
Selected(e) == {b \in pq : Eligible(InverseRuns(e), e, b.rlfa)}
After(e) == Refresh(InverseRuns(e), {b.rlfa : b \in Selected(e)}, metric)

LEMMA SelectFacts ==
  ASSUME Types, NEW e, SelectPqNodes(e)
  PROVE  /\ results' = After(e)
         /\ noNeed' = IF root \in overload THEN noNeed ELSE {}
         /\ backup' = [n \in Node |-> backup[n] \cup
              IF n \in Listed(After(e), root) /\ Impacted(After(e), noNeed', e, n)
              THEN {Served(After(e), e, b, n) :
                      b \in {c \in Selected(e) : Serves(After(e), e, c, n)}}
              ELSE {}]
         /\ InverseRuns(e) \in [Node -> Result] /\ After(e) \in [Node -> Result]
         /\ \A n \in Node : \A b \in backup'[n] :
              \/ b \in backup[n]
              \/ \E c \in Selected(e) : Serves(After(e), e, c, n) /\ b = Served(After(e), e, c, n)
<1>1. /\ results' = After(e)
      /\ noNeed' = IF root \in overload THEN noNeed ELSE {}
      /\ backup' = [n \in Node |-> backup[n] \cup
           IF n \in Listed(After(e), root) /\ Impacted(After(e), noNeed', e, n)
           THEN {Served(After(e), e, b, n) :
                   b \in {c \in Selected(e) : Serves(After(e), e, c, n)}}
           ELSE {}]
  BY DEF SelectPqNodes, After, Selected, InverseRuns
<1>2. InverseRuns(e) \in [Node -> Result]
  <2>1. metric \in [Edge -> Nat] /\ results \in [Node -> Result]
    BY DEF Types, ConfOK, RunOK
  <2>2. InverseTopology(metric) \in [Edge -> Nat]
    BY <2>1, InverseFacts
  <2>3. QED
    BY <2>1, <2>2, RefreshFacts DEF InverseRuns
<1>3. After(e) \in [Node -> Result]
  BY <1>2, RefreshFacts DEF After, Types, ConfOK
<1>4. ASSUME NEW n \in Node, NEW b \in backup'[n]
      PROVE  \/ b \in backup[n]
             \/ \E c \in Selected(e) : Serves(After(e), e, c, n) /\ b = Served(After(e), e, c, n)
  BY <1>1
<1>5. QED
  BY <1>1, <1>2, <1>3, <1>4

LEMMA SelectPqNodesTypes ==
  ASSUME Types, NEW e, SelectPqNodes(e)
  PROVE  Types'
<1>1. e \in Edge
  BY SlotFacts DEF SelectPqNodes
<1>2. \A c \in Selected(e) : c \in Backups /\ IsTunnel(c)
  BY DEF Selected, Types, RunOK
<1>3. ASSUME NEW n \in Node, NEW c \in Selected(e)
      PROVE  /\ Served(After(e), e, c, n) \in Backups /\ IsTunnel(Served(After(e), e, c, n))
             /\ Served(After(e), e, c, n).node = NoNode
  <2>1. c.oif \in Edge /\ c.rlfa \in Node
    BY <1>2 DEF Backups, IsTunnel
  <2>2. QED
    BY <1>1, <2>1, RlfaFacts DEF Served
<1>4. ASSUME NEW n \in Node, NEW b \in backup'[n]
      PROVE  b \in Backups /\ (b.node = NoNode) = IsTunnel(b)
  <2>1. CASE b \in backup[n]
    BY <2>1 DEF Types, BackupOK
  <2>2. CASE \E c \in Selected(e) : b = Served(After(e), e, c, n)
    BY <1>3, <2>2
  <2>3. QED
    BY <2>1, <2>2, SelectFacts
<1>5. BackupOK'
  <2>1. backup' \in [Node -> SUBSET Backups]
    BY <1>4, SelectFacts
  <2>2. QED
    BY <1>4, <2>1 DEF BackupOK, IsTunnel
<1>6. noNeed' \subseteq Node /\ results' \in [Node -> Result]
  BY SelectFacts DEF Types, RunOK
<1>7. RunOK' /\ ConfOK'
  BY <1>6 DEF SelectPqNodes, Types, RunOK, ConfOK, confVars
<1>8. QED
  BY <1>5, <1>7 DEF Types

LEMMA TypesStep ==
  ASSUME Types, [Next]_vars
  PROVE  Types'
<1>1. CASE Configured
  BY <1>1, ConfiguredTypes
<1>2. CASE \E n \in Node : FullRun(n) \/ PartialRun(n)
  BY <1>2, FullRunTypes, PartialRunTypes
<1>3. CASE BackupRuns
  BY <1>3, BackupRunsTypes
<1>4. CASE Weed
  BY <1>4, WeedTypes
<1>5. CASE SlotsEnd
  BY <1>5 DEF SlotsEnd, Types, ConfOK, RunOK, BackupOK, confVars
<1>6. CASE Built
  <2>1. BackupOK'
    <3>1. CASE backup' = Flush(results, root)
      BY <3>1, FlushTypes
    <3>2. CASE UNCHANGED backup
      BY <3>2 DEF Types, BackupOK
    <3>3. QED
      BY <1>6, <3>1, <3>2 DEF Built
  <2>2. pq' = {} \/ pq' = pq
    BY <1>6 DEF Built
  <2>3. QED
    BY <1>6, <2>1, <2>2 DEF Built, Types, ConfOK, RunOK, confVars
<1>7. CASE \E e \in slots : SkipSlot(e) \/ ComputeLfa(e) \/ ExtendedPSpace(e) \/ SelectPqNodes(e)
  BY <1>7, SkipSlotTypes, ComputeLfaTypes, ExtendedPSpaceTypes, SelectPqNodesTypes
<1>8. CASE UNCHANGED vars
  BY <1>8 DEF vars, confVars, Types, ConfOK, RunOK, BackupOK
<1>9. QED
  BY <1>1, <1>2, <1>3, <1>4, <1>5, <1>6, <1>7, <1>8 DEF Next, Operator, Configured

\* Every variable keeps its type on every network; a recorded backup is an
\* alternate with its neighbour or a tunnel without one.
THEOREM BackupTypes == Spec => []TypeOK
<1>1. Init => Types
  BY TypesInit
<1>2. Types /\ [Next]_vars => Types'
  BY TypesStep
<1>3. Types => TypeOK
  BY TypesOK
<1>4. QED
  BY <1>1, <1>2, <1>3, PTL DEF Spec

-----------------------------------------------------------------------------
(* What the backups of a full run promise, said of the distances of the    *)
(* network as it is instead of the result lists they were compared in.     *)

Calm == "remote" \in options[root] => Symmetric
Running == pc # "idle" /\ ~partial
FarEnd(b) == Dst[b.link]

NodeProtects(n, b, h) ==
  h.node \notin overload => Dist[b.node][n] < Plus(Dist[b.node][h.node], Dist[h.node][n])

GoodAlternate(n, b) ==
  /\ b.node \in Node \ overload
  /\ Dist[b.node][n] < Plus(Dist[b.node][root], Dist[root][n])
  /\ b.kind = "node" /\ "node" \in protect[b.link] =>
       \A h \in Runs[root].hops[n] : NodeProtects(n, b, h)

\* The first half of a tunnel, as the extended P space holds it.
GoodStart(b) ==
  /\ "remote" \in options[root] /\ b.oif # b.link
  /\ b.rlfa \in Node \ overload /\ b.proxy \in Node \ overload
  /\ Calm => /\ Dist[b.proxy][b.rlfa] < Plus(Dist[b.proxy][root], Dist[root][b.rlfa])
             /\ b.kind = "node" /\ FarEnd(b) \notin overload =>
                  Dist[b.proxy][b.rlfa] <
                    Plus(Dist[b.proxy][FarEnd(b)], Dist[FarEnd(b)][b.rlfa])

InQSpace(b) ==
  FarEnd(b) \notin overload =>
    Back[FarEnd(b)][b.rlfa] < Plus(Back[root][b.rlfa], Back[FarEnd(b)][root])

GoodEnd(n, b) ==
  Calm => /\ b.kind = "node" /\ FarEnd(b) \notin overload =>
               Dist[b.rlfa][n] < Plus(Dist[FarEnd(b)][b.rlfa], Dist[FarEnd(b)][n])
          /\ b.kind = "link" => Dist[b.rlfa][n] < Plus(Dist[root][b.rlfa], metric[b.link])

OfRoot(b) == Src[b.oif] = root /\ root \in {Src[b.link], Dst[b.link]}

\* A backup of the destination n.
Good(n, b) ==
  /\ OfRoot(b)
  /\ Calm /\ Cardinality(Runs[root].hops[n]) > 1 => b.kind = "node"
  /\ Calm /\ ~IsTunnel(b) => GoodAlternate(n, b)
  /\ IsTunnel(b) => GoodStart(b) /\ InQSpace(b) /\ GoodEnd(n, b)

\* Next hop h of n avoids the next hop g.
Avoids(n, h, g) ==
  g.node \notin overload /\ h.node \notin overload =>
    Dist[h.node][n] < Plus(Dist[h.node][g.node], Dist[g.node][n])

Survives(n) ==
  \E g, h \in Runs[root].hops[n] : g # h /\ Avoids(n, g, h) /\ Avoids(n, h, g)

\* The lists that the comparisons of the run read are those of the network.
ResultsInv ==
  Running =>
    /\ root \notin overload
    /\ Calm \/ pc = "runs" => results[root] = Runs[root]
    /\ Calm /\ pc \in {"weed", "slot", "pspace", "filter"} =>
         \A x \in Neighbours(root) \ overload : results[x] = Runs[x]

PlaceInv ==
  pc \in {"pspace", "filter"} =>
    slots # {} /\ status[MinNat(slots)] /\ "remote" \in options[root]

FlushedInv ==
  Running /\ pc \in {"runs", "weed"} =>
    \A n \in Node : Dist[root][n] < Inf => backup[n] = {}

PqInv ==
  Running /\ pc = "filter" =>
    \A b \in pq : OfRoot(b) /\ GoodStart(b) /\ b.link = MinNat(slots) /\ b.proxy = Dst[b.oif]

GoodInv ==
  Running => \A n \in Node \ {root} : Dist[root][n] < Inf => \A b \in backup[n] : Good(n, b)

NoNeedInv ==
  Running /\ "remote" \notin options[root] =>
    \A n \in noNeed : /\ n \in Node /\ backup[n] = {} /\ pc # "runs"
                      /\ Lsp = {} => Survives(n)

BackupInv ==
  Types /\ ResultsInv /\ PlaceInv /\ FlushedInv /\ PqInv /\ GoodInv /\ NoNeedInv

\* These stay while the configuration and the root do.
LEMMA GoodKept ==
  ASSUME UNCHANGED <<confVars, root>>
  PROVE  /\ Calm' = Calm
         /\ \A n, b : Good(n, b)' = Good(n, b)
         /\ \A b : OfRoot(b)' = OfRoot(b) /\ GoodStart(b)' = GoodStart(b)
         /\ \A n : Survives(n)' = Survives(n)
         /\ Neighbours(root)' = Neighbours(root)
<1>1. /\ Dist' = Dist /\ Back' = Back /\ Runs' = Runs
      /\ \A n : UpEdges(n)' = UpEdges(n)
  BY ConfigKept, UsableKept
<1>2. /\ metric' = metric /\ overload' = overload /\ protect' = protect
      /\ options' = options /\ status' = status /\ root' = root
  BY DEF confVars
<1>3. Calm' = Calm
  BY <1>2 DEF Calm, Symmetric
<1>4. \A b : OfRoot(b)' = OfRoot(b)
  BY <1>2 DEF OfRoot
<1>5. \A b : GoodStart(b)' = GoodStart(b)
  BY <1>1, <1>2, <1>3 DEF GoodStart, FarEnd
<1>6. \A n : Survives(n)' = Survives(n)
  BY <1>1, <1>2 DEF Survives, Avoids
<1>7. Neighbours(root)' = Neighbours(root)
  BY <1>2 DEF Neighbours, UpEdges
<1>8. \A n, b : GoodAlternate(n, b)' = GoodAlternate(n, b)
  BY <1>1, <1>2 DEF GoodAlternate, NodeProtects
<1>9. \A n, b : GoodEnd(n, b)' = GoodEnd(n, b)
  BY <1>1, <1>2, <1>3 DEF GoodEnd, FarEnd
<1>10. \A b : InQSpace(b)' = InQSpace(b)
  BY <1>1, <1>2 DEF InQSpace, FarEnd
<1>11. \A n, b : Good(n, b)' = Good(n, b)
  BY <1>1, <1>2, <1>3, <1>4, <1>5, <1>8, <1>9, <1>10 DEF Good, IsTunnel
<1>12. QED
  BY <1>3, <1>4, <1>5, <1>6, <1>7, <1>11

LEMMA DistIs ==
  ASSUME Types, NEW x \in Node
  PROVE  /\ Runs[x] = Run(metric, x) /\ Runs[x].dist = Dist[x]
         /\ Dist[x] = Distances(metric, x) /\ Dist[x] \in [Node -> 0..Inf]
         /\ Back[x] = Distances(InverseTopology(metric), x)
         /\ Back[x] \in [Node -> 0..Inf]
         /\ \A n \in Node : Dist[x][n] \in Nat /\ Back[x][n] \in Nat
         /\ \A n \in Node : \A h \in Runs[x].hops[n] : h.node \in Neighbours(x) /\ h \in Hops
<1>1. metric \in [Edge -> Nat] /\ InverseTopology(metric) \in [Edge -> Nat]
  BY InverseFacts DEF Types, ConfOK
<1>2. /\ Runs[x] = Run(metric, x) /\ Dist[x] = Distances(metric, x)
      /\ Back[x] = Distances(InverseTopology(metric), x)
  BY DEF Runs, Dist, Back
<1>3. Dist[x] \in [Node -> 0..Inf] /\ Back[x] \in [Node -> 0..Inf]
  BY <1>1, <1>2, DistanceFacts
<1>4. \A n \in Node : Dist[x][n] \in Nat /\ Back[x][n] \in Nat
  BY <1>3, BackupConstants
<1>5. /\ Runs[x].dist = Dist[x]
      /\ \A n \in Node : \A h \in Runs[x].hops[n] : h.node \in Neighbours(x)
  BY <1>1, <1>2, RunFacts
<1>6. \A n \in Node : \A h \in Runs[x].hops[n] : h \in Hops
  <2>1. Runs[x] \in Result
    BY <1>1, <1>2, RunFacts
  <2>2. QED
    BY <2>1 DEF Result
<1>7. QED
  BY <1>2, <1>3, <1>4, <1>5, <1>6

LEMMA NeighbourFacts ==
  /\ \A f \in UpEdges(root) : f \in Edge /\ Src[f] = root /\ Dst[f] \in Neighbours(root)
                              /\ Dst[f] \in Node
  /\ Neighbours(root) \subseteq Node
BY BackupConstants DEF UpEdges, Neighbours

-----------------------------------------------------------------------------
(* The invariant of a full run, action by action.                          *)

LEMMA BackupInvInit ==
  ASSUME Init
  PROVE  BackupInv
<1>1. pc = "idle"
  BY DEF Init
<1>2. QED
  BY <1>1, TypesInit
     DEF BackupInv, ResultsInv, PlaceInv, FlushedInv, PqInv, GoodInv, NoNeedInv, Running

\* A router that is idle, or runs partially, has nothing to keep.
LEMMA NotRunning ==
  ASSUME Types', ~Running', pc' \notin {"pspace", "filter"}
  PROVE  BackupInv'
BY DEF BackupInv, ResultsInv, PlaceInv, FlushedInv, PqInv, GoodInv, NoNeedInv

LEMMA FullRunInv ==
  ASSUME Types, NEW r \in Node, FullRun(r)
  PROVE  BackupInv'
<1>1. UNCHANGED confVars /\ root' = r /\ r \notin overload
  BY DEF FullRun
<1>2. Dist' = Dist /\ Runs' = Runs
  BY <1>1, ConfigKept
<1>3. overload' = overload
  BY <1>1 DEF confVars
<1>4. results' = Refresh(results, {r}, metric) /\ backup' = Flush(results', r)
  BY DEF FullRun
<1>5. results'[r] = Runs[r] /\ Runs[r].dist = Dist[r]
  <2>1. results'[r] = Run(metric, r)
    BY <1>1, <1>4, RefreshFacts DEF Types, ConfOK, RunOK
  <2>2. QED
    BY <2>1, DistIs
<1>6. pc' \in {"runs", "built"} /\ noNeed' = {}
  BY DEF FullRun
<1>7. \A n \in Node : Dist[r][n] < Inf => backup'[n] = {}
  BY <1>4, <1>5, FlushFacts
<1>8. ResultsInv'
  BY <1>1, <1>2, <1>3, <1>5, <1>6 DEF ResultsInv
<1>9. PlaceInv' /\ PqInv' /\ NoNeedInv'
  BY <1>6 DEF PlaceInv, PqInv, NoNeedInv
<1>10. FlushedInv'
  BY <1>1, <1>2, <1>7 DEF FlushedInv
<1>11. GoodInv'
  BY <1>1, <1>2, <1>7 DEF GoodInv
<1>12. QED
  BY <1>8, <1>9, <1>10, <1>11, FullRunTypes DEF BackupInv

LEMMA PartialRunInv ==
  ASSUME Types, NEW r \in Node, PartialRun(r)
  PROVE  BackupInv'
<1>1. partial' = TRUE /\ pc' \notin {"pspace", "filter"}
  BY DEF PartialRun
<1>2. QED
  BY <1>1, PartialRunTypes, NotRunning DEF Running

LEMMA BackupRunsInv ==
  ASSUME BackupInv, BackupRuns
  PROVE  BackupInv'
<1>0. Types /\ root \in Node
  BY DEF BackupInv, Types, RunOK
<1>1. UNCHANGED <<confVars, root, partial, noNeed>> /\ pc = "runs" /\ pc' = "weed"
  BY DEF BackupRuns
<1>2. Dist' = Dist /\ Runs' = Runs /\ Neighbours(root)' = Neighbours(root)
  BY <1>1, ConfigKept, GoodKept
<1>3. overload' = overload /\ options' = options
  BY <1>1 DEF confVars
<1>4. CASE ~partial
  <2>0. Running
    BY <1>1, <1>4 DEF Running
  <2>1. root \notin overload /\ results[root] = Runs[root]
    BY <1>1, <2>0 DEF BackupInv, ResultsInv
  <2>2. \A x \in Node : x \in {root} \cup Neighbours(root) /\ x \notin overload =>
          results'[x] = Runs[x]
    <3>1. ASSUME NEW x \in Node, x \in {root} \cup Neighbours(root), x \notin overload
          PROVE  results'[x] = Runs[x]
      <4>1. results' = Refresh(results, {root} \cup Neighbours(root), metric)
        BY DEF BackupRuns
      <4>2. results'[x] = Run(metric, x)
        BY <1>0, <3>1, <4>1, RefreshFacts DEF Types, ConfOK, RunOK
      <4>3. QED
        BY <1>0, <4>2, DistIs
    <3>2. QED
      BY <3>1
  <2>3. \A n \in Node : Dist[root][n] < Inf => backup'[n] = {}
    <3>1. results[root].dist = Dist[root]
      BY <1>0, <2>1, DistIs
    <3>2. QED
      BY <3>1, FlushFacts DEF BackupRuns
  <2>4. ResultsInv'
    BY <1>0, <1>1, <1>2, <1>3, <2>1, <2>2, NeighbourFacts DEF ResultsInv
  <2>5. PlaceInv' /\ PqInv'
    BY <1>1 DEF PlaceInv, PqInv
  <2>6. FlushedInv' /\ GoodInv'
    BY <1>1, <1>2, <2>3 DEF FlushedInv, GoodInv
  <2>7. NoNeedInv'
    BY <1>1, <1>3, <2>0 DEF BackupInv, NoNeedInv
  <2>8. QED
    BY <1>0, <2>4, <2>5, <2>6, <2>7, BackupRunsTypes DEF BackupInv
<1>5. CASE partial
  BY <1>0, <1>1, <1>5, BackupRunsTypes, NotRunning DEF Running
<1>6. QED
  BY <1>4, <1>5

\* Two distinct elements.
LEMMA TwoOf ==
  ASSUME NEW S, IsFiniteSet(S), Cardinality(S) >= 2
  PROVE  \E g, h \in S : g # h
<1>1. Cardinality(S) \in Nat
  BY FS_CardinalityType
<1>2. S # {}
  BY <1>1, FS_EmptySet
<1>3. PICK g \in S : TRUE
  BY <1>2
<1>4. IsFiniteSet(S \ {g}) /\ Cardinality(S \ {g}) = Cardinality(S) - 1
  BY <1>3, FS_RemoveElement
<1>5. S \ {g} # {}
  <2>1. Cardinality(S \ {g}) # 0
    BY <1>1, <1>4
  <2>2. QED
    BY <2>1, FS_EmptySet
<1>6. QED
  BY <1>3, <1>5

LEMMA HopsFinite == IsFiniteSet(Hops)
<1>1. PICK f : f = [e \in Edge |-> Hop(e)]
  OBVIOUS
<1>2. f \in [Edge -> Hops] /\ \A h \in Hops : \E e \in Edge : f[e] = h
  BY <1>1 DEF Hops
<1>3. f \in Surjection(Edge, Hops)
  BY <1>2 DEF Surjection
<1>4. QED
  BY <1>3, BackupConstants, FS_Surjection

\* A destination that is weeded out has two next hops that avoid each other.
LEMMA WeededSurvives ==
  ASSUME BackupInv, Running, Calm, pc = "weed", NEW n \in Node, HasIndependentHops(n), Lsp = {}
  PROVE  Survives(n)
<1>0. Types /\ root \in Node
  BY DEF BackupInv, Types, RunOK
<1> DEFINE H == Runs[root].hops[n]
           Of(l) == {h \in H : h.lsp = l /\ Independent(n, h)}
           ip == IF Cardinality(Of(FALSE)) > 2 THEN 2 ELSE Cardinality(Of(FALSE))
<1>1. /\ results[root] = Runs[root]
      /\ \A x \in Neighbours(root) \ overload : results[x] = Runs[x]
  BY DEF BackupInv, ResultsInv
<1>2. \A h \in H : h.node \in Neighbours(root) /\ h \in Hops
  BY <1>0, DistIs
<1>3. IF ip = 2 THEN Cardinality(Of(TRUE)) = 0 ELSE ip + Cardinality(Of(TRUE)) >= 2
  BY <1>1 DEF HasIndependentHops
<1>4. \A h \in Hops : h.lsp = FALSE
  <2>1. ASSUME NEW e \in Edge PROVE Hop(e).lsp = FALSE
    <3>1. (e \in Lsp) = FALSE
      OBVIOUS
    <3>2. Hop(e).lsp = (e \in Lsp)
      BY DEF Hop
    <3>3. QED
      BY <3>1, <3>2, Zenon
  <2>2. QED
    BY <2>1 DEF Hops
<1>5. Of(TRUE) = {}
  BY <1>2, <1>4
<1>6. \A l : Of(l) \subseteq H /\ H \subseteq Hops
  BY <1>2
<1>7. IsFiniteSet(Of(FALSE))
  BY <1>6, HopsFinite, FS_Subset
<1>8. \A h : h \in Of(FALSE) => h \in H /\ h.lsp = FALSE /\ Independent(n, h)
  OBVIOUS
<1> HIDE DEF Of, H
<1>9. Cardinality(Of(FALSE)) >= 2
  <2>1. Cardinality(Of(TRUE)) = 0 /\ Cardinality(Of(FALSE)) \in Nat
    BY <1>5, <1>7, FS_EmptySet, FS_CardinalityType
  <2>2. PICK c \in Nat : c = Cardinality(Of(FALSE))
    BY <2>1
  <2>3. IF ip = 2 THEN TRUE ELSE ip + 0 >= 2
    BY <1>3, <2>1
  <2>4. ip = IF c > 2 THEN 2 ELSE c
    BY <2>2
  <2> HIDE DEF ip
  <2>5. c >= 2
    BY <2>3, <2>4
  <2>6. QED
    BY <2>2, <2>5
<1>10. PICK g, h : g \in Of(FALSE) /\ h \in Of(FALSE) /\ g # h
  <2>1. PICK S : S = Of(FALSE)
    OBVIOUS
  <2>2. \E g, h \in S : g # h
    BY <1>7, <1>9, <2>1, TwoOf
  <2>3. QED
    BY <2>1, <2>2
<1>11. ASSUME NEW x \in Of(FALSE), NEW y \in Of(FALSE), x # y
       PROVE  Avoids(n, x, y)
  <2>1. x \in H /\ y \in H /\ x.lsp = FALSE /\ y.lsp = FALSE /\ Independent(n, x)
    BY <1>8
  <2>2. y \in results[root].hops[n] \ {x}
    BY <1>1, <1>11, <2>1 DEF H
  <2>3. results[x.node].dist[n] < Plus(results[x.node].dist[y.node], results[y.node].dist[n])
    BY <2>1, <2>2 DEF Independent
  <2>4. x.node \in Neighbours(root) /\ y.node \in Neighbours(root)
    BY <1>2, <2>1
  <2>5. ASSUME x.node \notin overload, y.node \notin overload
        PROVE  Dist[x.node][n] < Plus(Dist[x.node][y.node], Dist[y.node][n])
    <3>1. x.node \in Node /\ y.node \in Node
      BY <2>4, NeighbourFacts
    <3>2. results[x.node].dist = Dist[x.node] /\ results[y.node].dist = Dist[y.node]
      BY <1>0, <1>1, <2>4, <2>5, <3>1, DistIs
    <3>3. QED
      BY <2>3, <3>2
  <2>6. QED
    BY <2>5 DEF Avoids
<1>12. QED
  BY <1>8, <1>10, <1>11 DEF Survives, H

LEMMA WeedInv ==
  ASSUME BackupInv, Weed
  PROVE  BackupInv'
<1>0. Types /\ root \in Node
  BY DEF BackupInv, Types, RunOK
<1>1. /\ UNCHANGED <<confVars, root, partial, results, pq, backup>>
      /\ pc = "weed" /\ pc' = "slot"
  BY DEF Weed
<1>2. /\ Dist' = Dist /\ Runs' = Runs /\ Neighbours(root)' = Neighbours(root)
      /\ Calm' = Calm /\ \A n : Survives(n)' = Survives(n)
  BY <1>1, ConfigKept, GoodKept
<1>3. overload' = overload /\ options' = options
  BY <1>1 DEF confVars
<1>4. CASE ~partial
  <2>0. Running
    BY <1>1, <1>4 DEF Running
  <2>1. \A n \in Node : Dist[root][n] < Inf => backup[n] = {}
    BY <1>1, <2>0 DEF BackupInv, FlushedInv
  <2>2. ResultsInv'
    BY <1>1, <1>2, <1>3, <2>0 DEF BackupInv, ResultsInv
  <2>3. PlaceInv' /\ PqInv' /\ FlushedInv'
    BY <1>1 DEF PlaceInv, PqInv, FlushedInv
  <2>4. GoodInv'
    BY <1>1, <1>2, <2>1 DEF GoodInv
  <2>5. NoNeedInv'
    <3>1. SUFFICES ASSUME "remote" \notin options[root], NEW n \in noNeed'
                   PROVE  n \in Node /\ backup[n] = {} /\ (Lsp = {} => Survives(n))
      BY <1>1, <1>2, <1>3 DEF NoNeedInv
    <3>2. Calm
      BY <3>1 DEF Calm
    <3>3. n \in Node /\ results[root].dist[n] < Inf /\ HasIndependentHops(n)
      BY DEF Weed, Listed
    <3>4. results[root].dist = Dist[root]
      BY <1>0, <2>0, <3>2, DistIs DEF BackupInv, ResultsInv
    <3>5. Lsp = {} => Survives(n)
      BY <1>1, <2>0, <3>2, <3>3, WeededSurvives
    <3>6. QED
      BY <2>1, <3>3, <3>4, <3>5
  <2>6. QED
    BY <1>0, <2>2, <2>3, <2>4, <2>5, WeedTypes DEF BackupInv
<1>5. CASE partial
  BY <1>0, <1>1, <1>5, WeedTypes, NotRunning DEF Running
<1>6. QED
  BY <1>4, <1>5

\* Backups that stay keep their promise.
LEMMA StillGood ==
  ASSUME GoodInv, UNCHANGED <<confVars, root, partial>>, pc # "idle",
         \A n \in Node \ {root} : Running /\ Dist[root][n] < Inf =>
           \A b \in backup'[n] : b \in backup[n] \/ Good(n, b)
  PROVE  GoodInv'
<1>1. Dist' = Dist /\ root' = root /\ partial' = partial /\ \A n, b : Good(n, b)' = Good(n, b)
  BY ConfigKept, GoodKept
<1>2. SUFFICES ASSUME Running', NEW n \in Node \ {root}, Dist[root][n] < Inf, NEW b \in backup'[n]
               PROVE  Good(n, b)
  BY <1>1 DEF GoodInv
<1>3. Running
  BY <1>1, <1>2 DEF Running
<1>4. QED
  BY <1>2, <1>3 DEF GoodInv

\* The lists that are compared stay.
LEMMA StillResults ==
  ASSUME ResultsInv, UNCHANGED <<confVars, root, partial, results>>,
         pc \in {"weed", "slot", "pspace", "filter"}, pc' # "runs"
  PROVE  ResultsInv'
<1>1. /\ Runs' = Runs /\ Neighbours(root)' = Neighbours(root) /\ Calm' = Calm
      /\ root' = root /\ partial' = partial /\ results' = results
  BY ConfigKept, GoodKept
<1>2. overload' = overload
  BY DEF confVars
<1>3. Running' => Running
  BY <1>1 DEF Running
<1>4. QED
  BY <1>1, <1>2, <1>3 DEF ResultsInv

LEMMA SkipSlotInv ==
  ASSUME BackupInv, NEW e, SkipSlot(e)
  PROVE  BackupInv'
<1>1. /\ UNCHANGED <<confVars, root, partial, results, noNeed, pq, backup>>
      /\ pc = "slot" /\ pc' = "slot"
  BY DEF SkipSlot
<1>2. \A n : Survives(n)' = Survives(n)
  BY <1>1, GoodKept
<1>3. options' = options
  BY <1>1 DEF confVars
<1>4. Running' => Running
  BY <1>1 DEF Running
<1>5. ResultsInv'
  BY <1>1, StillResults DEF BackupInv
<1>6. GoodInv'
  BY <1>1, StillGood DEF BackupInv
<1>7. NoNeedInv'
  BY <1>1, <1>2, <1>3, <1>4 DEF BackupInv, NoNeedInv
<1>8. PlaceInv' /\ PqInv' /\ FlushedInv'
  BY <1>1 DEF PlaceInv, PqInv, FlushedInv
<1>9. QED
  BY <1>5, <1>6, <1>7, <1>8, SkipSlotTypes DEF BackupInv

\* An alternate that is recorded keeps its promise.
LEMMA AlternateGood ==
  ASSUME BackupInv, Running, pc = "slot", NEW e, AtSlot(e), NEW n \in Node, NEW junk \in BOOLEAN,
         NEW f \in Alternates(e, n, junk)
  PROVE  Good(n, Lfa(f, e, LfaKind(e, f, n, junk)))
<1>0. Types /\ root \in Node
  BY DEF BackupInv, Types, RunOK
<1>1. PICK b : b = Lfa(f, e, LfaKind(e, f, n, junk))
  OBVIOUS
<1>2. e \in Edge /\ root \in {Src[e], Dst[e]}
  BY <1>0, SlotFacts
<1>3. f \in UpEdges(root) /\ Dst[f] \notin overload /\ LoopFree(Dst[f], n)
  BY DEF Alternates
<1>4. f \in Edge /\ Src[f] = root /\ Dst[f] \in Neighbours(root) /\ Dst[f] \in Node
  BY <1>3, NeighbourFacts
<1>5. LfaKind(e, f, n, junk) \in {"link", "node"}
  BY DEF LfaKind
<1>6. /\ b.oif = f /\ b.link = e /\ b.node = Dst[f] /\ ~IsTunnel(b)
      /\ b.kind = LfaKind(e, f, n, junk)
  BY <1>1, <1>2, <1>4, <1>5, LfaFacts
<1>7. OfRoot(b)
  BY <1>2, <1>4, <1>6 DEF OfRoot
<1>8. ASSUME Calm
      PROVE  /\ results[root] = Runs[root]
             /\ \A x \in Neighbours(root) \ overload :
                  results[x] = Runs[x] /\ results[x].dist = Dist[x]
             /\ results[root].dist = Dist[root]
  <2>1. /\ results[root] = Runs[root]
        /\ \A x \in Neighbours(root) \ overload : results[x] = Runs[x]
    BY <1>8 DEF BackupInv, ResultsInv
  <2>2. QED
    BY <1>0, <2>1, DistIs, NeighbourFacts
<1>9. ASSUME Calm, Cardinality(Runs[root].hops[n]) > 1
      PROVE  b.kind = "node"
  <2>1. Mandatory(results, n)
    BY <1>8, <1>9 DEF Mandatory
  <2>2. LfaKind(e, f, n, junk) # "link"
    BY <2>1 DEF Alternates
  <2>3. QED
    BY <1>5, <1>6, <2>2
<1>10. ASSUME Calm PROVE GoodAlternate(n, b)
  <2>1. results[Dst[f]].dist = Dist[Dst[f]]
    BY <1>3, <1>4, <1>8, <1>10
  <2>2. Dist[Dst[f]][n] < Plus(Dist[Dst[f]][root], Dist[root][n])
    BY <1>3, <1>8, <1>10, <2>1 DEF LoopFree
  <2>3. ASSUME b.kind = "node", "node" \in protect[e], NEW h \in Runs[root].hops[n]
        PROVE  NodeProtects(n, b, h)
    <3>1. NodeProtecting(Dst[f], n)
      BY <1>6, <2>3 DEF LfaKind
    <3>2. results[Dst[f]].dist[n] < Plus(results[Dst[f]].dist[h.node], results[h.node].dist[n])
      BY <1>8, <1>10, <2>3, <3>1 DEF NodeProtecting
    <3>3. h.node \in Neighbours(root)
      BY <1>0, <2>3, DistIs
    <3>4. h.node \notin overload => results[h.node].dist = Dist[h.node]
      BY <1>8, <1>10, <3>3
    <3>5. QED
      BY <1>6, <2>1, <3>2, <3>4 DEF NodeProtects
  <2>4. QED
    BY <1>3, <1>4, <1>6, <2>2, <2>3 DEF GoodAlternate
<1>11. Good(n, b)
  BY <1>6, <1>7, <1>9, <1>10 DEF Good
<1>12. QED
  BY <1>1, <1>11

LEMMA ComputeLfaInv ==
  ASSUME BackupInv, NEW e, ComputeLfa(e)
  PROVE  BackupInv'
<1>0. Types /\ root \in Node
  BY DEF BackupInv, Types, RunOK
<1>1. /\ UNCHANGED <<confVars, root, partial, results, noNeed, pq>>
      /\ pc = "slot" /\ AtSlot(e) /\ Protectable(e)
  BY DEF ComputeLfa
<1>2. \A n : Survives(n)' = Survives(n)
  BY <1>1, GoodKept
<1>3. options' = options /\ status' = status
  BY <1>1 DEF confVars
<1>4. /\ pc' \in {"slot", "pspace"}
      /\ pc' = "pspace" => "remote" \in options[root] /\ slots' = slots
  BY DEF ComputeLfa
<1>5. Running' => Running
  BY <1>1 DEF Running
<1>6. PICK junk \in BOOLEAN :
        backup' = [n \in Node |-> backup[n] \cup
          IF n \in Listed(results, root) \ {root} /\ Impacted(results, noNeed, e, n)
          THEN {Lfa(f, e, LfaKind(e, f, n, junk)) : f \in Alternates(e, n, junk)}
          ELSE {}]
  BY DEF ComputeLfa
<1>7. ASSUME NEW n \in Node, Running, NEW b \in backup'[n]
      PROVE  b \in backup[n] \/ Good(n, b)
  <2>1. \/ b \in backup[n]
        \/ \E f \in Alternates(e, n, junk) : b = Lfa(f, e, LfaKind(e, f, n, junk))
    BY <1>6
  <2>2. CASE b \in backup[n]
    BY <2>2
  <2>3. CASE \E f \in Alternates(e, n, junk) : b = Lfa(f, e, LfaKind(e, f, n, junk))
    BY <1>1, <1>7, <2>3, AlternateGood
  <2>4. QED
    BY <2>1, <2>2, <2>3
<1>8. ResultsInv'
  BY <1>1, <1>4, StillResults DEF BackupInv
<1>9. GoodInv'
  BY <1>1, <1>7, StillGood DEF BackupInv
<1>10. NoNeedInv'
  <2>1. \A n \in Node : n \in noNeed => backup'[n] = backup[n]
    BY <1>6 DEF Impacted
  <2>2. QED
    BY <1>1, <1>2, <1>3, <1>4, <1>5, <2>1 DEF BackupInv, NoNeedInv
<1>11. PlaceInv'
  BY <1>1, <1>3, <1>4 DEF PlaceInv, AtSlot, Protectable
<1>12. PqInv' /\ FlushedInv'
  BY <1>4 DEF PqInv, FlushedInv
<1>13. QED
  BY <1>0, <1>8, <1>9, <1>10, <1>11, <1>12, ComputeLfaTypes DEF BackupInv

\* The list of the router behind the protected link.
LEMMA FarEndResults ==
  ASSUME BackupInv, NEW e, AtSlot(e), pc \in {"pspace", "filter"}, Dst[e] \notin overload
  PROVE  Dst[e] \in {root} \cup Neighbours(root)
<1>1. e \in Edge /\ root \in {Src[e], Dst[e]}
  BY SlotFacts DEF BackupInv
<1>2. status[e]
  BY DEF BackupInv, PlaceInv, AtSlot
<1>3. QED
  BY <1>1, <1>2 DEF Neighbours, UpEdges

\* What the extended P space holds leads away from the root and from the link.
LEMMA FoundGood ==
  ASSUME BackupInv, Running, pc = "pspace", NEW e, AtSlot(e), NEW b, IsFound(b, e)
  PROVE  OfRoot(b) /\ GoodStart(b) /\ b.link = e /\ b.proxy = Dst[b.oif]
<1>0. Types /\ root \in Node
  BY DEF BackupInv, Types, RunOK
<1>1. e \in Edge /\ root \in {Src[e], Dst[e]} /\ Dst[e] \in Node
  BY <1>0, SlotFacts
<1>2. PICK p \in Node \ (overload \cup {root, Dst[e]}) :
        \E f \in Tunnels(e, p) : b = Rlfa(f, e, PKind(e, f, p), p)
  BY DEF IsFound
<1>3. PICK f \in Tunnels(e, p) : b = Rlfa(f, e, PKind(e, f, p), p)
  BY <1>2
<1>4. f \in UpEdges(root) /\ MayTunnel(e, f, p)
  BY DEF Tunnels
<1>5. f \in Edge /\ Src[f] = root /\ Dst[f] \in Neighbours(root) /\ Dst[f] \in Node
  BY <1>4, NeighbourFacts
<1>6. PKind(e, f, p) \in {"link", "node"} /\ (PKind(e, f, p) = "node" => AvoidsNode(e, f, p))
  BY DEF PKind
<1>7. /\ b.oif = f /\ b.link = e /\ b.kind = PKind(e, f, p) /\ b.proxy = Dst[f] /\ b.rlfa = p
  BY <1>1, <1>2, <1>3, <1>5, <1>6, RlfaFacts
<1>8. /\ f # e /\ Dst[f] \notin overload
      /\ results[Dst[f]].dist[p] < Plus(results[Dst[f]].dist[root], results[root].dist[p])
  BY <1>0, <1>2, <1>4, <1>5 DEF MayTunnel
<1>9. ASSUME Calm
      PROVE  /\ results[root].dist = Dist[root] /\ results[Dst[f]].dist = Dist[Dst[f]]
             /\ Dst[e] \notin overload => results[Dst[e]].dist = Dist[Dst[e]]
  <2>1. /\ results[root] = Runs[root]
        /\ \A x \in Neighbours(root) \ overload : results[x] = Runs[x]
    BY <1>9 DEF BackupInv, ResultsInv
  <2>2. Dst[e] \notin overload => Dst[e] \in {root} \cup Neighbours(root)
    BY FarEndResults
  <2>3. QED
    BY <1>0, <1>1, <1>5, <1>8, <2>1, <2>2, DistIs
<1>10. ASSUME Calm
       PROVE  /\ Dist[b.proxy][b.rlfa] < Plus(Dist[b.proxy][root], Dist[root][b.rlfa])
              /\ b.kind = "node" /\ FarEnd(b) \notin overload =>
                   Dist[b.proxy][b.rlfa] <
                     Plus(Dist[b.proxy][FarEnd(b)], Dist[FarEnd(b)][b.rlfa])
  BY <1>6, <1>7, <1>8, <1>9, <1>10 DEF AvoidsNode, FarEnd
<1>11. GoodStart(b)
  BY <1>2, <1>5, <1>7, <1>8, <1>10 DEF GoodStart, BackupInv, PlaceInv
<1>12. QED
  BY <1>1, <1>5, <1>7, <1>11 DEF OfRoot

LEMMA ExtendedPSpaceInv ==
  ASSUME BackupInv, NEW e, ExtendedPSpace(e)
  PROVE  BackupInv'
<1>0. Types
  BY DEF BackupInv
<1>1. /\ UNCHANGED <<confVars, root, partial, results, noNeed, slots, backup>>
      /\ pc = "pspace" /\ pc' = "filter" /\ AtSlot(e)
  BY DEF ExtendedPSpace
<1>2. /\ \A n : Survives(n)' = Survives(n)
      /\ \A b : OfRoot(b)' = OfRoot(b) /\ GoodStart(b)' = GoodStart(b)
  BY <1>1, GoodKept
<1>3. options' = options /\ status' = status
  BY <1>1 DEF confVars
<1>4. Running' => Running
  BY <1>1 DEF Running
<1>5. Types' /\ \A b \in pq' : IsFound(b, e)
  BY <1>0, ExtendedPSpaceTypes
<1>6. ASSUME Running, NEW b \in pq'
      PROVE  OfRoot(b) /\ GoodStart(b) /\ b.link = MinNat(slots) /\ b.proxy = Dst[b.oif]
  <2>1. OfRoot(b) /\ GoodStart(b) /\ b.link = e /\ b.proxy = Dst[b.oif]
    BY <1>1, <1>5, <1>6, FoundGood
  <2>2. QED
    BY <1>1, <2>1 DEF AtSlot
<1>7. PqInv'
  BY <1>1, <1>2, <1>4, <1>6 DEF PqInv
<1>8. ResultsInv' /\ GoodInv'
  BY <1>1, StillResults, StillGood DEF BackupInv
<1>9. NoNeedInv'
  BY <1>1, <1>2, <1>3, <1>4 DEF BackupInv, NoNeedInv
<1>10. PlaceInv' /\ FlushedInv'
  BY <1>1, <1>3 DEF BackupInv, PlaceInv, FlushedInv
<1>11. QED
  BY <1>5, <1>7, <1>8, <1>9, <1>10 DEF BackupInv

\* The lists SelectPqNodes compares: those of both ends are of the inverse
\* topology, and then, on symmetric links, all of them are of the network.
LEMMA AfterFacts ==
  ASSUME BackupInv, Running, pc = "filter", NEW e, AtSlot(e)
  PROVE  /\ InverseRuns(e)[root].dist = Back[root]
         /\ Dst[e] \notin overload => InverseRuns(e)[Dst[e]].dist = Back[Dst[e]]
         /\ Calm => /\ After(e)[root] = Runs[root]
                    /\ \A x \in Neighbours(root) \ overload : After(e)[x] = Runs[x]
                    /\ \A c \in Selected(e) : After(e)[c.rlfa] = Runs[c.rlfa]
<1>0. Types /\ root \in Node /\ root \notin overload
  BY DEF BackupInv, ResultsInv, Types, RunOK
<1>1. Dst[e] \in Node
  BY <1>0, SlotFacts
<1>2. PICK i \in [Edge -> Nat] : i = InverseTopology(metric)
  BY <1>0, InverseFacts DEF Types, ConfOK
<1>3. metric \in [Edge -> Nat] /\ results \in [Node -> Result]
  BY <1>0 DEF Types, ConfOK, RunOK
<1>4. /\ InverseRuns(e) \in [Node -> Result]
      /\ \A x \in Node : InverseRuns(e)[x] =
           IF x \in {root, Dst[e]} /\ x \notin overload THEN Run(i, x) ELSE results[x]
  BY <1>2, <1>3, RefreshFacts DEF InverseRuns
<1>5. \A x \in Node : After(e)[x] =
        IF x \in {b.rlfa : b \in Selected(e)} /\ x \notin overload
        THEN Run(metric, x) ELSE InverseRuns(e)[x]
  BY <1>3, <1>4, RefreshFacts DEF After
<1>6. \A x \in Node : Run(i, x).dist = Back[x] /\ Run(metric, x) = Runs[x]
  BY <1>0, <1>2, RunFacts, DistIs
<1>7. /\ InverseRuns(e)[root].dist = Back[root]
      /\ Dst[e] \notin overload => InverseRuns(e)[Dst[e]].dist = Back[Dst[e]]
  BY <1>0, <1>1, <1>4, <1>6
<1>8. ASSUME Calm
      PROVE  /\ After(e)[root] = Runs[root]
             /\ \A x \in Neighbours(root) \ overload : After(e)[x] = Runs[x]
             /\ \A c \in Selected(e) : After(e)[c.rlfa] = Runs[c.rlfa]
  <2>1. Symmetric
    BY <1>8 DEF Calm, BackupInv, PlaceInv
  <2>2. i = metric
    <3>1. \A f \in Edge : i[f] = metric[f]
      BY <1>2, <2>1 DEF InverseTopology, Symmetric
    <3>2. QED
      BY <1>2, <1>3, <3>1
  <2>3. /\ results[root] = Runs[root]
        /\ \A x \in Neighbours(root) \ overload : results[x] = Runs[x]
    BY <1>8 DEF BackupInv, ResultsInv
  <2>4. \A x \in Node : After(e)[x] = Runs[x] \/ After(e)[x] = results[x]
    BY <1>4, <1>5, <1>6, <2>2
  <2>5. ASSUME NEW c \in Selected(e) PROVE After(e)[c.rlfa] = Runs[c.rlfa]
    <3>1. c \in pq
      BY DEF Selected
    <3>2. c.rlfa \in Node \ overload
      BY <3>1 DEF BackupInv, PqInv, GoodStart
    <3>3. QED
      BY <1>5, <1>6, <3>2
  <2>6. QED
    BY <1>0, <2>3, <2>4, <2>5, NeighbourFacts
<1>9. QED
  BY <1>7, <1>8

\* A tunnel that is recorded keeps its promise.
LEMMA TunnelGood ==
  ASSUME BackupInv, Running, pc = "filter", NEW e, AtSlot(e), NEW n \in Node,
         NEW c \in Selected(e), Serves(After(e), e, c, n)
  PROVE  Good(n, Served(After(e), e, c, n))
<1>0. Types /\ root \in Node
  BY DEF BackupInv, Types, RunOK
<1>1. PICK b : b = Served(After(e), e, c, n)
  OBVIOUS
<1>2. e \in Edge /\ root \in {Src[e], Dst[e]} /\ Dst[e] \in Node /\ e = MinNat(slots)
  BY <1>0, SlotFacts DEF AtSlot
<1>3. /\ c \in pq /\ c \in Backups
      /\ Eligible(InverseRuns(e), e, c.rlfa)
  BY <1>0 DEF Selected, Types, RunOK
<1>4. OfRoot(c) /\ GoodStart(c) /\ c.link = e /\ c.proxy = Dst[c.oif]
  BY <1>2, <1>3 DEF BackupInv, PqInv
<1>5. c.oif \in Edge /\ c.rlfa \in Node /\ c.rlfa \notin overload
  BY <1>3, <1>4 DEF Backups, GoodStart
<1>6. /\ b.oif = c.oif /\ b.link = e /\ b.proxy = c.proxy /\ b.rlfa = c.rlfa /\ IsTunnel(b)
      /\ b.kind = IF QNode(After(e), e, c, n) THEN "node" ELSE "link"
  BY <1>1, <1>2, <1>4, <1>5, RlfaFacts DEF Served
<1>7. /\ b.kind = "node" => QNode(After(e), e, c, n) /\ c.kind = "node"
      /\ b.kind # "node" => QLink(After(e), e, c, n)
  <2>1. CASE QNode(After(e), e, c, n)
    BY <1>6, <2>1 DEF QNode
  <2>2. CASE ~QNode(After(e), e, c, n)
    BY <1>6, <2>2 DEF Serves
  <2>3. QED
    BY <2>1, <2>2
<1>8. OfRoot(b) /\ FarEnd(b) = Dst[e] /\ FarEnd(c) = Dst[e]
  BY <1>4, <1>6 DEF OfRoot, FarEnd
<1>9. GoodStart(b)
  BY <1>4, <1>6, <1>7, <1>8 DEF GoodStart
<1>10. InQSpace(b)
  BY <1>3, <1>6, <1>8, AfterFacts DEF InQSpace, Eligible
<1>11. ASSUME Calm
       PROVE  /\ After(e)[root] = Runs[root]
              /\ After(e)[root].dist = Dist[root]
              /\ After(e)[c.rlfa].dist = Dist[c.rlfa]
              /\ Dst[e] \notin overload => After(e)[Dst[e]].dist = Dist[Dst[e]]
  <2>1. /\ After(e)[root] = Runs[root]
        /\ \A x \in Neighbours(root) \ overload : After(e)[x] = Runs[x]
        /\ After(e)[c.rlfa] = Runs[c.rlfa]
    BY <1>11, AfterFacts
  <2>2. Dst[e] \notin overload => Dst[e] \in {root} \cup Neighbours(root)
    BY FarEndResults
  <2>3. QED
    BY <1>0, <1>2, <1>5, <2>1, <2>2, DistIs
<1>12. ASSUME Calm, b.kind # "node"
       PROVE  /\ Dist[b.rlfa][n] < Plus(Dist[root][b.rlfa], metric[b.link])
              /\ ~(Cardinality(Runs[root].hops[n]) > 1)
  BY <1>6, <1>7, <1>11, <1>12 DEF QLink, Mandatory
<1>13. ASSUME Calm, b.kind = "node", FarEnd(b) \notin overload
       PROVE  Dist[b.rlfa][n] < Plus(Dist[FarEnd(b)][b.rlfa], Dist[FarEnd(b)][n])
  BY <1>6, <1>7, <1>8, <1>11, <1>13 DEF QNode
<1>14. GoodEnd(n, b)
  BY <1>12, <1>13 DEF GoodEnd
<1>15. Good(n, b)
  BY <1>6, <1>8, <1>9, <1>10, <1>12, <1>14 DEF Good
<1>16. QED
  BY <1>1, <1>15

LEMMA SelectPqNodesInv ==
  ASSUME BackupInv, NEW e, SelectPqNodes(e)
  PROVE  BackupInv'
<1>0. Types /\ root \in Node
  BY DEF BackupInv, Types, RunOK
<1>1. /\ UNCHANGED <<confVars, root, partial>> /\ AtSlot(e)
      /\ pc = "filter" /\ pc' = "slot" /\ "remote" \in options[root]
  BY DEF SelectPqNodes, BackupInv, PlaceInv
<1>2. Runs' = Runs /\ Neighbours(root)' = Neighbours(root) /\ Calm' = Calm
  BY <1>1, ConfigKept, GoodKept
<1>3. options' = options /\ overload' = overload
  BY <1>1 DEF confVars
<1>4. Running' => Running
  BY <1>1 DEF Running
<1>5. ASSUME NEW n \in Node, Running, NEW b \in backup'[n]
      PROVE  b \in backup[n] \/ Good(n, b)
  BY <1>0, <1>1, <1>5, SelectFacts, TunnelGood
<1>6. GoodInv'
  BY <1>1, <1>5, StillGood DEF BackupInv
<1>7. ResultsInv'
  <2>1. SUFFICES ASSUME Running
                 PROVE  /\ root \notin overload
                        /\ Calm => /\ results'[root] = Runs[root]
                                   /\ \A x \in Neighbours(root) \ overload : results'[x] = Runs[x]
    BY <1>1, <1>2, <1>3, <1>4 DEF ResultsInv
  <2>2. root \notin overload
    BY <2>1 DEF BackupInv, ResultsInv
  <2>3. results' = After(e)
    BY <1>0, SelectFacts
  <2>4. QED
    BY <1>1, <2>1, <2>2, <2>3, AfterFacts
<1>8. PlaceInv' /\ PqInv' /\ FlushedInv'
  BY <1>1 DEF PlaceInv, PqInv, FlushedInv
<1>9. NoNeedInv'
  BY <1>1, <1>3 DEF NoNeedInv
<1>10. QED
  BY <1>0, <1>6, <1>7, <1>8, <1>9, SelectPqNodesTypes DEF BackupInv

LEMMA SlotsEndInv ==
  ASSUME BackupInv, SlotsEnd
  PROVE  BackupInv'
<1>1. /\ UNCHANGED <<confVars, root, partial, results, noNeed, pq, backup>>
      /\ pc = "slot" /\ pc' = "built"
  BY DEF SlotsEnd
<1>2. \A n : Survives(n)' = Survives(n)
  BY <1>1, GoodKept
<1>3. options' = options
  BY <1>1 DEF confVars
<1>4. Running' => Running
  BY <1>1 DEF Running
<1>5. ResultsInv' /\ GoodInv'
  BY <1>1, StillResults, StillGood DEF BackupInv
<1>6. NoNeedInv'
  BY <1>1, <1>2, <1>3, <1>4 DEF BackupInv, NoNeedInv
<1>7. PlaceInv' /\ PqInv' /\ FlushedInv'
  BY <1>1 DEF PlaceInv, PqInv, FlushedInv
<1>8. Types'
  BY TypesStep DEF BackupInv, Next
<1>9. QED
  BY <1>5, <1>6, <1>7, <1>8 DEF BackupInv

LEMMA BackupInvStep ==
  ASSUME BackupInv, [Next]_vars
  PROVE  BackupInv'
<1>0. Types /\ Types'
  BY TypesStep DEF BackupInv
<1>1. CASE Configured
  BY <1>0, <1>1, ConfiguredTypes, NotRunning DEF Running
<1>2. CASE \E n \in Node : FullRun(n) \/ PartialRun(n)
  BY <1>0, <1>2, FullRunInv, PartialRunInv
<1>3. CASE BackupRuns
  BY <1>3, BackupRunsInv
<1>4. CASE Weed
  BY <1>4, WeedInv
<1>5. CASE SlotsEnd
  BY <1>5, SlotsEndInv
<1>6. CASE Built
  <2>1. pc' = "idle"
    BY <1>6 DEF Built
  <2>2. QED
    BY <1>0, <2>1, NotRunning DEF Running
<1>7. CASE \E e \in slots : SkipSlot(e) \/ ComputeLfa(e) \/ ExtendedPSpace(e) \/ SelectPqNodes(e)
  BY <1>7, SkipSlotInv, ComputeLfaInv, ExtendedPSpaceInv, SelectPqNodesInv
<1>8. CASE UNCHANGED vars
  <2>1. UNCHANGED <<confVars, root, partial, results, noNeed, slots, pq, backup, pc>>
    BY <1>8 DEF vars
  <2>2. /\ Dist' = Dist /\ Runs' = Runs /\ Neighbours(root)' = Neighbours(root) /\ Calm' = Calm
        /\ \A n : Survives(n)' = Survives(n)
        /\ \A b : OfRoot(b)' = OfRoot(b) /\ GoodStart(b)' = GoodStart(b)
        /\ \A n, b : Good(n, b)' = Good(n, b)
    BY <2>1, ConfigKept, GoodKept
  <2>3. options' = options /\ overload' = overload /\ status' = status
    BY <2>1 DEF confVars
  <2>4. Running' = Running
    BY <2>1 DEF Running
  <2>5. ResultsInv' /\ PlaceInv' /\ FlushedInv'
    BY <2>1, <2>2, <2>3, <2>4 DEF BackupInv, ResultsInv, PlaceInv, FlushedInv
  <2>6. PqInv' /\ GoodInv' /\ NoNeedInv'
    BY <2>1, <2>2, <2>3, <2>4 DEF BackupInv, PqInv, GoodInv, NoNeedInv
  <2>7. QED
    BY <1>0, <2>5, <2>6 DEF BackupInv
<1>9. QED
  BY <1>1, <1>2, <1>3, <1>4, <1>5, <1>6, <1>7, <1>8 DEF Next, Operator, Configured

-----------------------------------------------------------------------------
(* What the invariant means for the paths of the network.                  *)

LEMMA ReferenceIs == Reference = Dist
BY TableIs DEF Reference, Dist

\* A comparison that holds excludes the paths through z.
LEMMA NotVisited ==
  ASSUME Types, NEW x \in Node, NEW y \in Node, NEW z \in Node,
         z \notin overload => Dist[x][y] < Plus(Dist[x][z], Dist[z][y]),
         z \in overload => z # y
  PROVE  ~VisitsNode(Dist, x, y, z)
<1>1. /\ Dist[x][y] \in Nat /\ Dist[x][z] \in Nat /\ Dist[z][y] \in Nat /\ Inf \in Nat
  BY DistIs, BackupConstants
<1>2. CASE z \in overload
  <2>1. Dist[z][y] = Inf
    BY <1>2, DistIs, Overloaded DEF Types, ConfOK
  <2>2. QED
    BY <1>1, <2>1 DEF VisitsNode
<1>3. CASE z \notin overload
  <2>1. Dist[x][y] < Dist[x][z] + Dist[z][y]
    BY <1>1, <1>3, BelowPlus
  <2>2. QED
    BY <1>1, <2>1 DEF VisitsNode
<1>4. QED
  BY <1>2, <1>3

LEMMA NotOverlookedLink ==
  ASSUME Types, NEW e \in Usable, Src[e] \notin overload, NEW x \in Node, NEW y \in Node
  PROVE  /\ Dist[x][Dst[e]] <= Dist[x][Src[e]] + metric[e]
         /\ Dist[Src[e]][y] <= metric[e] + Dist[Dst[e]][y]
<1>1. e \in Edge /\ Src[e] \in Node /\ Dst[e] \in Node /\ metric \in [Edge -> Nat]
  BY UsableFacts DEF Types, ConfOK
<1>2. Cost(metric, e) = metric[e] /\ metric[e] \in Nat
  BY <1>1, CostFacts
<1>3. \A z \in Node : Dist[z][Dst[e]] <= Dist[z][Src[e]] + metric[e]
  <2>1. ASSUME NEW z \in Node PROVE Dist[z][Dst[e]] <= Dist[z][Src[e]] + metric[e]
    <3>1. IsPotential(Dist[z], metric)
      BY <1>1, DistIs, DistanceFacts
    <3>2. QED
      BY <1>2, <3>1 DEF IsPotential
  <2>2. QED
    BY <2>1
<1>4. Dist[Src[e]][y] <= Dist[Src[e]][Dst[e]] + Dist[Dst[e]][y]
  BY <1>1, DistIs, Triangle
<1>5. Dist[Src[e]][Src[e]] = 0
  BY <1>1, DistIs, DistanceFacts
<1>6. /\ Dist[Src[e]][y] \in Nat /\ Dist[Src[e]][Dst[e]] \in Nat /\ Dist[Dst[e]][y] \in Nat
  BY <1>1, DistIs
<1>7. Dist[Src[e]][Dst[e]] <= 0 + metric[e]
  BY <1>1, <1>3, <1>5
<1>8. QED
  BY <1>2, <1>3, <1>4, <1>6, <1>7

\* On symmetric links the way back is as long as the way there.
LEMMA SymmetricBack ==
  ASSUME Types, Symmetric, Paired, NEW x \in Node \ overload, NEW y \in Node \ overload
  PROVE  Dist[y][x] <= Dist[x][y]
<1>1. metric \in [Edge -> Nat] /\ \A e \in DOMAIN Twin : metric[Twin[e]] = metric[e]
  BY DEF Types, ConfOK, Symmetric
<1>2. Distances(metric, y)[x] <= Distances(metric, x)[y]
  BY <1>1, WayBack
<1>3. QED
  BY <1>2, DistIs

\* The inverse topology has the ways back.
LEMMA InverseBack ==
  ASSUME Types, Paired, NEW x \in Node \ overload, NEW y \in Node \ overload
  PROVE  Back[y][x] <= Dist[x][y] /\ Dist[x][y] <= Back[y][x]
<1>1. PICK i : i = InverseTopology(metric)
  OBVIOUS
<1>2. metric \in [Edge -> Nat] /\ i \in [Edge -> Nat]
  BY <1>1, InverseFacts DEF Types, ConfOK
<1>3. \A e \in DOMAIN Twin : i[Twin[e]] = metric[e] /\ metric[Twin[e]] = i[e]
  BY <1>1, <1>2, TwinEdges DEF InverseTopology
<1>4. Distances(i, y)[x] <= Distances(metric, x)[y]
  BY <1>2, <1>3, WayBack
<1>5. Distances(metric, x)[y] <= Distances(i, y)[x]
  BY <1>2, <1>3, WayBack
<1>6. QED
  BY <1>1, <1>4, <1>5, DistIs

\* The routes of a full run are being built; the destinations it reaches.
BuiltInv == BackupInv /\ FullBuilt
Dest == {n \in Node \ {root} : Dist[root][n] < Inf}

LEMMA BuiltFacts ==
  ASSUME BuiltInv
  PROVE  /\ Types /\ Running /\ root \in Node /\ root \notin overload
         /\ \A n \in Dest : n \in Node /\ \A b \in backup[n] : b \in Backups /\ Good(n, b)
         /\ Calm => results[root] = Runs[root]
<1>1. Types /\ Running
  BY DEF BuiltInv, BackupInv, FullBuilt, Running
<1>2. root \in Node /\ backup \in [Node -> SUBSET Backups]
  BY <1>1 DEF Types, RunOK, BackupOK
<1>3. QED
  BY <1>1, <1>2 DEF BuiltInv, BackupInv, ResultsInv, GoodInv, FullBuilt, Dest

LEMMA IsAlternatesLoopFree ==
  ASSUME BackupInv
  PROVE  AlternatesLoopFree
<1>1. SUFFICES ASSUME Sound, NEW n \in Dest, NEW b \in backup[n], ~IsTunnel(b)
               PROVE  ~VisitsNode(Dist, b.node, n, root)
  BY ReferenceIs DEF AlternatesLoopFree, Destinations, Dest
<1>2. BuiltInv /\ Calm
  BY <1>1 DEF Sound, BuiltInv, Calm
<1>3. GoodAlternate(n, b) /\ n \in Node
  BY <1>1, <1>2, BuiltFacts DEF Good
<1>4. QED
  BY <1>2, <1>3, BuiltFacts, NotVisited DEF GoodAlternate

LEMMA IsNodeKindAvoidsNextHops ==
  ASSUME BackupInv
  PROVE  NodeKindAvoidsNextHops
<1>1. SUFFICES ASSUME Sound, NEW n \in Dest, NEW b \in backup[n],
                      b.kind = "node", "node" \in protect[b.link]
               PROVE  IF IsTunnel(b)
                      THEN /\ ~VisitsNode(Dist, b.proxy, b.rlfa, Dst[b.link])
                           /\ Paired /\ VisitsNode(Dist, b.rlfa, n, Dst[b.link]) =>
                                n = Dst[b.link] /\ n \in overload
                      ELSE \A h \in results[root].hops[n] :
                             h.node # n => ~VisitsNode(Dist, b.node, n, h.node)
  BY ReferenceIs DEF NodeKindAvoidsNextHops, Destinations, Dest
<1>2. BuiltInv /\ Calm
  BY <1>1 DEF Sound, BuiltInv, Calm
<1>3. /\ Types /\ root \in Node /\ n \in Node /\ b \in Backups /\ Good(n, b)
      /\ results[root] = Runs[root]
  BY <1>1, <1>2, BuiltFacts
<1>4. ASSUME ~IsTunnel(b), NEW h \in results[root].hops[n], h.node # n
      PROVE  ~VisitsNode(Dist, b.node, n, h.node)
  <2>1. GoodAlternate(n, b)
    BY <1>2, <1>3, <1>4 DEF Good
  <2>2. h.node \in Node
    BY <1>3, DistIs, NeighbourFacts
  <2>3. b.node \in Node /\ NodeProtects(n, b, h)
    BY <1>1, <1>3, <2>1 DEF GoodAlternate
  <2>4. QED
    BY <1>3, <1>4, <2>2, <2>3, NotVisited DEF NodeProtects
<1>5. ASSUME IsTunnel(b)
      PROVE  /\ ~VisitsNode(Dist, b.proxy, b.rlfa, Dst[b.link])
             /\ Paired /\ VisitsNode(Dist, b.rlfa, n, Dst[b.link]) =>
                  n = Dst[b.link] /\ n \in overload
  <2>1. GoodStart(b) /\ GoodEnd(n, b)
    BY <1>3, <1>5 DEF Good
  <2>2. /\ Dst[b.link] \in Node /\ b.proxy \in Node
        /\ b.rlfa \in Node \ overload /\ Symmetric
    BY <1>2, <1>3, <2>1, BackupConstants DEF GoodStart, Backups, Calm
  <2>3. ~VisitsNode(Dist, b.proxy, b.rlfa, Dst[b.link])
    BY <1>1, <1>2, <1>3, <2>1, <2>2, NotVisited DEF GoodStart, FarEnd
  <2>4. ASSUME Paired, VisitsNode(Dist, b.rlfa, n, Dst[b.link])
        PROVE  n = Dst[b.link] /\ n \in overload
    <3>1. CASE Dst[b.link] \in overload
      BY <1>3, <2>2, <2>4, <3>1, NotVisited
    <3>2. CASE Dst[b.link] \notin overload
      <4>1. Dist[Dst[b.link]][b.rlfa] <= Dist[b.rlfa][Dst[b.link]]
        BY <1>3, <2>2, <2>4, <3>2, SymmetricBack
      <4>2. Dist[b.rlfa][n] < Plus(Dist[Dst[b.link]][b.rlfa], Dist[Dst[b.link]][n])
        BY <1>1, <1>2, <2>1, <3>2 DEF GoodEnd, FarEnd
      <4>3. /\ Dist[b.rlfa][n] \in Nat /\ Dist[Dst[b.link]][b.rlfa] \in Nat
            /\ Dist[Dst[b.link]][n] \in Nat /\ Dist[b.rlfa][Dst[b.link]] \in Nat
        BY <1>3, <2>2, DistIs
      <4>4. Dist[b.rlfa][n] < Dist[Dst[b.link]][b.rlfa] + Dist[Dst[b.link]][n]
        BY <4>2, <4>3, BelowPlus
      <4>5. QED
        BY <2>4, <4>1, <4>3, <4>4 DEF VisitsNode
    <3>3. QED
      BY <3>1, <3>2
  <2>5. QED
    BY <2>3, <2>4
<1>6. QED
  BY <1>4, <1>5


\* A tunnel stands in for a link out of the root: the other direction has no PQ
\* nodes, since its far end is the root itself.
LEMMA TunnelOutOfRoot ==
  ASSUME BuiltInv, NEW n \in Dest, NEW b \in backup[n], IsTunnel(b), FarEnd(b) \notin overload
  PROVE  /\ b.link \in Edge /\ Src[b.link] = root /\ FarEnd(b) \in Node
         /\ b.rlfa \in Node /\ b.rlfa \notin overload
         /\ Back[FarEnd(b)][b.rlfa] < Back[root][b.rlfa] + Back[FarEnd(b)][root]
<1>1. Types /\ root \in Node /\ b \in Backups /\ Good(n, b)
  BY BuiltFacts
<1>2. GoodStart(b) /\ InQSpace(b) /\ OfRoot(b)
  BY <1>1 DEF Good
<1>3. b.link \in Edge /\ FarEnd(b) \in Node /\ b.rlfa \in Node /\ b.rlfa \notin overload
  BY <1>1, <1>2, BackupConstants DEF GoodStart, Backups, FarEnd
<1>4. /\ Back[FarEnd(b)][b.rlfa] \in Nat /\ Back[root][b.rlfa] \in Nat
      /\ Back[FarEnd(b)][root] \in Nat
  BY <1>1, <1>3, DistIs
<1>5. Back[FarEnd(b)][b.rlfa] < Plus(Back[root][b.rlfa], Back[FarEnd(b)][root])
  BY <1>2 DEF InQSpace
<1>6. Back[FarEnd(b)][b.rlfa] < Back[root][b.rlfa] + Back[FarEnd(b)][root]
  BY <1>4, <1>5, BelowPlus
<1>7. Back[root][root] = 0
  <2>1. PICK i : i = InverseTopology(metric)
    OBVIOUS
  <2>2. i \in [Edge -> Nat]
    BY <1>1, <2>1, InverseFacts DEF Types, ConfOK
  <2>3. Distances(i, root)[root] = 0
    BY <1>1, <2>2, DistanceFacts
  <2>4. QED
    BY <1>1, <2>1, <2>3, DistIs
<1>8. FarEnd(b) # root
  BY <1>4, <1>6, <1>7
<1>9. QED
  BY <1>2, <1>3, <1>6, <1>8 DEF OfRoot, FarEnd

LEMMA IsTunnelsAvoidLink ==
  ASSUME BackupInv
  PROVE  TunnelsAvoidLink
<1>1. SUFFICES ASSUME Sound, NEW n \in Dest, NEW b \in backup[n], IsTunnel(b),
                      Dst[b.link] \notin overload
               PROVE  /\ b.oif # b.link
                      /\ ~VisitsLink(Dist, b.proxy, b.rlfa, b.link)
                      /\ Paired => ~VisitsLink(Dist, b.rlfa, n, b.link)
  BY ReferenceIs DEF TunnelsAvoidLink, Destinations, Dest
<1> DEFINE far == FarEnd(b)
<1>2. BuiltInv /\ Calm
  BY <1>1 DEF Sound, BuiltInv, Calm
<1>3. /\ Types /\ root \in Node /\ root \notin overload /\ n \in Node
      /\ b \in Backups /\ Good(n, b)
  BY <1>1, <1>2, BuiltFacts
<1>4. GoodStart(b) /\ GoodEnd(n, b)
  BY <1>1, <1>3 DEF Good
<1>5. /\ b.link \in Edge /\ Src[b.link] = root /\ far \in Node /\ far \notin overload
      /\ Dst[b.link] = far
      /\ b.rlfa \in Node \ overload
  BY <1>1, <1>2, TunnelOutOfRoot DEF FarEnd
<1>6. b.proxy \in Node /\ Symmetric /\ b.oif # b.link
  BY <1>2, <1>4 DEF GoodStart, Calm
<1>7. /\ Dist[b.proxy][b.rlfa] \in Nat /\ Dist[b.proxy][root] \in Nat
      /\ Dist[root][b.rlfa] \in Nat /\ Dist[far][b.rlfa] \in Nat
      /\ Dist[b.rlfa][n] \in Nat /\ Dist[b.rlfa][root] \in Nat
      /\ Dist[b.rlfa][far] \in Nat /\ Dist[far][n] \in Nat
      /\ metric[b.link] \in Nat
  BY <1>3, <1>5, <1>6, DistIs DEF Types, ConfOK
<1> HIDE DEF far
<1>8. ASSUME b.link \in Usable
      PROVE  /\ Dist[b.rlfa][far] <= Dist[b.rlfa][root] + metric[b.link]
             /\ Dist[root][b.rlfa] <= metric[b.link] + Dist[far][b.rlfa]
  BY <1>3, <1>5, <1>8, NotOverlookedLink
<1>9. ~VisitsLink(Dist, b.proxy, b.rlfa, b.link)
  <2>1. Dist[b.proxy][b.rlfa] < Plus(Dist[b.proxy][root], Dist[root][b.rlfa])
    BY <1>2, <1>4 DEF GoodStart
  <2>2. Dist[b.proxy][b.rlfa] < Dist[b.proxy][root] + Dist[root][b.rlfa]
    BY <1>7, <2>1, BelowPlus
  <2>3. QED
    BY <1>5, <1>7, <1>8, <2>2 DEF VisitsLink
<1>10. ASSUME Paired PROVE ~VisitsLink(Dist, b.rlfa, n, b.link)
  <2>1. SUFFICES ASSUME b.link \in Usable,
                        Dist[b.rlfa][root] + metric[b.link] + Dist[far][n] = Dist[b.rlfa][n]
                 PROVE  FALSE
    BY <1>5 DEF VisitsLink
  <2>2. CASE b.kind = "node"
    <3>1. Dist[b.rlfa][n] < Plus(Dist[far][b.rlfa], Dist[far][n])
      BY <1>2, <1>4, <1>5, <2>2 DEF GoodEnd, far
    <3>2. Dist[b.rlfa][n] < Dist[far][b.rlfa] + Dist[far][n]
      BY <1>7, <3>1, BelowPlus
    <3>3. Dist[far][b.rlfa] <= Dist[b.rlfa][far]
      BY <1>3, <1>5, <1>6, <1>10, SymmetricBack
    <3>4. QED
      BY <1>7, <1>8, <2>1, <3>2, <3>3
  <2>3. CASE b.kind = "link"
    <3>1. Dist[b.rlfa][n] < Plus(Dist[root][b.rlfa], metric[b.link])
      BY <1>2, <1>4, <2>3 DEF GoodEnd
    <3>2. Dist[b.rlfa][n] < Dist[root][b.rlfa] + metric[b.link]
      BY <1>7, <3>1, BelowPlus
    <3>3. Dist[root][b.rlfa] <= Dist[b.rlfa][root]
      BY <1>3, <1>5, <1>6, <1>10, SymmetricBack
    <3>4. QED
      BY <1>7, <2>1, <3>2, <3>3
  <2>4. QED
    BY <1>3, <2>2, <2>3 DEF Backups
<1>11. QED
  BY <1>6, <1>9, <1>10

LEMMA IsPqNodesInQSpace ==
  ASSUME BackupInv
  PROVE  PqNodesInQSpace
<1>1. SUFFICES ASSUME FullBuilt, Paired, NEW n \in Dest, NEW b \in backup[n], IsTunnel(b),
                      Dst[b.link] \notin overload
               PROVE  ~VisitsLink(Dist, b.rlfa, Dst[b.link], b.link)
  BY ReferenceIs DEF PqNodesInQSpace, Destinations, Dest
<1> DEFINE far == FarEnd(b)
           p == b.rlfa
<1>2. BuiltInv
  BY <1>1 DEF BuiltInv
<1>3. Types /\ root \in Node \ overload
  BY <1>1, <1>2, BuiltFacts
<1>4. /\ b.link \in Edge /\ Src[b.link] = root /\ far \in Node \ overload
      /\ Dst[b.link] = far /\ p \in Node \ overload
      /\ Back[far][p] < Back[root][p] + Back[far][root]
  BY <1>1, <1>2, TunnelOutOfRoot DEF FarEnd
<1> HIDE DEF far, p
<1>5. /\ Dist[p][far] <= Back[far][p]
      /\ Back[root][p] <= Dist[p][root]
      /\ Back[far][root] <= Dist[root][far]
  BY <1>1, <1>3, <1>4, InverseBack
<1>6. /\ Dist[p][far] \in Nat /\ Dist[p][root] \in Nat /\ Dist[root][far] \in Nat
      /\ Back[far][p] \in Nat /\ Back[root][p] \in Nat /\ Back[far][root] \in Nat
      /\ Dist[far][far] \in Nat /\ metric[b.link] \in Nat
  BY <1>3, <1>4, DistIs DEF Types, ConfOK
<1>7. Dist[root][root] = 0
  BY <1>3, DistIs, DistanceFacts DEF Types, ConfOK
<1>8. SUFFICES ASSUME b.link \in Usable,
                      Dist[p][root] + metric[b.link] + Dist[far][far] = Dist[p][far]
               PROVE  FALSE
  BY <1>4 DEF VisitsLink, p
<1>9. Dist[root][far] <= Dist[root][root] + metric[b.link]
  BY <1>3, <1>4, <1>8, NotOverlookedLink
<1>10. QED
  BY <1>4, <1>5, <1>6, <1>7, <1>8, <1>9

\* Traffic given to a backup meets neither the protected link again nor the
\* routers the backup protects against: after each full run of spf_computation,
\* for the alternates of compute_lfa and for both halves of the tunnels of
\* p2p_filter_select_pq_nodes_from_ex_pspace.
THEOREM BackupsKeepTheirPromise == Spec => []BackupsProtect
<1>1. Init => BackupInv
  BY BackupInvInit
<1>2. BackupInv /\ [Next]_vars => BackupInv'
  BY BackupInvStep
<1>3. BackupInv => BackupsProtect
  BY IsAlternatesLoopFree, IsNodeKindAvoidsNextHops, IsTunnelsAvoidLink, IsPqNodesInQSpace
     DEF BackupsProtect
<1>4. QED
  BY <1>1, <1>2, <1>3, PTL DEF Spec


LEMMA IsBackupsOfRoot ==
  ASSUME BackupInv
  PROVE  BackupsOfRoot
<1>1. SUFFICES ASSUME FullBuilt, NEW n \in Dest, NEW b \in backup[n]
               PROVE  OfRoot(b)
  BY ReferenceIs DEF BackupsOfRoot, Destinations, Dest, OfRoot
<1>2. BuiltInv
  BY <1>1 DEF BuiltInv
<1>3. QED
  BY <1>1, <1>2, BuiltFacts DEF Good

LEMMA IsNoLinkBackupForEcmp ==
  ASSUME BackupInv
  PROVE  NoLinkBackupForEcmp
<1>1. SUFFICES ASSUME Sound, NEW n \in Dest, Mandatory(results, n), NEW b \in backup[n]
               PROVE  b.kind = "node"
  BY ReferenceIs DEF NoLinkBackupForEcmp, Destinations, Dest
<1>2. BuiltInv /\ Calm
  BY <1>1 DEF Sound, BuiltInv, Calm
<1>3. Good(n, b) /\ results[root] = Runs[root]
  BY <1>1, <1>2, BuiltFacts
<1>4. QED
  BY <1>1, <1>2, <1>3 DEF Good, Mandatory

\* A next hop that avoids another one has no shortest path through it.
LEMMA NotThrough ==
  ASSUME Types, NEW n \in Node, NEW g, NEW h, g.node \in Node, h.node \in Node,
         Avoids(n, g, h), VisitsNode(Dist, g.node, n, h.node)
  PROVE  h.node = n /\ n \in overload
<1>1. CASE h.node \in overload
  BY <1>1, NotVisited
<1>2. CASE g.node \in overload /\ h.node \notin overload
  <2>1. metric \in [Edge -> Nat]
    BY DEF Types, ConfOK
  <2>2. Dist[g.node][n] < Inf /\ Dist[g.node][h.node] + Dist[h.node][n] = Dist[g.node][n]
    BY DEF VisitsNode
  <2>3. /\ Dist[g.node][n] \in Nat /\ Dist[g.node][h.node] \in Nat
        /\ Dist[h.node][n] \in Nat /\ Inf \in Nat
    BY DistIs, BackupConstants
  <2>4. \A x \in Node : Dist[g.node][x] < Inf => x = g.node
    <3>1. \A x \in Node \ {g.node} : Dist[g.node][x] = Inf
      BY <1>2, <2>1, DistIs, Overloaded
    <3>2. QED
      BY <2>3, <3>1
  <2>5. Dist[g.node][h.node] < Inf
    BY <2>2, <2>3
  <2>6. QED
    BY <1>2, <2>4, <2>5
<1>3. CASE g.node \notin overload /\ h.node \notin overload
  BY <1>3, NotVisited DEF Avoids
<1>4. QED
  BY <1>1, <1>2, <1>3

LEMMA IsUnprotectedSurvives ==
  ASSUME BackupInv
  PROVE  UnprotectedSurvives
<1> DEFINE through(g, h, n) == /\ VisitsNode(Dist, g.node, n, h.node)
                               /\ ~(h.node = n /\ n \in overload)
<1>1. SUFFICES ASSUME FullBuilt, "remote" \notin options[root], NEW n \in noNeed
               PROVE  /\ backup[n] = {}
                      /\ Lsp = {} => \E g, h \in results[root].hops[n] :
                           g # h /\ ~through(g, h, n) /\ ~through(h, g, n)
  BY ReferenceIs DEF UnprotectedSurvives
<1>2. BuiltInv /\ Calm
  BY <1>1 DEF BuiltInv, Calm
<1>3. Types /\ Running /\ root \in Node /\ results[root] = Runs[root]
  BY <1>2, BuiltFacts
<1>4. n \in Node /\ backup[n] = {} /\ (Lsp = {} => Survives(n))
  BY <1>1, <1>3 DEF BackupInv, NoNeedInv
<1>5. ASSUME Lsp = {}
      PROVE  \E g, h \in results[root].hops[n] :
               g # h /\ ~through(g, h, n) /\ ~through(h, g, n)
  <2>1. PICK g, h \in Runs[root].hops[n] : g # h /\ Avoids(n, g, h) /\ Avoids(n, h, g)
    BY <1>4, <1>5 DEF Survives
  <2>2. g.node \in Node /\ h.node \in Node
    BY <1>3, <1>4, <2>1, DistIs, NeighbourFacts
  <2>3. ~through(g, h, n) /\ ~through(h, g, n)
    BY <1>3, <1>4, <2>1, <2>2, NotThrough
  <2>4. QED
    BY <1>3, <2>1, <2>3
<1>6. QED
  BY <1>4, <1>5

\* The routes of a full run hold only backups of the router it is rooted at, for
\* its own links; a destination is left without backups for its independent next
\* hops only if two of them do not reach it through one another; and one with
\* several next hops gets no backup that protects links only.
THEOREM BackupsWhereTheyBelong == Spec => []BackupsOfEachDestination
<1>1. Init => BackupInv
  BY BackupInvInit
<1>2. BackupInv /\ [Next]_vars => BackupInv'
  BY BackupInvStep
<1>3. BackupInv => BackupsOfEachDestination
  BY IsBackupsOfRoot, IsUnprotectedSurvives, IsNoLinkBackupForEcmp
     DEF BackupsOfEachDestination
<1>4. QED
  BY <1>1, <1>2, <1>3, PTL DEF Spec
=============================================================================
