------------------------- MODULE CandidateQueueProofs -------------------------
(***************************************************************************)
(* The nodes a Dijkstra run takes from the queue of candidates are final,  *)
(* for every set of nodes and all distances.                               *)
(***************************************************************************)
EXTENDS CandidateQueue, SequenceLemmas, SequenceTheorems, TLAPS

-----------------------------------------------------------------------------
(* The invariant.                                                          *)

\* The nodes of a sequence.
LEMMA InRange ==
  ASSUME NEW s
  PROVE  /\ \A i \in DOMAIN s : s[i] \in Range(s)
         /\ \A x \in Range(s) : \E i \in DOMAIN s : s[i] = x
BY DEF Range

\* Without node n the candidates keep their order, and n is not one of them.
LEMMA WithoutFacts ==
  ASSUME TypeOK, NoRepeats, NearestFirst, NEW n \in Node, NEW rest \in Without(n)
  PROVE  /\ rest \in Seq(Node)
         /\ \A i, j \in 1..Len(rest) : i < j => key[rest[i]] <= key[rest[j]]
         /\ \A i, j \in 1..Len(rest) : rest[i] = rest[j] => i = j
         /\ \A i \in 1..Len(rest) : rest[i] # n /\ rest[i] \in Range(items)
         /\ \A x \in Range(items) : x = n \/ \E i \in 1..Len(rest) : rest[i] = x
<1>0. /\ items \in Seq(Node) /\ DOMAIN items = 1..Len(items) /\ Len(items) \in Nat
  BY LenProperties DEF TypeOK
<1>1. CASE n \notin Range(items)
  <2>1. rest = items
    BY <1>1 DEF Without
  <2> QED BY <1>0, <1>1, <2>1, InRange DEF NoRepeats, NearestFirst
<1>2. CASE n \in Range(items)
  <2>1. PICK h \in 1..Len(items) : items[h] = n /\ rest = RemoveAt(items, h)
    BY <1>0, <1>2 DEF Without
  <2>2. PICK m \in Nat : Len(items) = m
    BY <1>0
  <2>3. /\ rest \in Seq(Node) /\ Len(rest) = m - 1
        /\ \A j \in 1..(m - 1) : rest[j] = IF j < h THEN items[j] ELSE items[j + 1]
    BY <1>0, <2>1, <2>2, RemoveAtFacts
  <2> DEFINE at(j) == IF j < h THEN j ELSE j + 1
  <2>4. \A j \in 1..(m - 1) : at(j) \in 1..m /\ at(j) # h /\ rest[j] = items[at(j)]
    BY <2>1, <2>2, <2>3
  <2>5. \A i, j \in 1..(m - 1) : (i < j => at(i) < at(j)) /\ (at(i) = at(j) => i = j)
    BY <2>1, <2>2
  <2>6. \A g \in 1..m : g = h \/ \E j \in 1..(m - 1) : at(j) = g
    <3> TAKE g \in 1..m
    <3>1. CASE g < h
      <4>1. g \in 1..(m - 1) /\ at(g) = g
        BY <2>1, <2>2, <3>1
      <4> QED BY <4>1
    <3>2. CASE g > h
      <4>1. g - 1 \in 1..(m - 1) /\ at(g - 1) = g
        BY <2>1, <2>2, <3>2
      <4> QED BY <4>1
    <3> QED BY <2>1, <2>2, <3>1, <3>2
  <2> HIDE DEF at
  <2>7. \A i, j \in 1..(m - 1) : i < j => key[rest[i]] <= key[rest[j]]
    BY <1>0, <2>2, <2>4, <2>5 DEF NearestFirst
  <2>8. \A i, j \in 1..(m - 1) : rest[i] = rest[j] => i = j
    BY <1>0, <2>2, <2>4, <2>5 DEF NoRepeats
  <2>9. \A i \in 1..(m - 1) : rest[i] # n /\ rest[i] \in Range(items)
    BY <1>0, <2>1, <2>2, <2>4, InRange DEF NoRepeats
  <2>10. \A x \in Range(items) : x = n \/ \E i \in 1..(m - 1) : rest[i] = x
    <3> TAKE x \in Range(items)
    <3>1. PICK g \in 1..m : items[g] = x
      BY <1>0, <2>2, InRange
    <3>2. CASE g = h
      BY <2>1, <3>1, <3>2
    <3>3. CASE g # h
      <4>1. PICK j \in 1..(m - 1) : at(j) = g
        BY <2>6, <3>3
      <4>2. rest[j] = x
        BY <2>4, <3>1, <4>1
      <4> QED BY <4>2
    <3> QED BY <3>2, <3>3
  <2> QED BY <2>3, <2>7, <2>8, <2>9, <2>10
<1> QED BY <1>1, <1>2

LEMMA InvInit == Init => Inv
<1> SUFFICES ASSUME Init PROVE Inv
  OBVIOUS
<1>1. items = <<>> /\ items \in Seq(Node) /\ DOMAIN items = {}
  BY EmptySeq DEF Init
<1> QED BY <1>1, QueueConstants DEF Init, Inv, TypeOK, NoRepeats, NearestFirst, TakenNear

\* A run starts with one candidate.
LEMMA StartKeeps ==
  ASSUME Inv, NEW r \in Node, Start(r)
  PROVE  Inv'
<1>1. /\ items' = <<r>> /\ items' \in Seq(Node) /\ DOMAIN items' = {1} /\ items'[1] = r
  BY DEF Start
<1>2. TypeOK'
  BY <1>1, QueueConstants DEF Start, TypeOK
<1>3. NoRepeats'
  BY <1>1 DEF NoRepeats
<1>4. NearestFirst'
  BY <1>1 DEF NearestFirst, Start
<1>5. TakenNear'
  <2>1. r \in Range(items')
    BY <1>1, InRange
  <2> QED BY <2>1 DEF TakenNear, Start
<1> QED BY <1>2, <1>3, <1>4, <1>5 DEF Inv

LEMMA ResetKeeps ==
  ASSUME Inv, NEW r \in Node, Reset(r)
  PROVE  Inv'
<1>1. items' = <<>> /\ items' \in Seq(Node) /\ DOMAIN items' = {}
  BY EmptySeq DEF Reset
<1> QED BY <1>1, QueueConstants DEF Reset, Inv, TypeOK, NoRepeats, NearestFirst, TakenNear

\* The first candidate is the nearest.
LEMMA PopKeeps ==
  ASSUME Inv, Pop
  PROVE  Inv'
<1>0. PICK m \in Nat : Len(items) = m
  BY LenProperties DEF Inv, TypeOK
<1>1. /\ items \in Seq(Node) /\ items # <<>> /\ DOMAIN items = 1..m /\ m > 0
      /\ key \in [Node -> 0..Inf]
  BY <1>0, LenProperties, EmptySeq DEF Inv, TypeOK, Pop
<1>2. /\ items' \in Seq(Node) /\ Len(items') = m - 1 /\ DOMAIN items' = 1..(m - 1)
      /\ \A j \in 1..(m - 1) : items'[j] = items[j + 1]
  BY <1>0, <1>1, HeadTailProperties, LenProperties DEF Pop
<1>3. cur' = items[1] /\ cur' \in Node /\ key' = key
  BY <1>0, <1>1, HeadTailProperties, ElementOfSeq DEF Pop
<1>4. TypeOK'
  BY <1>1, <1>2, <1>3 DEF TypeOK
<1>5. NoRepeats'
  <2> SUFFICES ASSUME NEW i \in 1..(m - 1), NEW j \in 1..(m - 1), items'[i] = items'[j]
               PROVE  i = j
    BY <1>2 DEF NoRepeats
  <2>1. i + 1 \in 1..m /\ j + 1 \in 1..m /\ items[i + 1] = items[j + 1]
    BY <1>2
  <2> QED BY <1>1, <2>1 DEF Inv, NoRepeats
<1>6. NearestFirst'
  <2>1. \A i \in 1..(m - 1) : i + 1 \in 1..m /\ 1 < i + 1
    OBVIOUS
  <2>2. \A i, j \in 1..(m - 1) : i < j => i + 1 < j + 1
    OBVIOUS
  <2>3. \A i, j \in 1..m : i < j => key[items[i]] <= key[items[j]]
    BY <1>1 DEF Inv, NearestFirst
  <2>4. 1 \in 1..m
    BY <1>1
  <2>5. \A i, j \in 1..(m - 1) : i < j => key'[items'[i]] <= key'[items'[j]]
    BY <1>2, <1>3, <2>1, <2>2, <2>3
  <2>6. \A i \in 1..(m - 1) : key'[cur'] <= key'[items'[i]]
    BY <1>2, <1>3, <2>1, <2>3, <2>4
  <2> QED BY <1>2, <2>5, <2>6 DEF NearestFirst
<1>7. TakenNear'
  <2> SUFFICES ASSUME NEW n \in Node, n \notin Range(items'), key[n] # Inf
               PROVE  key[n] <= key[cur']
    BY <1>3, QueueConstants DEF TakenNear
  <2>1. CASE n = cur'
    BY <1>1, <1>3, <2>1, QueueConstants
  <2>2. CASE n # cur'
    <3>1. n \notin Range(items)
      <4> SUFFICES ASSUME n \in Range(items) PROVE FALSE
        OBVIOUS
      <4>1. PICK i \in 1..m : items[i] = n
        BY <1>1, InRange
      <4>2. i - 1 \in 1..(m - 1) /\ (i - 1) + 1 = i
        BY <1>3, <2>2, <4>1
      <4>3. items'[i - 1] = n
        BY <1>2, <4>1, <4>2
      <4> QED BY <1>2, <4>2, <4>3, InRange
    <3>2. cur # Null /\ key[n] <= key[cur]
      BY <1>1, <3>1 DEF Inv, TakenNear
    <3>3. key[cur] <= key[cur']
      BY <1>1, <1>3, <3>2 DEF Inv, NearestFirst
    <3>4. cur \in Node
      BY <3>2 DEF Inv, TypeOK
    <3> QED BY <1>1, <1>3, <3>2, <3>3, <3>4, QueueConstants
  <2> QED BY <2>1, <2>2
<1> QED BY <1>4, <1>5, <1>6, <1>7 DEF Inv

\* A shorter distance moves one candidate, or adds one, and no other.
LEMMA LowerKeeps ==
  ASSUME Inv, NEW n \in Node, NEW k \in KeysOf[n], Lower(n, k)
  PROVE  Inv'
<1>0. /\ k \in 0..Inf /\ key \in [Node -> 0..Inf] /\ cur \in Node /\ cur' = cur
      /\ key[cur] <= k /\ k < key[n] /\ key' = [key EXCEPT ![n] = k]
      /\ n # cur
  <2>1. k \in 0..Inf
    BY QueueConstants
  <2>2. /\ key \in [Node -> 0..Inf] /\ cur \in Node /\ cur' = cur
        /\ key[cur] <= k /\ k < key[n] /\ key' = [key EXCEPT ![n] = k]
    BY DEF Inv, TypeOK, Lower
  <2> QED BY <2>1, <2>2, QueueConstants
<1>1. PICK rest \in Without(n) : \E i \in Places(rest, key', n) : items' = InsertAt(rest, i, n)
  BY DEF Lower
<1>2. PICK i \in Places(rest, key', n) : items' = InsertAt(rest, i, n)
  BY <1>1
<1>3. /\ rest \in Seq(Node)
      /\ \A a, b \in 1..Len(rest) : a < b => key[rest[a]] <= key[rest[b]]
      /\ \A a, b \in 1..Len(rest) : rest[a] = rest[b] => a = b
      /\ \A a \in 1..Len(rest) : rest[a] # n /\ rest[a] \in Range(items)
      /\ \A x \in Range(items) : x = n \/ \E a \in 1..Len(rest) : rest[a] = x
  BY <1>1, WithoutFacts DEF Inv
<1>4. PICK m \in Nat : Len(rest) = m
  BY <1>3, LenProperties
<1>5. /\ i \in 1..(m + 1)
      /\ \A a \in 1..(i - 1) : key'[rest[a]] < key'[n]
      /\ \A a \in i..m : key'[n] <= key'[rest[a]]
  BY <1>2, <1>4 DEF Places
<1>6. /\ items' \in Seq(Node) /\ Len(items') = m + 1
      /\ \A j \in 1..(m + 1) : items'[j] =
           IF j < i THEN rest[j] ELSE IF j = i THEN n ELSE rest[j - 1]
  <2>1. rest \in Seq(Node) /\ i \in 1..(Len(rest) + 1) /\ n \in Node
    BY <1>3, <1>4, <1>5
  <2> HIDE <1>3, <1>5
  <2>2. /\ InsertAt(rest, i, n) \in Seq(Node) /\ Len(InsertAt(rest, i, n)) = Len(rest) + 1
        /\ \A j \in 1..(Len(rest) + 1) : InsertAt(rest, i, n)[j] =
             IF j < i THEN rest[j] ELSE IF j = i THEN n ELSE rest[j - 1]
    BY <2>1, InsertAtFacts
  <2> QED BY <1>2, <1>4, <2>2
<1>7. DOMAIN items' = 1..(m + 1)
  BY <1>6, LenProperties
<1>8. /\ \A a \in 1..m : rest[a] \in Node /\ key'[rest[a]] = key[rest[a]]
      /\ key'[n] = k /\ key'[cur] = key[cur]
  BY <1>0, <1>3, <1>4, ElementOfSeq
\* The place in rest of the item at place j, which is not n.
<1> DEFINE old(j) == IF j < i THEN j ELSE j - 1
<1>9. \A j \in 1..(m + 1) : j = i \/ (old(j) \in 1..m /\ items'[j] = rest[old(j)])
  BY <1>5, <1>6
<1>10. items'[i] = n
  BY <1>5, <1>6
<1>11. \A a, b \in 1..(m + 1) : a # i /\ b # i =>
         (a < b => old(a) < old(b)) /\ (old(a) = old(b) => a = b)
  BY <1>5
<1>12. \A a \in 1..m : \E j \in 1..(m + 1) : j # i /\ old(j) = a
  <2> TAKE a \in 1..m
  <2>1. CASE a < i
    <3>1. a \in 1..(m + 1) /\ a # i /\ old(a) = a
      BY <2>1, <1>5
    <3> QED BY <3>1
  <2>2. CASE ~(a < i)
    <3>1. a + 1 \in 1..(m + 1) /\ a + 1 # i /\ old(a + 1) = a
      BY <2>2, <1>5
    <3> QED BY <3>1
  <2> QED BY <2>1, <2>2
<1>13. \A j \in 1..(m + 1) : /\ j < i => old(j) \in 1..(i - 1)
                             /\ j > i => old(j) \in i..m
  BY <1>5
<1> HIDE DEF old
<1>14. TypeOK'
  BY <1>0, <1>6, QueueConstants DEF TypeOK
<1>15. NoRepeats'
  <2> SUFFICES ASSUME NEW a \in 1..(m + 1), NEW b \in 1..(m + 1), items'[a] = items'[b]
               PROVE  a = b
    BY <1>7 DEF NoRepeats
  <2>1. CASE a # i /\ b # i
    BY <1>3, <1>4, <1>9, <1>11, <2>1
  <2>2. CASE a = i \/ b = i
    BY <1>3, <1>4, <1>9, <1>10, <2>2
  <2> QED BY <2>1, <2>2
<1>16. NearestFirst'
  <2>1. ASSUME NEW a \in 1..(m + 1), NEW b \in 1..(m + 1), a < b
        PROVE  key'[items'[a]] <= key'[items'[b]]
    <3>1. CASE a # i /\ b # i
      BY <1>3, <1>4, <1>8, <1>9, <1>11, <2>1, <3>1
    <3>2. CASE a = i
      <4>1. old(b) \in i..m /\ items'[b] = rest[old(b)]
        BY <1>5, <1>9, <1>13, <2>1, <3>2
      <4> QED BY <1>5, <1>10, <3>2, <4>1
    <3>3. CASE b = i
      <4>1. old(a) \in 1..(i - 1) /\ old(a) \in 1..m /\ items'[a] = rest[old(a)]
        BY <1>5, <1>9, <1>13, <2>1, <3>3
      <4>2. key'[rest[old(a)]] < key'[n]
        BY <1>5, <4>1
      <4>3. key'[rest[old(a)]] \in Nat /\ key'[n] \in Nat
        BY <1>0, <1>8, <4>1, QueueConstants
      <4> QED BY <1>10, <3>3, <4>1, <4>2, <4>3
    <3> QED BY <3>1, <3>2, <3>3
  <2>2. ASSUME NEW a \in 1..(m + 1) PROVE key'[cur'] <= key'[items'[a]]
    <3>1. CASE a = i
      BY <1>0, <1>8, <1>10, <3>1
    <3>2. CASE a # i
      <4>1. old(a) \in 1..m /\ items'[a] = rest[old(a)] /\ rest[old(a)] \in Range(items)
        BY <1>3, <1>4, <1>9, <3>2
      <4>2. key[cur] <= key[rest[old(a)]]
        <5>1. cur # Null
          BY <1>0, QueueConstants
        <5> QED BY <4>1, <5>1, InRange DEF Inv, NearestFirst
      <4> QED BY <1>0, <1>8, <4>1, <4>2
    <3> QED BY <3>1, <3>2
  <2> QED BY <1>7, <2>1, <2>2 DEF NearestFirst
<1>17. TakenNear'
  <2> SUFFICES ASSUME NEW x \in Node, x \notin Range(items'), key'[x] # Inf
               PROVE  cur' # Null /\ key'[x] <= key'[cur']
    BY DEF TakenNear
  <2>1. cur' # Null /\ cur # Null
    BY <1>0, QueueConstants
  <2>2. x # n
    BY <1>5, <1>7, <1>10, InRange
  <2>3. x \notin Range(items)
    <3> SUFFICES ASSUME x \in Range(items) PROVE FALSE
      OBVIOUS
    <3>1. PICK a \in 1..m : rest[a] = x
      BY <1>3, <1>4, <2>2
    <3>2. PICK j \in 1..(m + 1) : j # i /\ old(j) = a
      BY <1>12, <3>1
    <3>3. items'[j] = x
      BY <1>9, <3>1, <3>2
    <3> QED BY <1>7, <3>3, InRange
  <2>4. key'[x] = key[x]
    BY <1>0, <2>2
  <2>5. key[x] <= key[cur]
    BY <2>1, <2>3, <2>4 DEF Inv, TakenNear
  <2> QED BY <1>0, <1>8, <2>1, <2>4, <2>5
<1> QED BY <1>14, <1>15, <1>16, <1>17 DEF Inv

LEMMA InvNext == Inv /\ [Next]_vars => Inv'
<1> SUFFICES ASSUME Inv, [Next]_vars PROVE Inv'
  OBVIOUS
<1>1. CASE Pop
  BY <1>1, PopKeeps
<1>2. ASSUME NEW n \in Node, Start(n) PROVE Inv'
  BY <1>2, StartKeeps
<1>3. ASSUME NEW n \in Node, Reset(n) PROVE Inv'
  BY <1>3, ResetKeeps
<1>4. ASSUME NEW n \in Node, NEW k \in KeysOf[n], Lower(n, k) PROVE Inv'
  BY <1>4, LowerKeeps
<1>5. CASE UNCHANGED vars
  BY <1>5 DEF vars, Inv, TypeOK, NoRepeats, NearestFirst, TakenNear
<1> QED BY <1>1, <1>2, <1>3, <1>4, <1>5 DEF Next

\* On every set of nodes the candidates are in the order of their distances, and no
\* node that was taken is farther than the node in work (run_dijkastra, the order in
\* which the candidate tree gives the nodes out).
THEOREM QueueInvariant == Spec => []Inv
<1>1. Init => Inv
  BY InvInit
<1>2. Inv /\ [Next]_vars => Inv'
  BY InvNext
<1> QED BY <1>1, <1>2, PTL DEF Spec

\* The distance of a node a run has taken never changes again in that run: the loop
\* of run_dijkastra may record it when it takes the node.
THEOREM QueueTakenFinal == Spec => TakenFinal
<1> DEFINE Final == cur' # Null =>
      \A n \in Node \ Range(items) : key[n] # Inf => key'[n] = key[n]
<1>1. Inv /\ [Next]_vars => [Final]_vars
  <2> SUFFICES ASSUME Inv, [Next]_vars, cur' # Null,
                      NEW n \in Node, n \notin Range(items), key[n] # Inf
               PROVE  key'[n] = key[n]
    OBVIOUS
  <2>1. CASE Pop
    BY <2>1 DEF Pop
  <2>2. ASSUME NEW r \in Node, Start(r) \/ Reset(r) PROVE FALSE
    BY <2>2 DEF Start, Reset
  <2>3. ASSUME NEW r \in Node, NEW k \in KeysOf[r], Lower(r, k) PROVE key'[n] = key[n]
    <3>1. /\ cur \in Node /\ key \in [Node -> 0..Inf] /\ k \in 0..Inf
          /\ key[cur] <= k /\ k < key[r] /\ key' = [key EXCEPT ![r] = k]
      BY <2>3, QueueConstants DEF Inv, TypeOK, Lower
    <3>2. key[n] <= key[cur]
      BY <3>1, QueueConstants DEF Inv, TakenNear
    <3>3. n # r
      BY <3>1, <3>2, QueueConstants
    <3> QED BY <3>1, <3>3
  <2>4. CASE UNCHANGED vars
    BY <2>4 DEF vars
  <2> QED BY <2>1, <2>2, <2>3, <2>4 DEF Next
<1> QED BY <1>1, QueueInvariant, PTL DEF Spec, TakenFinal
=============================================================================
