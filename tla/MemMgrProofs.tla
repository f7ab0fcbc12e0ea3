----------------------------- MODULE MemMgrProofs -----------------------------
(***************************************************************************)
(* The allocator keeps its blocks, free lists and pages in agreement, for  *)
(* every set of structure types, pages and sizes.                          *)
(***************************************************************************)
EXTENDS MemMgr, SequenceLemmas

-----------------------------------------------------------------------------
(* Chains of blocks, whatever list and page they belong to.                *)

ChainType(B) == DOMAIN B \subseteq Block /\ \A b \in DOMAIN B : B[b] \in BlockType

Chain(B) == ChainType(B) /\ ChainOK(B)

LEMMA BlockPair ==
  /\ \A b \in Block : b[1] \in Page /\ b[2] \in Nat
  /\ \A b, c \in Block : b[1] = c[1] /\ b[2] = c[2] => b = c
  /\ None \notin Block
BY MemConstants DEF Block

\* A block is the lower neighbour of its upper neighbour and the other way around,
\* and no block is between them.
LEMMA Neighbours ==
  ASSUME NEW B, Chain(B), NEW b \in DOMAIN B
  PROVE  /\ B[b].next # None => /\ B[b].next \in DOMAIN B
                                /\ B[B[b].next].prev = b
         /\ B[b].prev # None => /\ B[b].prev \in DOMAIN B
                                /\ B[B[b].prev].next = b
<1>1. ASSUME B[b].next # None PROVE B[b].next \in DOMAIN B /\ B[B[b].next].prev = b
  <2> DEFINE n == B[b].next
             q == B[n].prev
  <2>1. /\ n \in DOMAIN B /\ n[1] = b[1] /\ b[2] < n[2] /\ n \in Block /\ b \in Block
    BY <1>1 DEF Chain, ChainType, ChainOK
  <2>2. q # None /\ b[2] <= q[2]
    BY <2>1 DEF Chain, ChainOK
  <2>3. q \in DOMAIN B /\ q[1] = n[1] /\ q[2] < n[2] /\ q \in Block
    BY <2>1, <2>2 DEF Chain, ChainType, ChainOK
  <2>4. ~(b[2] < q[2])
    <3>1. SUFFICES ASSUME b[2] < q[2] PROVE FALSE
      OBVIOUS
    <3>2. n[2] <= q[2]
      BY <2>1, <2>3, <3>1 DEF Chain, ChainOK
    <3> QED BY <2>1, <2>3, <3>2, BlockPair
  <2>5. b[2] = q[2]
    BY <2>1, <2>2, <2>3, <2>4, BlockPair
  <2> QED BY <2>1, <2>3, <2>5, BlockPair
<1>2. ASSUME B[b].prev # None PROVE B[b].prev \in DOMAIN B /\ B[B[b].prev].next = b
  <2> DEFINE q == B[b].prev
             n == B[q].next
  <2>1. /\ q \in DOMAIN B /\ q[1] = b[1] /\ q[2] < b[2] /\ q \in Block /\ b \in Block
    BY <1>2 DEF Chain, ChainType, ChainOK
  <2>2. n # None /\ n[2] <= b[2]
    BY <2>1 DEF Chain, ChainOK
  <2>3. n \in DOMAIN B /\ n[1] = q[1] /\ q[2] < n[2] /\ n \in Block
    BY <2>1, <2>2 DEF Chain, ChainType, ChainOK
  <2>4. ~(n[2] < b[2])
    <3>1. SUFFICES ASSUME n[2] < b[2] PROVE FALSE
      OBVIOUS
    <3>2. n[2] <= q[2]
      BY <2>1, <2>3, <3>1 DEF Chain, ChainOK
    <3> QED BY <2>1, <2>3, <3>2, BlockPair
  <2>5. b[2] = n[2]
    BY <2>1, <2>2, <2>3, <2>4, BlockPair
  <2> QED BY <2>1, <2>3, <2>5, BlockPair
<1> QED BY <1>1, <1>2

\* What is linked lies on the same page, and the type of a block.
LEMMA BlockFacts ==
  ASSUME NEW B, Chain(B), NEW b \in DOMAIN B
  PROVE  /\ b \in Block /\ b[1] \in Page /\ b[2] \in Nat
         /\ B[b].free \in BOOLEAN /\ B[b].size \in 0..PageEnd
         /\ B[b].prev \in Block \cup {None} /\ B[b].next \in Block \cup {None}
         /\ B[b] = [free |-> B[b].free, size |-> B[b].size, prev |-> B[b].prev,
                    next |-> B[b].next]
         /\ b[2] + Meta + B[b].size <= PageEnd
BY BlockPair DEF Chain, ChainType, ChainOK, BlockType, DataEnd

\* Freeing a block makes it reach up to the next one; the links stay.
LEMMA FreeingFacts ==
  ASSUME NEW B, Chain(B), NEW b \in DOMAIN B
  PROVE  /\ Chain(Freeing(B, b)) /\ DOMAIN Freeing(B, b) = DOMAIN B
         /\ \A x \in DOMAIN B \ {b} : Freeing(B, b)[x] = B[x]
         /\ Freeing(B, b)[b].free
         /\ Freeing(B, b)[b].next = B[b].next /\ Freeing(B, b)[b].prev = B[b].prev
<1> DEFINE F == Freeing(B, b)
           end == IF B[b].next = None THEN PageEnd ELSE B[b].next[2]
<1>1. /\ DOMAIN F = DOMAIN B /\ \A x \in DOMAIN B \ {b} : F[x] = B[x]
      /\ F[b] = [free |-> TRUE, size |-> end - b[2] - Meta, prev |-> B[b].prev,
                 next |-> B[b].next]
  <2>1. F = [B EXCEPT ![b] = [B[b] EXCEPT !.free = TRUE, !.size = end - b[2] - Meta]]
    BY DEF Freeing
  <2>2. F[b] = [B[b] EXCEPT !.free = TRUE, !.size = end - b[2] - Meta]
    BY <2>1
  <2>3. B[b] \in BlockType
    BY DEF Chain, ChainType
  <2>4. F[b] = [free |-> TRUE, size |-> end - b[2] - Meta, prev |-> B[b].prev,
                next |-> B[b].next]
    BY <2>2, <2>3 DEF BlockType
  <2> QED BY <2>1, <2>4
<1>2. end \in Nat /\ b[2] + Meta + B[b].size <= end /\ end <= PageEnd
  <2>1. CASE B[b].next = None
    BY <2>1, BlockFacts, MemConstants
  <2>2. CASE B[b].next # None
    <3>1. /\ B[b].next \in DOMAIN B /\ B[b].next[1] = b[1] /\ b[2] < B[b].next[2]
      BY <2>2 DEF Chain, ChainOK
    <3>2. b[2] + Meta + B[b].size <= B[b].next[2]
      BY <3>1 DEF Chain, ChainOK, DataEnd
    <3>3. B[b].next[2] \in Nat /\ B[b].next[2] <= PageEnd
      BY <3>1, BlockFacts, MemConstants
    <3> QED BY <2>2, <3>2, <3>3
  <2> QED BY <2>1, <2>2
<1>3. end - b[2] - Meta \in 0..PageEnd
  BY <1>2, BlockFacts, MemConstants
<1>4. DataEnd(F, b) = end /\ \A x \in DOMAIN B \ {b} : DataEnd(F, x) = DataEnd(B, x)
  BY <1>1, <1>2, <1>3, BlockFacts, MemConstants DEF DataEnd
<1>5. \A c \in DOMAIN B : c[1] = b[1] /\ b[2] < c[2] => end <= c[2]
  BY BlockFacts DEF Chain, ChainOK
<1> HIDE DEF F, end
<1>6. ChainType(F)
  <2>1. B[b].prev \in Block \cup {None} /\ B[b].next \in Block \cup {None}
    BY BlockFacts
  <2>2. F[b] \in BlockType
    BY <1>1, <1>3, <2>1 DEF BlockType
  <2> QED BY <1>1, <2>2 DEF Chain, ChainType
<1>7. /\ \A x \in DOMAIN B : F[x].next = B[x].next /\ F[x].prev = B[x].prev
      /\ DataEnd(F, b) = end
  BY <1>1, <1>4
<1>8. ChainOK(F)
  <2> SUFFICES ASSUME NEW x \in DOMAIN B
               PROVE  /\ DataEnd(F, x) <= PageEnd
                      /\ \A c \in DOMAIN B : c[1] = x[1] /\ x[2] < c[2] => DataEnd(F, x) <= c[2]
    BY <1>1, <1>7 DEF Chain, ChainOK
  <2>1. CASE x = b
    BY <1>2, <1>5, <1>7, <2>1
  <2>2. CASE x # b
    BY <1>4, <2>2 DEF Chain, ChainOK
  <2> QED BY <2>1, <2>2
<1> QED BY <1>1, <1>6, <1>8 DEF Chain, F

\* The blocks when n, the one above b, has become a part of b.
Joined(B, b, n) ==
  /\ Chain(Union(B, b, n)) /\ DOMAIN Union(B, b, n) = DOMAIN B \ {n}
  /\ n \in DOMAIN B /\ n # b /\ n[1] = b[1] /\ n[2] > 0 /\ B[n].prev = b
  /\ \A x \in DOMAIN B \ {n} :
       /\ Union(B, b, n)[x].free = B[x].free /\ Union(B, b, n)[x].size = B[x].size
       /\ Union(B, b, n)[x].next = IF x = b THEN B[n].next ELSE B[x].next
       /\ x # B[n].next => Union(B, b, n)[x].prev = B[x].prev
  /\ B[n].next # b /\ B[n].next # n

\* Merging a block with the one above it links it with what is above that.
LEMMA UnionFacts ==
  ASSUME NEW B, Chain(B), NEW b \in DOMAIN B, NEW n, n # None, n = B[b].next
  PROVE  Joined(B, b, n)
<1> DEFINE U == Union(B, b, n)
           m == B[n].next
<1>1. /\ n \in DOMAIN B /\ n[1] = b[1] /\ b[2] < n[2] /\ B[n].prev = b
      /\ n[2] \in Nat /\ b[2] \in Nat /\ b \in Block /\ n \in Block
  BY Neighbours, BlockFacts DEF Chain, ChainOK
<1>2. m # None => /\ m \in DOMAIN B /\ m[1] = n[1] /\ n[2] < m[2] /\ B[m].prev = n
                  /\ m[2] \in Nat
  BY <1>1, Neighbours, BlockFacts DEF Chain, ChainOK
<1>3. n # b /\ m # b /\ m # n /\ n[2] > 0
  BY <1>1, <1>2, BlockPair
<1>4. /\ DOMAIN U = DOMAIN B \ {n}
      /\ \A x \in DOMAIN B \ {n} :
           /\ U[x].free = B[x].free /\ U[x].size = B[x].size
           /\ U[x].next = IF x = b THEN m ELSE B[x].next
           /\ U[x].prev = IF x = m THEN b ELSE B[x].prev
           /\ U[x] \in BlockType
  <2> SUFFICES ASSUME NEW x \in DOMAIN B \ {n}
               PROVE  /\ U[x].free = B[x].free /\ U[x].size = B[x].size
                      /\ U[x].next = IF x = b THEN m ELSE B[x].next
                      /\ U[x].prev = IF x = m THEN b ELSE B[x].prev
                      /\ U[x] \in BlockType
    BY DEF Union
  <2>1. /\ m \in Block \cup {None} /\ B[x] \in BlockType
    BY <1>1, BlockFacts DEF Chain, ChainType
  <2>2. U[x] = IF x = b THEN [B[x] EXCEPT !.next = m]
               ELSE IF x = m THEN [B[x] EXCEPT !.prev = b] ELSE B[x]
    BY DEF Union
  <2> QED BY <1>1, <1>3, <2>1, <2>2 DEF BlockType
<1>5. \A x \in DOMAIN B : (B[x].next = n => x = b) /\ (B[x].prev = n => x = m)
  BY <1>1, Neighbours, BlockPair, BlockFacts
<1> HIDE DEF U
<1>6. ASSUME NEW x \in DOMAIN U
      PROVE  /\ DataEnd(U, x) <= PageEnd
             /\ U[x].next # None => /\ U[x].next \in DOMAIN U
                                    /\ U[x].next[1] = x[1] /\ x[2] < U[x].next[2]
             /\ U[x].prev # None => /\ U[x].prev \in DOMAIN U
                                    /\ U[x].prev[1] = x[1] /\ U[x].prev[2] < x[2]
  <2>1. x \in DOMAIN B /\ x # n /\ x[2] \in Nat
    BY <1>4, BlockFacts
  <2>2. DataEnd(U, x) = DataEnd(B, x) /\ DataEnd(B, x) <= PageEnd
    BY <1>4, <2>1 DEF DataEnd, Chain, ChainOK
  <2>3. U[x].next # None => /\ U[x].next \in DOMAIN U
                            /\ U[x].next[1] = x[1] /\ x[2] < U[x].next[2]
    <3>1. CASE x = b
      BY <1>1, <1>2, <1>3, <1>4, <2>1, <3>1
    <3>2. CASE x # b
      BY <1>4, <1>5, <2>1, <3>2 DEF Chain, ChainOK
    <3> QED BY <3>1, <3>2
  <2>4. U[x].prev # None => /\ U[x].prev \in DOMAIN U
                            /\ U[x].prev[1] = x[1] /\ U[x].prev[2] < x[2]
    <3>1. CASE x = m
      <4>1. U[x].prev = b /\ m # None /\ b # None
        BY <1>1, <1>4, <2>1, <3>1, BlockPair, BlockFacts
      <4> QED BY <1>1, <1>2, <1>3, <1>4, <3>1, <4>1
    <3>2. CASE x # m
      BY <1>4, <1>5, <2>1, <3>2 DEF Chain, ChainOK
    <3> QED BY <3>1, <3>2
  <2> QED BY <2>2, <2>3, <2>4
<1>7. ASSUME NEW x \in DOMAIN U, NEW c \in DOMAIN U, c[1] = x[1], x[2] < c[2]
      PROVE  /\ DataEnd(U, x) <= c[2]
             /\ U[x].next # None /\ U[x].next[2] <= c[2]
             /\ U[c].prev # None /\ x[2] <= U[c].prev[2]
  <2>1. /\ x \in DOMAIN B /\ x # n /\ c \in DOMAIN B /\ c # n
        /\ x \in Block /\ c \in Block
    BY <1>4, BlockFacts
  <2>2. /\ DataEnd(B, x) <= c[2] /\ B[x].next # None /\ B[x].next[2] <= c[2]
        /\ B[c].prev # None /\ x[2] <= B[c].prev[2]
    BY <1>7, <2>1 DEF Chain, ChainOK
  <2>3. DataEnd(U, x) <= c[2]
    BY <1>4, <2>1, <2>2 DEF DataEnd
  <2>4. U[x].next # None /\ U[x].next[2] <= c[2]
    <3>1. CASE x = b
      <4>1. n[2] < c[2] /\ c[1] = n[1]
        BY <1>1, <1>7, <2>1, <2>2, <3>1, BlockPair
      <4>2. m # None /\ m[2] <= c[2]
        BY <1>1, <2>1, <4>1 DEF Chain, ChainOK
      <4> QED BY <1>4, <2>1, <3>1, <4>2
    <3>2. CASE x # b
      BY <1>4, <2>1, <2>2, <3>2
    <3> QED BY <3>1, <3>2
  <2>5. U[c].prev # None /\ x[2] <= U[c].prev[2]
    <3>1. CASE c = m
      <4>1. m # None
        BY <2>1, <3>1, BlockPair
      <4>2. x[2] <= n[2] /\ x[1] = n[1]
        BY <1>2, <1>7, <2>2, <3>1, <4>1
      <4>3. x[2] < n[2]
        BY <1>1, <2>1, <4>2, BlockPair
      <4>4. x[2] <= b[2]
        BY <1>1, <2>1, <4>2, <4>3 DEF Chain, ChainOK
      <4> QED BY <1>1, <1>4, <2>1, <3>1, <4>4, BlockPair
    <3>2. CASE c # m
      BY <1>4, <2>1, <2>2, <3>2
    <3> QED BY <3>1, <3>2
  <2> QED BY <2>3, <2>4, <2>5
<1>8. Chain(U)
  <2>1. ChainType(U)
    BY <1>4 DEF Chain, ChainType
  <2>2. ChainOK(U)
    BY <1>6, <1>7 DEF ChainOK
  <2> QED BY <2>1, <2>2 DEF Chain
<1> QED BY <1>1, <1>3, <1>4, <1>8 DEF U, Joined

\* No two neighbours are both free.
Apart(B) == \A b \in DOMAIN B : B[b].free => ~IsFree(B, B[b].next)

\* S are the blocks B after the first size bytes of b have been taken.
Cut(B, b, size, S) ==
  /\ Chain(S) /\ Apart(S) /\ b \in DOMAIN S
  /\ ~S[b].free /\ S[b].size = size
  /\ \A x \in DOMAIN B \ {b} : S[x].free = B[x].free /\ S[x].size = B[x].size
  /\ ~Splits(B, b, size) => DOMAIN S = DOMAIN B
  /\ Splits(B, b, size) =>
       /\ DOMAIN S = DOMAIN B \cup {Rest(b, size)}
       /\ Rest(b, size) \notin DOMAIN B /\ Rest(b, size)[1] = b[1]
       /\ S[Rest(b, size)].free

\* Taking the first bytes of a free block: what is left, if anything, is a free
\* block of its own between the block and the next one.
LEMMA SplitFacts ==
  ASSUME NEW B, Chain(B), Apart(B), NEW b \in DOMAIN B, B[b].free,
         NEW size \in Nat, size <= B[b].size
  PROVE  Cut(B, b, size, Split(B, b, size))
<1> DEFINE S == Split(B, b, size)
           r == Rest(b, size)
           a == B[b].next
<1>1. /\ b \in Block /\ b[1] \in Page /\ b[2] \in Nat /\ B[b].size \in Nat
      /\ B[b].size <= PageEnd /\ Meta \in Nat /\ Meta > 0 /\ PageEnd \in Nat
      /\ b[2] + Meta + B[b].size <= PageEnd /\ B[b] \in BlockType
      /\ size \in 0..PageEnd
  BY BlockFacts, MemConstants DEF Chain, ChainType
<1>2. CASE ~Splits(B, b, size)
  <2>1. /\ DOMAIN S = DOMAIN B /\ \A x \in DOMAIN B \ {b} : S[x] = B[x]
        /\ S[b] = [B[b] EXCEPT !.free = FALSE, !.size = size]
    BY <1>2 DEF Split
  <2>2. /\ S[b].free = FALSE /\ S[b].size = size /\ S[b].next = a
        /\ S[b].prev = B[b].prev /\ S[b] \in BlockType
    BY <1>1, <2>1 DEF BlockType
  <2> HIDE DEF S
  <2>3. ChainType(S)
    BY <2>1, <2>2 DEF Chain, ChainType
  <2>4. /\ \A x \in DOMAIN B : S[x].next = B[x].next /\ S[x].prev = B[x].prev
        /\ \A x \in DOMAIN B : DataEnd(S, x) <= DataEnd(B, x)
        /\ \A x \in DOMAIN B : x[2] \in Nat /\ DataEnd(S, x) \in Nat /\ DataEnd(B, x) \in Nat
    <3> SUFFICES ASSUME NEW x \in DOMAIN B
                 PROVE  /\ S[x].next = B[x].next /\ S[x].prev = B[x].prev
                        /\ DataEnd(S, x) <= DataEnd(B, x)
                        /\ x[2] \in Nat /\ DataEnd(S, x) \in Nat /\ DataEnd(B, x) \in Nat
      OBVIOUS
    <3>1. CASE x = b
      <4>1. DataEnd(S, b) = b[2] + Meta + size /\ DataEnd(B, b) = b[2] + Meta + B[b].size
        BY <2>2 DEF DataEnd
      <4> QED BY <1>1, <2>2, <3>1, <4>1
    <3>2. CASE x # b
      BY <1>1, <2>1, <3>2, BlockFacts DEF DataEnd
    <3> QED BY <3>1, <3>2
  <2>5. \A x \in DOMAIN B : DataEnd(S, x) <= PageEnd
    BY <1>1, <2>4 DEF Chain, ChainOK
  <2>6. \A x, c \in DOMAIN B : c[1] = x[1] /\ x[2] < c[2] => DataEnd(S, x) <= c[2]
    BY <2>4 DEF Chain, ChainOK
  <2>7. ChainOK(S)
    BY <2>1, <2>4, <2>5, <2>6 DEF Chain, ChainOK
  <2>8. Apart(S)
    <3> SUFFICES ASSUME NEW x \in DOMAIN B, S[x].free, S[x].next # None
                 PROVE  ~S[S[x].next].free
      BY <2>1 DEF Apart, IsFree
    <3>1. x # b /\ B[x].free /\ S[x].next = B[x].next
      BY <2>1, <2>2
    <3>2. B[x].next \in DOMAIN B /\ ~B[B[x].next].free
      BY <3>1 DEF Chain, ChainOK, Apart, IsFree
    <3> QED BY <2>1, <2>2, <3>1, <3>2
  <2> QED BY <1>2, <2>1, <2>2, <2>3, <2>7, <2>8 DEF Chain, Cut, S
<1>3. CASE Splits(B, b, size)
  <2> DEFINE old == b[2] + Meta + B[b].size
  <2>1. /\ r = <<b[1], b[2] + Meta + size>> /\ r[1] = b[1] /\ r[2] = b[2] + Meta + size
        /\ r[2] \in Nat /\ b[2] < r[2] /\ r[2] + Meta <= old /\ r \in Block
        /\ B[b].size - size - Meta \in 0..PageEnd /\ r # b /\ r # None /\ old <= PageEnd
    BY <1>1, <1>3, BlockPair DEF Rest, Splits, Block
  <2>2. \A c \in DOMAIN B : c[1] = b[1] /\ b[2] < c[2] => old <= c[2]
    BY DEF Chain, ChainOK, DataEnd
  <2>3. r \notin DOMAIN B
    BY <1>1, <2>1, <2>2
  <2>4. a # None => /\ a \in DOMAIN B /\ a[1] = b[1] /\ b[2] < a[2] /\ B[a].prev = b
                    /\ a[2] \in Nat /\ a # b /\ old <= a[2] /\ a # r /\ ~B[a].free
    BY <2>2, <2>3, Neighbours, BlockFacts DEF Chain, ChainOK, Apart, IsFree
  <2>5. a # b /\ a # r /\ a \in Block \cup {None}
    BY <1>1, <2>1, <2>4, BlockPair, BlockFacts
  <2>6. /\ DOMAIN S = DOMAIN B \cup {r}
        /\ S[b] = [free |-> FALSE, size |-> size, prev |-> B[b].prev, next |-> r]
        /\ S[r] = [free |-> TRUE, size |-> B[b].size - size - Meta, prev |-> b, next |-> a]
        /\ \A x \in DOMAIN B \ {b} :
             S[x] = IF x = a THEN [B[x] EXCEPT !.prev = r] ELSE B[x]
    BY <1>3, <2>1, <2>3 DEF Split
  <2>7. \A x \in DOMAIN B \ {b} :
          /\ S[x].free = B[x].free /\ S[x].size = B[x].size /\ S[x].next = B[x].next
          /\ S[x].prev = IF x = a THEN r ELSE B[x].prev
          /\ S[x] \in BlockType
    <3> SUFFICES ASSUME NEW x \in DOMAIN B \ {b}
                 PROVE  /\ S[x].free = B[x].free /\ S[x].size = B[x].size
                        /\ S[x].next = B[x].next
                        /\ S[x].prev = IF x = a THEN r ELSE B[x].prev
                        /\ S[x] \in BlockType
      OBVIOUS
    <3>1. B[x] \in BlockType
      BY DEF Chain, ChainType
    <3>2. S[x] = IF x = a THEN [B[x] EXCEPT !.prev = r] ELSE B[x]
      BY <2>6
    <3> QED BY <2>1, <3>1, <3>2 DEF BlockType
  <2>8. /\ S[b].free = FALSE /\ S[b].size = size /\ S[b].next = r /\ S[b].prev = B[b].prev
        /\ S[r].free = TRUE /\ S[r].size = B[b].size - size - Meta
        /\ S[r].next = a /\ S[r].prev = b
    BY <2>6
  <2>9. S[b] \in BlockType /\ S[r] \in BlockType
    BY <1>1, <2>1, <2>5, <2>6, BlockFacts DEF BlockType
  <2>10. \A x \in DOMAIN B : /\ B[x].next = b => x = B[b].prev
                             /\ B[x].next = a /\ a # None => x = b
                             /\ B[x].prev = b => x = a
    BY <2>4, Neighbours, BlockPair, BlockFacts
  <2> HIDE DEF S, r
  <2>11. ChainType(S)
    <3>1. DOMAIN S \subseteq Block
      BY <2>1, <2>6 DEF Chain, ChainType
    <3> QED BY <2>6, <2>7, <2>9, <3>1 DEF ChainType
  <2>12. \A x \in DOMAIN S : DataEnd(S, x) <= PageEnd
    <3> SUFFICES ASSUME NEW x \in DOMAIN S PROVE DataEnd(S, x) <= PageEnd
      OBVIOUS
    <3>1. CASE x = b
      BY <1>1, <2>1, <2>8, <3>1 DEF DataEnd
    <3>2. CASE x = r
      BY <1>1, <2>1, <2>8, <3>2 DEF DataEnd
    <3>3. CASE x # b /\ x # r
      <4>1. x \in DOMAIN B \ {b} /\ DataEnd(B, x) <= PageEnd
        BY <2>6, <3>3 DEF Chain, ChainOK
      <4> QED BY <2>7, <4>1 DEF DataEnd
    <3> QED BY <3>1, <3>2, <3>3
  <2>13. \A x \in DOMAIN S :
           /\ S[x].next # None =>
                S[x].next \in DOMAIN S /\ S[x].next[1] = x[1] /\ x[2] < S[x].next[2]
           /\ S[x].prev # None =>
                S[x].prev \in DOMAIN S /\ S[x].prev[1] = x[1] /\ S[x].prev[2] < x[2]
    <3> SUFFICES ASSUME NEW x \in DOMAIN S
                 PROVE  /\ S[x].next # None => /\ S[x].next \in DOMAIN S
                                               /\ S[x].next[1] = x[1] /\ x[2] < S[x].next[2]
                        /\ S[x].prev # None => /\ S[x].prev \in DOMAIN S
                                               /\ S[x].prev[1] = x[1] /\ S[x].prev[2] < x[2]
      OBVIOUS
    <3>1. CASE x = b
      BY <2>1, <2>6, <2>8, <3>1 DEF Chain, ChainOK
    <3>2. CASE x = r
      BY <1>1, <2>1, <2>4, <2>6, <2>8, <3>2
    <3>3. CASE x # b /\ x # r
      <4>1. x \in DOMAIN B \ {b}
        BY <2>6, <3>3
      <4>2. CASE x = a
        <5>1. a # None
          BY <4>1, <4>2, BlockPair, BlockFacts
        <5> QED BY <1>1, <2>1, <2>4, <2>6, <2>7, <4>1, <4>2, <5>1 DEF Chain, ChainOK
      <4>3. CASE x # a
        BY <2>6, <2>7, <4>1, <4>3 DEF Chain, ChainOK
      <4> QED BY <4>2, <4>3
    <3> QED BY <3>1, <3>2, <3>3
  <2>14. \A x, c \in DOMAIN S : c[1] = x[1] /\ x[2] < c[2] =>
           /\ DataEnd(S, x) <= c[2]
           /\ S[x].next # None /\ S[x].next[2] <= c[2]
           /\ S[c].prev # None /\ x[2] <= S[c].prev[2]
    <3> SUFFICES ASSUME NEW x \in DOMAIN S, NEW c \in DOMAIN S, c[1] = x[1], x[2] < c[2]
                 PROVE  /\ DataEnd(S, x) <= c[2]
                        /\ S[x].next # None /\ S[x].next[2] <= c[2]
                        /\ S[c].prev # None /\ x[2] <= S[c].prev[2]
      OBVIOUS
    <3>1. CASE x \in DOMAIN B /\ c \in DOMAIN B
      <4>1. /\ DataEnd(B, x) <= c[2] /\ B[x].next # None /\ B[x].next[2] <= c[2]
            /\ B[c].prev # None /\ x[2] <= B[c].prev[2] /\ x[2] \in Nat /\ c[2] \in Nat
        BY <3>1, BlockFacts DEF Chain, ChainOK
      <4>2. DataEnd(S, x) <= c[2] /\ S[x].next # None /\ S[x].next[2] <= c[2]
        <5>1. CASE x = b
          BY <1>1, <2>1, <2>2, <2>8, <3>1, <4>1, <5>1 DEF DataEnd
        <5>2. CASE x # b
          BY <2>7, <3>1, <4>1, <5>2 DEF DataEnd
        <5> QED BY <5>1, <5>2
      <4>3. S[c].prev # None /\ x[2] <= S[c].prev[2]
        <5>1. CASE c = b
          BY <2>8, <4>1, <5>1
        <5>2. CASE c # b /\ c = a
          <6>1. a # None
            BY <3>1, <5>2, BlockPair, BlockFacts
          <6>2. x[2] <= b[2]
            BY <2>4, <4>1, <5>2, <6>1
          <6> QED BY <1>1, <2>1, <2>7, <3>1, <4>1, <5>2, <6>2
        <5>3. CASE c # b /\ c # a
          BY <2>7, <3>1, <4>1, <5>3
        <5> QED BY <5>1, <5>2, <5>3
      <4> QED BY <4>2, <4>3
    <3>2. CASE x = r
      <4>1. c \in DOMAIN B /\ c[1] = b[1] /\ c[2] \in Nat /\ b[2] < c[2] /\ c # b
        BY <1>1, <2>1, <2>6, <3>2, BlockFacts
      <4>2. a # None /\ a[2] <= c[2] /\ old <= c[2]
        BY <2>2, <4>1 DEF Chain, ChainOK
      <4>3. DataEnd(S, x) <= c[2]
        BY <1>1, <2>1, <2>8, <3>2, <4>2 DEF DataEnd
      <4>4. S[c].prev # None /\ r[2] <= S[c].prev[2]
        <5>1. CASE c = a
          BY <2>1, <2>7, <4>1, <5>1
        <5>2. CASE c # a
          <6>1. a[2] < c[2] /\ a[1] = c[1]
            BY <2>4, <4>1, <4>2, <5>2, BlockPair, BlockFacts
          <6>2. B[c].prev # None /\ a[2] <= B[c].prev[2]
            BY <2>4, <4>1, <4>2, <6>1 DEF Chain, ChainOK
          <6>3. B[c].prev[2] \in Nat
            BY <4>1, <6>2, BlockFacts DEF Chain, ChainOK
          <6> QED BY <1>1, <2>1, <2>4, <2>7, <4>1, <4>2, <5>2, <6>2, <6>3
        <5> QED BY <5>1, <5>2
      <4> QED BY <2>8, <3>2, <4>2, <4>3, <4>4
    <3>3. CASE x # r /\ c = r
      <4>1. x \in DOMAIN B /\ x[1] = b[1] /\ x[2] \in Nat
        BY <2>1, <2>6, <3>3, BlockFacts
      <4>2. x[2] <= b[2]
        <5>1. SUFFICES ASSUME b[2] < x[2] PROVE FALSE
          BY <1>1, <4>1
        <5> QED BY <1>1, <2>1, <2>2, <3>3, <4>1, <5>1
      <4>3. S[c].prev # None /\ x[2] <= S[c].prev[2]
        BY <1>1, <2>8, <3>3, <4>2, BlockPair
      <4>4. CASE x = b
        BY <1>1, <2>1, <2>8, <3>3, <4>3, <4>4 DEF DataEnd
      <4>5. CASE x # b
        <5>1. x[2] < b[2]
          BY <1>1, <4>1, <4>2, <4>5, BlockPair, BlockFacts
        <5>2. DataEnd(B, x) <= b[2] /\ B[x].next # None /\ B[x].next[2] <= b[2]
          BY <4>1, <5>1 DEF Chain, ChainOK
        <5>3. B[x].next[2] \in Nat /\ DataEnd(B, x) \in Nat
          BY <1>1, <4>1, <5>2, BlockFacts DEF Chain, ChainOK, DataEnd
        <5>4. DataEnd(S, x) = DataEnd(B, x) /\ S[x].next = B[x].next
          BY <2>7, <4>1, <4>5 DEF DataEnd
        <5> QED BY <1>1, <2>1, <3>3, <4>3, <5>2, <5>3, <5>4
      <4> QED BY <4>4, <4>5
    <3> QED BY <2>6, <3>1, <3>2, <3>3
  <2>15. Apart(S)
    <3> SUFFICES ASSUME NEW x \in DOMAIN S, S[x].free, S[x].next # None
                 PROVE  ~S[S[x].next].free
      BY DEF Apart, IsFree
    <3>1. CASE x = r
      BY <2>4, <2>7, <2>8, <3>1
    <3>2. CASE x # r
      <4>1. x \in DOMAIN B \ {b} /\ B[x].free /\ S[x].next = B[x].next
        BY <2>6, <2>7, <2>8, <3>2
      <4>2. B[x].next \in DOMAIN B /\ ~B[B[x].next].free
        BY <4>1 DEF Chain, ChainOK, Apart, IsFree
      <4> QED BY <2>7, <2>8, <4>1, <4>2
    <3> QED BY <3>1, <3>2
  <2>16. ChainOK(S)
    BY <2>12, <2>13, <2>14 DEF ChainOK
  <2>17. Chain(S)
    BY <2>11, <2>16 DEF Chain
  <2>18. Cut(B, b, size, S)
    BY <1>3, <2>1, <2>3, <2>6, <2>7, <2>8, <2>15, <2>17 DEF Cut, r
  <2> QED BY <2>18 DEF S
<1> QED BY <1>2, <1>3

\* The blocks after Free has merged b with its neighbours, and the block left.
After(B, b) == MergedPrev(MergedNext(Freeing(B, b), b), b)
Left(B, b) == Survivor(MergedNext(Freeing(B, b), b), b)

\* One free block l takes the place of b and its free neighbours; every other
\* block of M is as it was in B.
Coalesced(B, b, M, l) ==
  /\ Chain(M) /\ Apart(M)
  /\ l \in DOMAIN M /\ l[1] = b[1] /\ M[l].free /\ l \in {b, B[b].prev}
  /\ DOMAIN M \subseteq DOMAIN B
  /\ \A x \in DOMAIN M \ {l} :
       /\ M[x].free = B[x].free /\ M[x].size = B[x].size /\ x # b
       /\ B[x].free => x \notin {B[b].next, B[b].prev}
  /\ \A x \in DOMAIN B \ DOMAIN M :
       x[1] = b[1] /\ x[2] > 0 /\ x \in {b, B[b].next} /\ (x = b \/ B[x].free)

LEMMA MergeFacts ==
  ASSUME NEW B, Chain(B), Apart(B), NEW b \in DOMAIN B, ~B[b].free
  PROVE  Coalesced(B, b, After(B, b), Left(B, b))
<1>a. PICK W : W = MergedNext(Freeing(B, b), b)
  OBVIOUS
<1>b. PICK M : M = After(B, b)
  OBVIOUS
<1>c. PICK l : l = Left(B, b)
  OBVIOUS
<1>d. M = MergedPrev(W, b) /\ l = Survivor(W, b)
  BY <1>a, <1>b, <1>c DEF After, Left
<1> DEFINE F == Freeing(B, b)
           n == B[b].next
           q == B[b].prev
<1>1. /\ Chain(F) /\ DOMAIN F = DOMAIN B /\ \A x \in DOMAIN B \ {b} : F[x] = B[x]
      /\ F[b].free /\ F[b].next = n /\ F[b].prev = q
  BY FreeingFacts
<1>2. /\ n # None => /\ n \in DOMAIN B /\ n[1] = b[1] /\ b[2] < n[2]
                      /\ n # b /\ F[n].free = B[n].free /\ n[2] > 0
      /\ q # None => /\ q \in DOMAIN B /\ q[1] = b[1] /\ q[2] < b[2]
                      /\ q # b /\ q # n /\ B[q].next = b /\ b[2] > 0
      /\ b[2] \in Nat
  BY <1>1, BlockFacts, Neighbours DEF Chain, ChainOK
<1>3. /\ Chain(W) /\ b \in DOMAIN W /\ W[b].free /\ W[b].prev = q
      /\ DOMAIN W = IF IsFree(F, n) THEN DOMAIN B \ {n} ELSE DOMAIN B
      /\ \A x \in DOMAIN W \ {b} : /\ W[x].free = B[x].free /\ W[x].size = B[x].size
                                   /\ W[x].next = B[x].next
      /\ ~IsFree(W, W[b].next)
  <2>1. CASE IsFree(F, n)
    <3>1. n # None /\ F[b].next # None /\ B[n].free
      BY <1>1, <1>2, <2>1 DEF IsFree
    <3>2. W = Union(F, b, n)
      BY <1>a, <1>1, <2>1 DEF MergedNext
    <3>3. /\ Chain(W) /\ DOMAIN W = DOMAIN B \ {n} /\ F[n].next # b /\ F[n].next # n
          /\ \A x \in DOMAIN B \ {n} :
               /\ W[x].free = F[x].free /\ W[x].size = F[x].size
               /\ W[x].next = IF x = b THEN F[n].next ELSE F[x].next
               /\ x # F[n].next => W[x].prev = F[x].prev
      <4> HIDE DEF F, n
      <4>1. Joined(F, b, n)
        BY <1>1, <3>1, UnionFacts
      <4> QED BY <1>1, <3>2, <4>1 DEF Joined
    <3>4. F[n].next = B[n].next /\ ~IsFree(B, B[n].next)
      BY <1>1, <1>2, <3>1 DEF Apart
    <3>5. B[n].next # None => B[n].next \in DOMAIN B
      BY <1>2, <3>1 DEF Chain, ChainOK
    <3>6. ~IsFree(W, W[b].next)
      <4>1. W[b].next = B[n].next
        BY <1>2, <3>1, <3>3, <3>4
      <4>2. B[n].next # None => W[B[n].next].free = B[B[n].next].free
        BY <1>1, <3>3, <3>4, <3>5
      <4> QED BY <3>4, <4>1, <4>2 DEF IsFree
    <3> QED BY <1>1, <1>2, <2>1, <3>1, <3>3, <3>4, <3>6
  <2>2. CASE ~IsFree(F, n)
    <3>1. W = F
      BY <1>a, <1>1, <2>2 DEF MergedNext
    <3> QED BY <1>1, <2>2, <3>1
  <2> QED BY <2>1, <2>2
<1>4. IsFree(W, q) <=> q # None /\ B[q].free
  BY <1>2, <1>3 DEF IsFree
<1>5. ASSUME NEW x \in DOMAIN B PROVE x \in DOMAIN W \/ (x = n /\ n # None /\ B[n].free)
  BY <1>2, <1>3 DEF IsFree
<1>6. \A x \in DOMAIN W \ {b} : W[x].free => x # n
  BY <1>1, <1>2, <1>3, BlockPair, BlockFacts DEF IsFree
<1>7. \A x \in DOMAIN W \ {b} : W[x].free /\ W[x].next # b => ~IsFree(W, W[x].next)
  <2> SUFFICES ASSUME NEW x \in DOMAIN W \ {b}, W[x].free, W[x].next # b
               PROVE  ~IsFree(W, W[x].next)
    OBVIOUS
  <2>1. x \in DOMAIN B /\ B[x].free /\ W[x].next = B[x].next /\ ~IsFree(B, B[x].next)
    BY <1>3 DEF Apart
  <2>2. W[x].next # None => W[x].next \in DOMAIN W
    BY <1>3 DEF Chain, ChainOK
  <2> QED BY <1>3, <2>1, <2>2 DEF IsFree
<1>8. CASE ~IsFree(W, q)
  <2>1. M = W /\ l = b
    BY <1>d, <1>3, <1>8 DEF MergedPrev, Survivor
  <2>2. Apart(M)
    <3> SUFFICES ASSUME NEW x \in DOMAIN W, W[x].free PROVE ~IsFree(W, W[x].next)
      BY <2>1 DEF Apart
    <3>1. CASE x = b
      BY <1>3, <3>1
    <3>2. CASE x # b
      <4>1. W[x].next # b
        BY <1>3, <1>4, <1>8, <3>2, BlockPair, BlockFacts, Neighbours
      <4> QED BY <1>7, <3>2, <4>1
    <3> QED BY <3>1, <3>2
  <2>3. \A x \in DOMAIN M \ {l} : B[x].free => x # n /\ x # q
    BY <1>3, <1>4, <1>6, <1>8, <2>1, BlockPair, BlockFacts
  <2>4. Coalesced(B, b, M, l)
    BY <1>2, <1>3, <1>5, <2>1, <2>2, <2>3 DEF Coalesced
  <2> QED BY <1>b, <1>c, <2>4
<1>9. CASE IsFree(W, q)
  <2>1. M = Union(W, q, b) /\ l = q
    BY <1>d, <1>3, <1>9 DEF MergedPrev, Survivor
  <2>2. q # None /\ B[q].free /\ q \in DOMAIN W /\ W[q].next = b /\ b # None
    BY <1>2, <1>3, <1>4, <1>9, BlockPair, BlockFacts
  <2>3. /\ Chain(M) /\ DOMAIN M = DOMAIN W \ {b} /\ W[b].next # q /\ W[b].next # b
        /\ \A x \in DOMAIN W \ {b} :
             /\ M[x].free = W[x].free /\ M[x].size = W[x].size
             /\ M[x].next = IF x = q THEN W[b].next ELSE W[x].next
    <3> HIDE DEF q
    <3>1. Joined(W, q, b)
      BY <1>3, <2>2, UnionFacts
    <3> QED BY <1>3, <2>1, <3>1 DEF Joined
  <2>4. Apart(M)
    <3> SUFFICES ASSUME NEW x \in DOMAIN W \ {b}, W[x].free PROVE ~IsFree(M, M[x].next)
      BY <2>3 DEF Apart
    <3>0. M[x].next # None => M[x].next \in DOMAIN W \ {b}
      BY <2>3 DEF Chain, ChainOK
    <3>1. CASE x = q
      BY <1>3, <2>3, <3>0, <3>1 DEF IsFree
    <3>2. CASE x # q
      <4>1. W[x].next # b
        BY <1>3, <3>2, Neighbours, BlockPair, BlockFacts
      <4>2. ~IsFree(W, W[x].next) /\ M[x].next = W[x].next
        BY <1>7, <2>3, <3>2, <4>1
      <4> QED BY <2>3, <3>0, <4>2 DEF IsFree
    <3> QED BY <3>1, <3>2
  <2>5. l \in DOMAIN M /\ l[1] = b[1] /\ M[l].free
    BY <1>2, <1>3, <2>1, <2>2, <2>3
  <2>6. \A x \in DOMAIN M \ {l} : /\ M[x].free = B[x].free /\ M[x].size = B[x].size
                                  /\ x # b /\ (B[x].free => x # n /\ x # q)
    BY <1>3, <1>6, <2>1, <2>3
  <2>7. DOMAIN M \subseteq DOMAIN B
    BY <1>3, <2>3
  <2>8. \A x \in DOMAIN B \ DOMAIN M :
          x[1] = b[1] /\ x[2] > 0 /\ x \in {b, n} /\ (x = b \/ B[x].free)
    BY <1>2, <1>5, <2>2, <2>3
  <2>9. Coalesced(B, b, M, l)
    BY <2>1, <2>3, <2>4, <2>5, <2>6, <2>7, <2>8 DEF Coalesced
  <2> QED BY <1>b, <1>c, <2>9
<1> QED BY <1>8, <1>9

\* A page that is one free block.
Whole == [free |-> TRUE, size |-> PageEnd - Meta, prev |-> None, next |-> None]

BlocksMapped(B, p) ==
  [x \in DOMAIN B \cup {First(p)} |-> IF x = First(p) THEN Whole ELSE B[x]]

LEMMA NewPageFacts ==
  ASSUME NEW B, Chain(B), Apart(B), NEW p \in Page, \A b \in DOMAIN B : b[1] # p
  PROVE  /\ Chain(BlocksMapped(B, p)) /\ Apart(BlocksMapped(B, p))
         /\ First(p) \notin DOMAIN B
<1>0. PICK N : N = BlocksMapped(B, p)
  OBVIOUS
<1>1. First(p) \in Block /\ First(p)[1] = p /\ First(p)[2] = 0 /\ First(p) \notin DOMAIN B
  BY DEF First, Block
<1>2. /\ Whole \in BlockType /\ Whole.next = None /\ Whole.prev = None
      /\ Meta + Whole.size <= PageEnd
  BY MemConstants DEF Whole, BlockType
<1>3. DOMAIN N = DOMAIN B \cup {First(p)} /\ N[First(p)] = Whole
  BY <1>0 DEF BlocksMapped
<1>4. \A x \in DOMAIN B : N[x] = B[x] /\ x[1] # p
  BY <1>0, <1>1 DEF BlocksMapped
<1> HIDE DEF Whole
<1>5. ChainType(N)
  BY <1>1, <1>2, <1>3, <1>4 DEF Chain, ChainType
<1>6. \A x \in DOMAIN N : DataEnd(N, x) <= PageEnd
  BY <1>1, <1>2, <1>3, <1>4, MemConstants DEF Chain, ChainOK, DataEnd
<1>7. ChainOK(N)
  <2>1. \A x \in DOMAIN N : x[1] = p => x = First(p) /\ N[x].next = None /\ N[x].prev = None
    BY <1>1, <1>2, <1>3, <1>4
  <2>2. \A x \in DOMAIN N : x[1] # p => x \in DOMAIN B /\ N[x] = B[x] /\ DataEnd(N, x) = DataEnd(B, x)
    BY <1>1, <1>3, <1>4 DEF DataEnd
  <2>3. \A x, c \in DOMAIN N : c[1] = x[1] /\ x[2] < c[2] =>
           /\ DataEnd(N, x) <= c[2]
           /\ N[x].next # None /\ N[x].next[2] <= c[2]
           /\ N[c].prev # None /\ x[2] <= N[c].prev[2]
    <3> SUFFICES ASSUME NEW x \in DOMAIN N, NEW c \in DOMAIN N, c[1] = x[1], x[2] < c[2]
                 PROVE  /\ DataEnd(N, x) <= c[2]
                        /\ N[x].next # None /\ N[x].next[2] <= c[2]
                        /\ N[c].prev # None /\ x[2] <= N[c].prev[2]
      OBVIOUS
    <3>1. CASE x[1] = p
      BY <1>1, <2>1, <3>1
    <3>2. CASE x[1] # p
      BY <2>2, <3>2 DEF Chain, ChainOK
    <3> QED BY <3>1, <3>2
  <2>4. \A x \in DOMAIN N :
           /\ N[x].next # None =>
                N[x].next \in DOMAIN N /\ N[x].next[1] = x[1] /\ x[2] < N[x].next[2]
           /\ N[x].prev # None =>
                N[x].prev \in DOMAIN N /\ N[x].prev[1] = x[1] /\ N[x].prev[2] < x[2]
    <3> SUFFICES ASSUME NEW x \in DOMAIN N
                 PROVE  /\ N[x].next # None => /\ N[x].next \in DOMAIN N
                                               /\ N[x].next[1] = x[1] /\ x[2] < N[x].next[2]
                        /\ N[x].prev # None => /\ N[x].prev \in DOMAIN N
                                               /\ N[x].prev[1] = x[1] /\ N[x].prev[2] < x[2]
      OBVIOUS
    <3>1. CASE x[1] = p
      BY <2>1, <3>1
    <3>2. CASE x[1] # p
      <4>1. x \in DOMAIN B /\ N[x] = B[x]
        BY <2>2, <3>2
      <4>2. /\ B[x].next # None => /\ B[x].next \in DOMAIN B
                                   /\ B[x].next[1] = x[1] /\ x[2] < B[x].next[2]
            /\ B[x].prev # None => /\ B[x].prev \in DOMAIN B
                                   /\ B[x].prev[1] = x[1] /\ B[x].prev[2] < x[2]
        BY <4>1 DEF Chain, ChainOK
      <4> QED BY <1>3, <4>1, <4>2
    <3> QED BY <3>1, <3>2
  <2> QED BY <1>6, <2>3, <2>4 DEF ChainOK
<1>8. Apart(N)
  <2>1. \A x \in DOMAIN B : B[x].next # None => B[x].next \in DOMAIN B
    BY DEF Chain, ChainOK
  <2> QED BY <1>1, <1>2, <1>3, <1>4, <2>1 DEF Apart, IsFree
<1> QED BY <1>0, <1>1, <1>5, <1>7, <1>8 DEF Chain

WithoutPage(B, p) == [x \in {y \in DOMAIN B : y[1] # p} |-> B[x]]

LEMMA DropPageFacts ==
  ASSUME NEW B, Chain(B), Apart(B), NEW p
  PROVE  Chain(WithoutPage(B, p)) /\ Apart(WithoutPage(B, p))
<1>0. PICK N : N = WithoutPage(B, p)
  OBVIOUS
<1>1. /\ DOMAIN N = {y \in DOMAIN B : y[1] # p}
      /\ \A x \in DOMAIN N : N[x] = B[x] /\ x \in DOMAIN B /\ DataEnd(N, x) = DataEnd(B, x)
  BY <1>0 DEF WithoutPage, DataEnd
<1>2. ChainType(N)
  BY <1>1 DEF Chain, ChainType
<1>3. ChainOK(N)
  BY <1>1 DEF Chain, ChainOK
<1>4. Apart(N)
  <2>1. \A x \in DOMAIN N : N[x].next # None => N[x].next \in DOMAIN N
    BY <1>3 DEF ChainOK
  <2> QED BY <1>1, <2>1 DEF Apart, IsFree
<1> QED BY <1>0, <1>2, <1>3, <1>4 DEF Chain

\* A page whose blocks are all free is one block: it is empty.
LEMMA AllFreeIsEmpty ==
  ASSUME NEW B, Chain(B), Apart(B), NEW p, First(p) \in DOMAIN B,
         \A b \in DOMAIN B : b[1] = p => B[b].free
  PROVE  PageEmpty(B, p)
<1>1. First(p)[1] = p /\ First(p)[2] = 0
  BY DEF First
<1>2. B[First(p)].prev = None
  <2>1. SUFFICES ASSUME B[First(p)].prev # None PROVE FALSE
    OBVIOUS
  <2>2. B[First(p)].prev \in DOMAIN B /\ B[First(p)].prev[2] < 0
    BY <1>1, <2>1 DEF Chain, ChainOK
  <2> QED BY <2>2, BlockFacts
<1>3. B[First(p)].next # None => B[First(p)].next \in DOMAIN B /\ B[First(p)].next[1] = p
  BY <1>1 DEF Chain, ChainOK
<1>4. ~IsFree(B, B[First(p)].next)
  BY <1>1 DEF Apart
<1> QED BY <1>1, <1>2, <1>3, <1>4 DEF PageEmpty, IsFree

\* The first block is the only one of an empty page.
LEMMA EmptyIsOneBlock ==
  ASSUME NEW B, Chain(B), NEW p, First(p) \in DOMAIN B, PageEmpty(B, p),
         NEW b \in DOMAIN B, b[1] = p
  PROVE  b = First(p)
<1>1. First(p)[1] = p /\ First(p)[2] = 0
  BY DEF First
<1>2. ~(0 < b[2])
  BY <1>1 DEF Chain, ChainOK, PageEmpty
<1> QED BY <1>1, <1>2, BlockFacts, BlockPair

-----------------------------------------------------------------------------
(* Lists of pages.                                                         *)

PageRec == [addr : Page, index : Nat]
Addrs(s) == {q.addr : q \in ToSet(s)}

\* The indices increase and the addresses differ.
Listing(s) ==
  /\ \A i \in DOMAIN s : i > 1 => s[i - 1].index < s[i].index
  /\ \A i, j \in DOMAIN s : s[i].addr = s[j].addr => i = j

LEMMA AddrsFacts ==
  ASSUME NEW s \in Seq(PageRec)
  PROVE  /\ DOMAIN s = 1..Len(s) /\ Len(s) \in Nat
         /\ \A p : p \in Addrs(s) <=> \E i \in 1..Len(s) : s[i].addr = p
         /\ Addrs(s) \subseteq Page
<1>1. DOMAIN s = 1..Len(s) /\ Len(s) \in Nat
  BY LenProperties
<1>2. ToSet(s) = {s[i] : i \in 1..Len(s)}
  BY <1>1 DEF ToSet
<1>3. \A p : p \in Addrs(s) <=> \E i \in 1..Len(s) : s[i].addr = p
  BY <1>2 DEF Addrs
<1>4. \A i \in 1..Len(s) : s[i].addr \in Page
  <2> TAKE i \in 1..Len(s)
  <2>1. s[i] \in PageRec
    BY <1>1
  <2> QED BY <2>1 DEF PageRec
<1> QED BY <1>1, <1>3, <1>4

\* The first place where the index is not the position: there is one, and the
\* indices before it are 0, 1, ...
LEMMA PlaceExists ==
  ASSUME NEW s \in Seq(PageRec)
  PROVE  \E k \in 1..(Len(s) + 1) :
           /\ k <= Len(s) => s[k].index # k - 1
           /\ \A j \in 1..(k - 1) : s[j].index = j - 1
<1>1. Len(s) \in Nat
  BY LenProperties
<1> DEFINE T == {k \in 1..(Len(s) + 1) : k <= Len(s) => s[k].index # k - 1}
<1>2. T \in SUBSET Nat /\ T # {}
  <2>1. Len(s) + 1 \in T
    BY <1>1
  <2> QED BY <1>1, <2>1
<1>3. PICK k \in T : \A j \in T : k <= j
  BY <1>2, LeastExists
<1>4. \A j \in 1..(k - 1) : s[j].index = j - 1
  <2> SUFFICES ASSUME NEW j \in 1..(k - 1) PROVE s[j].index = j - 1
    OBVIOUS
  <2>1. j \notin T /\ j \in 1..(Len(s) + 1)
    BY <1>1, <1>3
  <2> QED BY <2>1
<1> QED BY <1>3, <1>4

ListingOf(s, A) == s \in Seq(PageRec) /\ Listing(s) /\ Addrs(s) = A

PageInserted(s, p, k) ==
  InsertAt(s, k, [addr |-> p, index |-> IF k = 1 THEN 0 ELSE s[k - 1].index + 1])

\* A page put at that place takes the index that is missing.
LEMMA InsertPageFacts ==
  ASSUME NEW s \in Seq(PageRec), Listing(s), NEW p \in Page, p \notin Addrs(s),
         NEW k \in 1..(Len(s) + 1), k <= Len(s) => s[k].index # k - 1,
         \A j \in 1..(k - 1) : s[j].index = j - 1
  PROVE  ListingOf(PageInserted(s, p, k), Addrs(s) \cup {p})
<1>a. PICK t : t = PageInserted(s, p, k)
  OBVIOUS
<1> DEFINE e == [addr |-> p, index |-> IF k = 1 THEN 0 ELSE s[k - 1].index + 1]
<1>0. PICK m \in Nat : Len(s) = m
  BY LenProperties
<1>1. /\ DOMAIN s = 1..m /\ k \in 1..(m + 1)
      /\ \A i \in 1..m : s[i] \in PageRec /\ s[i].index \in Nat
  <2>1. DOMAIN s = 1..m /\ \A i \in 1..m : s[i] \in PageRec
    BY <1>0, LenProperties
  <2> QED BY <1>0, <2>1 DEF PageRec
<1>2. e \in PageRec /\ e.index = k - 1 /\ e.addr = p
  <2>1. CASE k = 1
    BY <2>1 DEF PageRec
  <2>2. CASE k # 1
    <3>1. k - 1 \in 1..(k - 1) /\ k - 1 \in Nat /\ (k - 1) - 1 + 1 = k - 1
      BY <1>1, <2>2
    <3>2. s[k - 1].index = (k - 1) - 1
      BY <3>1
    <3> QED BY <2>2, <3>1, <3>2 DEF PageRec
  <2> QED BY <2>1, <2>2
<1>3. /\ t \in Seq(PageRec) /\ Len(t) = m + 1
      /\ \A j \in 1..(m + 1) : t[j] = IF j < k THEN s[j] ELSE IF j = k THEN e ELSE s[j - 1]
  <2>1. t = InsertAt(s, k, e)
    BY <1>a DEF PageInserted
  <2> HIDE DEF e
  <2>2. /\ InsertAt(s, k, e) \in Seq(PageRec) /\ Len(InsertAt(s, k, e)) = Len(s) + 1
        /\ \A j \in 1..(Len(s) + 1) : InsertAt(s, k, e)[j] =
             IF j < k THEN s[j] ELSE IF j = k THEN e ELSE s[j - 1]
    BY <1>2, InsertAtFacts, SMTT(30)
  <2> QED BY <1>0, <2>1, <2>2
<1> HIDE DEF e
<1>4. DOMAIN t = 1..(m + 1)
  BY <1>3, LenProperties
<1>5. ASSUME NEW i \in 1..(m + 1), i > 1 PROVE t[i - 1].index < t[i].index
  <2>1. i - 1 \in 1..(m + 1) /\ k <= m + 1 /\ 1 <= k
    BY <1>1, <1>5
  <2>2. CASE i < k
    <3>1. t[i] = s[i] /\ t[i - 1] = s[i - 1] /\ i \in DOMAIN s
      BY <1>1, <1>3, <2>1, <2>2
    <3> QED BY <1>5, <3>1 DEF Listing
  <2>3. CASE i = k
    <3>1. t[i] = e /\ t[i - 1] = s[k - 1] /\ k - 1 \in 1..(k - 1)
      BY <1>1, <1>3, <1>5, <2>1, <2>3
    <3>2. s[k - 1].index = (k - 1) - 1
      BY <3>1
    <3> QED BY <1>1, <1>2, <3>1, <3>2
  <2>4. CASE i = k + 1
    <3>1. t[i] = s[k] /\ t[i - 1] = e /\ k \in 1..m /\ s[k].index # k - 1
      <4>1. k + 1 \in 1..(m + 1) /\ ~(k + 1 < k) /\ k + 1 # k /\ k \in 1..m /\ k <= Len(s)
            /\ (k + 1) - 1 = k /\ ~(k < k)
        BY <1>0, <1>1, <2>1, <2>4
      <4>2. t[k + 1] = s[k] /\ t[k] = e
        BY <1>1, <1>3, <4>1
      <4> QED BY <2>4, <4>1, <4>2
    <3>2. CASE k = 1
      BY <1>1, <1>2, <3>1, <3>2
    <3>3. CASE k # 1
      <4>1. k - 1 \in 1..(k - 1)
        BY <1>1, <3>3
      <4>2. s[k - 1].index = (k - 1) - 1 /\ s[k - 1].index < s[k].index
        <5>1. k \in DOMAIN s /\ k > 1
          BY <1>1, <3>1, <3>3
        <5>2. s[k - 1].index < s[k].index
          BY <5>1 DEF Listing
        <5> QED BY <4>1, <5>2
      <4> QED BY <1>1, <1>2, <3>1, <4>2
    <3> QED BY <3>2, <3>3
  <2>5. CASE i > k + 1
    <3>1. t[i] = s[i - 1] /\ t[i - 1] = s[(i - 1) - 1] /\ i - 1 \in DOMAIN s /\ i - 1 > 1
      BY <1>1, <1>3, <2>1, <2>5
    <3> QED BY <3>1 DEF Listing
  <2> QED BY <1>1, <2>2, <2>3, <2>4, <2>5
<1>6. \A i \in 1..m : s[i].addr # p
  BY <1>0, AddrsFacts
<1>7. ASSUME NEW i \in 1..(m + 1), NEW j \in 1..(m + 1), t[i].addr = t[j].addr PROVE i = j
  <2> DEFINE from(h) == IF h < k THEN h ELSE h - 1
  <2>1. \A h \in 1..(m + 1) : h # k => from(h) \in 1..m /\ t[h] = s[from(h)]
    BY <1>1, <1>3
  <2>2. \A h, g \in 1..(m + 1) : h # k /\ g # k /\ from(h) = from(g) => h = g
    BY <1>1
  <2> HIDE DEF from
  <2>3. t[k] = e /\ t[k].addr = p
    BY <1>1, <1>2, <1>3
  <2> QED BY <1>1, <1>6, <1>7, <2>1, <2>2, <2>3 DEF Listing
<1>8. Addrs(t) = Addrs(s) \cup {p}
  <2>1. ASSUME NEW q \in Addrs(t) PROVE q \in Addrs(s) \cup {p}
    <3>1. PICK i \in 1..(m + 1) : t[i].addr = q
      BY <1>3, AddrsFacts
    <3>2. CASE i = k
      BY <1>2, <1>3, <3>1, <3>2
    <3>3. CASE i # k
      <4>1. PICK h \in 1..m : t[i] = s[h]
        BY <1>1, <1>3, <3>3
      <4> QED BY <1>0, <3>1, <4>1, AddrsFacts
    <3> QED BY <3>2, <3>3
  <2>2. p \in Addrs(t)
    BY <1>1, <1>2, <1>3, AddrsFacts
  <2>3. ASSUME NEW q \in Addrs(s) PROVE q \in Addrs(t)
    <3>1. PICK i \in 1..m : s[i].addr = q
      BY <1>0, AddrsFacts
    <3>2. PICK h \in 1..(m + 1) : t[h] = s[i]
      <4>1. CASE i < k
        BY <1>1, <1>3, <4>1
      <4>2. CASE i >= k
        <5>1. i + 1 \in 1..(m + 1) /\ ~(i + 1 < k) /\ i + 1 # k /\ (i + 1) - 1 = i
          BY <1>1, <4>2
        <5>2. t[i + 1] = s[i]
          BY <1>3, <5>1
        <5> QED BY <5>1, <5>2
      <4> QED BY <1>1, <4>1, <4>2
    <3> QED BY <1>3, <3>1, <3>2, AddrsFacts
  <2> QED BY <2>1, <2>2, <2>3
<1>9. Listing(t)
  BY <1>4, <1>5, <1>7 DEF Listing
<1> QED BY <1>a, <1>3, <1>8, <1>9 DEF ListingOf

LEMMA DropFacts ==
  ASSUME NEW s \in Seq(PageRec), Listing(s), NEW k \in 1..Len(s),
         NEW t, t = RemoveAt(s, k)
  PROVE  /\ t \in Seq(PageRec) /\ Listing(t) /\ Addrs(t) = Addrs(s) \ {s[k].addr}
         /\ Len(t) = Len(s) - 1
<1>0. PICK m \in Nat : Len(s) = m
  BY LenProperties
<1>1. /\ DOMAIN s = 1..m /\ k \in 1..m
      /\ \A i \in 1..m : s[i].index \in Nat
  <2>1. DOMAIN s = 1..m /\ \A i \in 1..m : s[i] \in PageRec
    BY <1>0, LenProperties
  <2> QED BY <1>0, <2>1 DEF PageRec
<1>2. /\ t \in Seq(PageRec) /\ Len(t) = m - 1
      /\ \A j \in 1..(m - 1) : t[j] = IF j < k THEN s[j] ELSE s[j + 1]
  BY <1>0, RemoveAtFacts
<1>3. DOMAIN t = 1..(m - 1)
  BY <1>2, LenProperties
<1> DEFINE from(h) == IF h < k THEN h ELSE h + 1
<1>4. \A h \in 1..(m - 1) : from(h) \in 1..m /\ from(h) # k /\ t[h] = s[from(h)]
  BY <1>1, <1>2
<1>5. \A h, g \in 1..(m - 1) : from(h) = from(g) => h = g
  BY <1>1
<1>6. ASSUME NEW i \in 1..(m - 1), i > 1 PROVE t[i - 1].index < t[i].index
  <2>1. i - 1 \in 1..(m - 1)
    BY <1>6
  <2>2. CASE i = k
    <3>1. /\ t[i] = s[k + 1] /\ t[i - 1] = s[k - 1] /\ k + 1 \in DOMAIN s /\ k > 1
          /\ (k + 1) - 1 = k /\ k - 1 \in 1..m
      BY <1>1, <1>2, <1>6, <2>1, <2>2
    <3>2. s[k - 1].index < s[k].index
      <4>1. k \in DOMAIN s /\ k > 1
        BY <1>1, <3>1
      <4> QED BY <4>1 DEF Listing
    <3>3. s[k].index < s[k + 1].index
      <4>1. k + 1 \in DOMAIN s /\ k + 1 > 1
        BY <1>1, <3>1
      <4>2. s[(k + 1) - 1].index < s[k + 1].index
        BY <4>1 DEF Listing
      <4> QED BY <3>1, <4>2
    <3> QED BY <1>1, <3>1, <3>2, <3>3
  <2>3. CASE i < k
    <3>1. t[i] = s[i] /\ t[i - 1] = s[i - 1] /\ i \in DOMAIN s
      BY <1>1, <1>2, <2>1, <2>3
    <3> QED BY <1>6, <3>1 DEF Listing
  <2>4. CASE i > k
    <3>1. /\ t[i] = s[i + 1] /\ t[i - 1] = s[(i - 1) + 1] /\ i + 1 \in DOMAIN s /\ i + 1 > 1
          /\ (i - 1) + 1 = (i + 1) - 1
      BY <1>1, <1>2, <2>1, <2>4
    <3> QED BY <3>1 DEF Listing
  <2> QED BY <1>1, <2>2, <2>3, <2>4
<1> HIDE DEF from
<1>7. ASSUME NEW i \in 1..(m - 1), NEW j \in 1..(m - 1), t[i].addr = t[j].addr PROVE i = j
  BY <1>1, <1>4, <1>5, <1>7 DEF Listing
<1>8. Addrs(t) = Addrs(s) \ {s[k].addr}
  <2>1. ASSUME NEW q \in Addrs(t) PROVE q \in Addrs(s) /\ q # s[k].addr
    <3>1. PICK i \in 1..(m - 1) : t[i].addr = q
      BY <1>2, AddrsFacts
    <3>2. q = s[from(i)].addr /\ from(i) \in 1..m /\ from(i) # k
      BY <1>4, <3>1
    <3>3. q \in Addrs(s)
      BY <1>0, <3>2, AddrsFacts
    <3> QED BY <1>1, <3>2, <3>3 DEF Listing
  <2>2. ASSUME NEW q \in Addrs(s), q # s[k].addr PROVE q \in Addrs(t)
    <3>1. PICK i \in 1..m : s[i].addr = q
      BY <1>0, AddrsFacts
    <3>2. i # k
      BY <2>2, <3>1
    <3>3. PICK h \in 1..(m - 1) : t[h] = s[i]
      <4>1. CASE i < k
        <5>1. i \in 1..(m - 1)
          BY <1>1, <4>1
        <5> QED BY <1>2, <4>1, <5>1
      <4>2. CASE i > k
        <5>1. i - 1 \in 1..(m - 1) /\ ~(i - 1 < k) /\ (i - 1) + 1 = i
          BY <1>1, <4>2
        <5>2. t[i - 1] = s[i]
          BY <1>2, <5>1
        <5> QED BY <5>1, <5>2
      <4> QED BY <1>1, <3>2, <4>1, <4>2
    <3> QED BY <1>2, <3>1, <3>3, AddrsFacts
  <2> QED BY <2>1, <2>2
<1>9. Listing(t)
  BY <1>3, <1>6, <1>7 DEF Listing
<1> QED BY <1>0, <1>2, <1>8, <1>9

-----------------------------------------------------------------------------
(* Pages, blocks and free lists together.  Sound says everything of the    *)
(* layout but that every page holds a structure, which does not hold of a  *)
(* page that has just been mapped.                                         *)

Sound(P, B, L) ==
  /\ P \in [Family -> Seq(PageRec)]
  /\ \A f \in Family : Listing(P[f])
  /\ \A f, g \in Family : f # g => Addrs(P[f]) \cap Addrs(P[g]) = {}
  /\ Chain(B) /\ Apart(B)
  /\ \A b \in DOMAIN B : \E f \in Family : b[1] \in Addrs(P[f])
  /\ \A f \in Family : \A p \in Addrs(P[f]) : First(p) \in DOMAIN B
  /\ \A f \in Family : \A b \in DOMAIN B :
       b[1] \in Addrs(P[f]) /\ ~B[b].free => B[b].size >= Struct[f]
  /\ DOMAIN L = Family
  /\ \A f \in Family :
       /\ DOMAIN L[f] = {b \in DOMAIN B : B[b].free /\ b[1] \in Addrs(P[f])}
       /\ \A b \in DOMAIN L[f] : L[f][b] = B[b].size

Holds(P, B) ==
  \A f \in Family : \A p \in Addrs(P[f]) : \E b \in DOMAIN B : b[1] = p /\ ~B[b].free

LEMMA StructFacts ==
  \A f \in Family : Struct[f] \in Nat /\ Struct[f] > 0 /\ Struct[f] <= PageEnd - Meta
BY MemConstants

ListsAfter(B, L, f, b) ==
  [L EXCEPT ![f] =
     IF Splits(B, b, Struct[f])
     THEN Listed(Unlisted(L[f], b), Split(B, b, Struct[f]), Rest(b, Struct[f]))
     ELSE Unlisted(L[f], b)]

\* Block b of family f has been allocated: S and M are the blocks and lists now.
Allocated(P, B, f, b, S, M) ==
  /\ Sound(P, S, M)
  /\ b \in DOMAIN S /\ ~S[b].free /\ b[1] \in Addrs(P[f])
  /\ \A x \in DOMAIN B : x # b => x \in DOMAIN S /\ S[x].free = B[x].free

LEMMA AllocateKeeps ==
  ASSUME NEW P, NEW B, NEW L, Sound(P, B, L), NEW f \in Family, NEW b \in DOMAIN L[f],
         L[f][b] >= Struct[f]
  PROVE  Allocated(P, B, f, b, Split(B, b, Struct[f]), ListsAfter(B, L, f, b))
<1>a. PICK S : S = Split(B, b, Struct[f])
  OBVIOUS
<1>b. PICK M : M = ListsAfter(B, L, f, b)
  OBVIOUS
<1> DEFINE r == Rest(b, Struct[f])
<1>1. /\ b \in DOMAIN B /\ B[b].free /\ b[1] \in Addrs(P[f]) /\ Struct[f] <= B[b].size
      /\ Chain(B) /\ Apart(B) /\ Struct[f] \in Nat /\ B[b].size \in Nat
      /\ f \in DOMAIN L
  <2>1. b \in DOMAIN B /\ B[b].free /\ b[1] \in Addrs(P[f]) /\ L[f][b] = B[b].size
        /\ Chain(B) /\ Apart(B) /\ f \in DOMAIN L
    BY DEF Sound
  <2>2. B[b].size \in Nat
    BY <2>1, BlockFacts
  <2> QED BY <2>1, <2>2, StructFacts
<1>0. Cut(B, b, Struct[f], S)
  BY <1>a, <1>1, SplitFacts
<1>2. /\ Chain(S) /\ Apart(S) /\ b \in DOMAIN S /\ ~S[b].free /\ S[b].size = Struct[f]
      /\ \A x \in DOMAIN B \ {b} : S[x].free = B[x].free /\ S[x].size = B[x].size
      /\ ~Splits(B, b, Struct[f]) => DOMAIN S = DOMAIN B
      /\ Splits(B, b, Struct[f]) => /\ DOMAIN S = DOMAIN B \cup {r} /\ r \notin DOMAIN B
                                    /\ r[1] = b[1] /\ S[r].free
  BY <1>0 DEF Cut
<1> HIDE DEF r
<1>3. \A x \in DOMAIN S : x \in DOMAIN B \/ (x = r /\ Splits(B, b, Struct[f]) /\ x[1] = b[1])
  BY <1>2
<1>4. \A g \in Family : g # f => b[1] \notin Addrs(P[g])
  BY <1>1 DEF Sound
<1>5. \A x \in DOMAIN S : \E g \in Family : x[1] \in Addrs(P[g])
  BY <1>1, <1>3 DEF Sound
<1>6. \A g \in Family : \A p \in Addrs(P[g]) : First(p) \in DOMAIN S
  BY <1>2 DEF Sound
<1>7. ASSUME NEW g \in Family, NEW x \in DOMAIN S, x[1] \in Addrs(P[g]), ~S[x].free
      PROVE  S[x].size >= Struct[g]
  <2>1. CASE x = b
    BY <1>2, <1>4, <1>7, <2>1, StructFacts
  <2>2. CASE x # b
    BY <1>2, <1>3, <1>7, <2>2 DEF Sound
  <2> QED BY <2>1, <2>2
<1>8. ASSUME NEW g \in Family
      PROVE  /\ DOMAIN M[g] = {x \in DOMAIN S : S[x].free /\ x[1] \in Addrs(P[g])}
             /\ \A x \in DOMAIN M[g] : M[g][x] = S[x].size
  <2>0. /\ DOMAIN L[g] = {x \in DOMAIN B : B[x].free /\ x[1] \in Addrs(P[g])}
        /\ \A x \in DOMAIN L[g] : L[g][x] = B[x].size
    BY DEF Sound
  <2>1. CASE g # f
    <3>1. M[g] = L[g]
      BY <1>b, <1>1, <2>1 DEF ListsAfter
    <3>2. \A x \in DOMAIN S : x[1] \in Addrs(P[g]) => x \in DOMAIN B \ {b}
      BY <1>3, <1>4, <2>1
    <3>3. \A x \in DOMAIN B : x[1] \in Addrs(P[g]) => x # b /\ x \in DOMAIN S
      BY <1>2, <1>4, <2>1
    <3> QED BY <1>2, <2>0, <3>1, <3>2, <3>3
  <2>2. CASE g = f /\ Splits(B, b, Struct[f])
    <3>1. M[g] = [x \in (DOMAIN L[g] \ {b}) \cup {r} |->
                    IF x = r THEN S[r].size ELSE [y \in DOMAIN L[g] \ {b} |-> L[g][y]][x]]
      BY <1>a, <1>b, <1>1, <2>2 DEF ListsAfter, Listed, Unlisted, r
    <3>2. /\ DOMAIN M[g] = (DOMAIN L[g] \ {b}) \cup {r} /\ M[g][r] = S[r].size
          /\ \A x \in DOMAIN L[g] \ {b} : x # r => M[g][x] = L[g][x]
      BY <3>1
    <3>3. r # b /\ r \notin DOMAIN L[g] /\ r[1] \in Addrs(P[g])
      BY <1>1, <1>2, <2>0, <2>2
    <3>4. ASSUME NEW x
          PROVE  x \in DOMAIN M[g] <=> x \in DOMAIN S /\ S[x].free /\ x[1] \in Addrs(P[g])
      <4>1. CASE x = r
        BY <1>2, <2>2, <3>2, <3>3, <4>1
      <4>2. CASE x = b
        BY <1>2, <3>2, <3>3, <4>2
      <4>3. CASE x # r /\ x # b
        BY <1>2, <2>0, <2>2, <3>2, <4>3
      <4> QED BY <4>1, <4>2, <4>3
    <3>5. \A x \in DOMAIN M[g] : M[g][x] = S[x].size
      BY <1>2, <2>0, <3>2, <3>3
    <3> QED BY <3>4, <3>5
  <2>3. CASE g = f /\ ~Splits(B, b, Struct[f])
    <3>1. M[g] = [y \in DOMAIN L[g] \ {b} |-> L[g][y]]
      BY <1>b, <1>1, <2>3 DEF ListsAfter, Unlisted
    <3> QED BY <1>1, <1>2, <2>0, <2>3, <3>1
  <2> QED BY <2>1, <2>2, <2>3
<1>9. DOMAIN M = Family
  BY <1>b DEF ListsAfter, Sound
<1>10. /\ P \in [Family -> Seq(PageRec)] /\ \A g \in Family : Listing(P[g])
       /\ \A h, g \in Family : h # g => Addrs(P[h]) \cap Addrs(P[g]) = {}
  BY DEF Sound
<1>11. Sound(P, S, M)
  BY <1>2, <1>5, <1>6, <1>7, <1>8, <1>9, <1>10 DEF Sound
<1>12. Allocated(P, B, f, b, S, M)
  BY <1>1, <1>2, <1>11 DEF Allocated
<1> QED BY <1>a, <1>b, <1>12

\* Mapping a page, which is one free block on the family's list.
PagesMapped(P, f, p, k) ==
  [P EXCEPT ![f] = PageInserted(P[f], p, k)]
ListsMapped(B, L, f, p) == [L EXCEPT ![f] = Listed(L[f], BlocksMapped(B, p), First(p))]

\* Page p of family f has been mapped.
PageMapped(P, B, f, p, Q, N, M) ==
  /\ Sound(Q, N, M) /\ First(p) \in DOMAIN M[f] /\ M[f][First(p)] = PageEnd - Meta
  /\ \A x \in DOMAIN B : x \in DOMAIN N /\ N[x] = B[x] /\ x # First(p)
  /\ \A g \in Family : Addrs(Q[g]) = IF g = f THEN Addrs(P[g]) \cup {p} ELSE Addrs(P[g])

LEMMA MapKeeps ==
  ASSUME NEW P, NEW B, NEW L, Sound(P, B, L), NEW f \in Family, NEW p \in Page,
         \A g \in Family : p \notin Addrs(P[g]),
         NEW k \in 1..(Len(P[f]) + 1), k <= Len(P[f]) => P[f][k].index # k - 1,
         \A j \in 1..(k - 1) : P[f][j].index = j - 1
  PROVE  PageMapped(P, B, f, p, PagesMapped(P, f, p, k), BlocksMapped(B, p),
                    ListsMapped(B, L, f, p))
<1>a. PICK Q : Q = PagesMapped(P, f, p, k)
  OBVIOUS
<1>b. PICK N : N = BlocksMapped(B, p)
  OBVIOUS
<1>c. PICK M : M = ListsMapped(B, L, f, p)
  OBVIOUS
<1>1. /\ P \in [Family -> Seq(PageRec)] /\ \A g \in Family : Listing(P[g])
      /\ \A h, g \in Family : h # g => Addrs(P[h]) \cap Addrs(P[g]) = {}
      /\ Chain(B) /\ Apart(B) /\ DOMAIN L = Family
      /\ \A b \in DOMAIN B : \E g \in Family : b[1] \in Addrs(P[g])
      /\ \A g \in Family : \A q \in Addrs(P[g]) : First(q) \in DOMAIN B
  BY DEF Sound
<1>2. \A b \in DOMAIN B : b[1] # p
  BY <1>1
<1>3. Chain(N) /\ Apart(N) /\ First(p) \notin DOMAIN B
  <2>1. Chain(B) /\ Apart(B)
    BY <1>1
  <2> QED BY <1>b, <1>2, <2>1, NewPageFacts
<1>4. /\ Q[f] \in Seq(PageRec) /\ Listing(Q[f]) /\ Addrs(Q[f]) = Addrs(P[f]) \cup {p}
  <2>1. P[f] \in Seq(PageRec) /\ Listing(P[f]) /\ p \notin Addrs(P[f])
    BY <1>1
  <2>2. ListingOf(PageInserted(P[f], p, k), Addrs(P[f]) \cup {p})
    BY <2>1, InsertPageFacts
  <2>3. Q[f] = PageInserted(P[f], p, k)
    BY <1>a, <1>1 DEF PagesMapped
  <2> QED BY <2>2, <2>3 DEF ListingOf
<1>5. \A g \in Family : g # f => Q[g] = P[g]
  BY <1>a, <1>1 DEF PagesMapped
<1>6. /\ Q \in [Family -> Seq(PageRec)] /\ \A g \in Family : Listing(Q[g])
      /\ \A h, g \in Family : h # g => Addrs(Q[h]) \cap Addrs(Q[g]) = {}
  <2>1. Q \in [Family -> Seq(PageRec)]
    BY <1>a, <1>1, <1>4, <1>5 DEF PagesMapped
  <2>2. \A g \in Family : Listing(Q[g])
    BY <1>1, <1>4, <1>5
  <2>3. ASSUME NEW h \in Family, NEW g \in Family, h # g
        PROVE  Addrs(Q[h]) \cap Addrs(Q[g]) = {}
    <3>1. Addrs(P[h]) \cap Addrs(P[g]) = {} /\ p \notin Addrs(P[h]) /\ p \notin Addrs(P[g])
      BY <1>1, <2>3
    <3>2. CASE h = f
      BY <1>4, <1>5, <2>3, <3>1, <3>2
    <3>3. CASE g = f
      BY <1>4, <1>5, <2>3, <3>1, <3>3
    <3>4. CASE h # f /\ g # f
      BY <1>5, <3>1, <3>4
    <3> QED BY <3>2, <3>3, <3>4
  <2> QED BY <2>1, <2>2, <2>3
<1>7. /\ First(p)[1] = p /\ DOMAIN N = DOMAIN B \cup {First(p)} /\ N[First(p)] = Whole
      /\ \A x \in DOMAIN B : N[x] = B[x] /\ x # First(p)
      /\ Whole.free = TRUE /\ Whole.size = PageEnd - Meta
  BY <1>b, <1>3 DEF BlocksMapped, First, Whole
<1>8. ASSUME NEW g \in Family
      PROVE  /\ DOMAIN M[g] = {x \in DOMAIN N : N[x].free /\ x[1] \in Addrs(Q[g])}
             /\ \A x \in DOMAIN M[g] : M[g][x] = N[x].size
  <2>0. /\ DOMAIN L[g] = {x \in DOMAIN B : B[x].free /\ x[1] \in Addrs(P[g])}
        /\ \A x \in DOMAIN L[g] : L[g][x] = B[x].size
    BY DEF Sound
  <2>1. CASE g # f
    <3>1. M[g] = L[g] /\ Addrs(Q[g]) = Addrs(P[g]) /\ p \notin Addrs(P[g])
      BY <1>c, <1>1, <1>5, <2>1 DEF ListsMapped
    <3> HIDE DEF Whole
    <3> QED BY <1>7, <2>0, <3>1
  <2>2. CASE g = f
    <3>1. M[g] = [x \in DOMAIN L[g] \cup {First(p)} |->
                    IF x = First(p) THEN N[First(p)].size ELSE L[g][x]]
      BY <1>b, <1>c, <1>1, <2>2 DEF ListsMapped, Listed
    <3>2. /\ DOMAIN M[g] = DOMAIN L[g] \cup {First(p)} /\ M[g][First(p)] = N[First(p)].size
          /\ \A x \in DOMAIN L[g] : x # First(p) => M[g][x] = L[g][x]
      BY <3>1
    <3>3. \A x \in DOMAIN B : x[1] \in Addrs(Q[g]) <=> x[1] \in Addrs(P[g])
      BY <1>2, <1>4, <2>2
    <3>4. First(p)[1] \in Addrs(Q[g])
      BY <1>4, <1>7, <2>2
    <3> QED BY <1>7, <2>0, <3>2, <3>3, <3>4
  <2> QED BY <2>1, <2>2
<1>9. \A x \in DOMAIN N : \E g \in Family : x[1] \in Addrs(Q[g])
  <2> SUFFICES ASSUME NEW x \in DOMAIN N PROVE \E g \in Family : x[1] \in Addrs(Q[g])
    OBVIOUS
  <2>1. CASE x = First(p)
    BY <1>4, <1>7, <2>1
  <2>2. CASE x # First(p)
    <3>1. PICK g \in Family : x[1] \in Addrs(P[g])
      BY <1>1, <1>7, <2>2
    <3>2. Addrs(P[g]) \subseteq Addrs(Q[g])
      BY <1>4, <1>5
    <3> QED BY <3>1, <3>2
  <2> QED BY <2>1, <2>2
<1>10. \A g \in Family : \A q \in Addrs(Q[g]) : First(q) \in DOMAIN N
  BY <1>1, <1>4, <1>5, <1>7
<1>11. \A g \in Family : \A x \in DOMAIN N :
         x[1] \in Addrs(Q[g]) /\ ~N[x].free => N[x].size >= Struct[g]
  <2> SUFFICES ASSUME NEW g \in Family, NEW x \in DOMAIN N, x[1] \in Addrs(Q[g]), ~N[x].free
               PROVE  N[x].size >= Struct[g]
    OBVIOUS
  <2>1. x \in DOMAIN B /\ N[x] = B[x]
    BY <1>7
  <2>2. x[1] \in Addrs(P[g])
    BY <1>2, <1>4, <1>5, <2>1
  <2> QED BY <2>1, <2>2 DEF Sound
<1>12. DOMAIN M = Family
  BY <1>c, <1>1 DEF ListsMapped
<1>13. Sound(Q, N, M)
  BY <1>3, <1>6, <1>8, <1>9, <1>10, <1>11, <1>12 DEF Sound
<1>14. First(p) \in DOMAIN M[f] /\ M[f][First(p)] = PageEnd - Meta
  <2>1. M[f] = [x \in DOMAIN L[f] \cup {First(p)} |->
                  IF x = First(p) THEN N[First(p)].size ELSE L[f][x]]
    BY <1>b, <1>c, <1>1 DEF ListsMapped, Listed
  <2> QED BY <1>7, <2>1
<1>15. \A x \in DOMAIN B : x \in DOMAIN N /\ N[x] = B[x] /\ x # First(p)
  BY <1>7
<1>16. \A g \in Family : Addrs(Q[g]) = IF g = f THEN Addrs(P[g]) \cup {p} ELSE Addrs(P[g])
  <2> TAKE g \in Family
  <2>1. CASE g = f
    BY <1>4, <2>1
  <2>2. CASE g # f
    BY <1>5, <2>2
  <2> QED BY <2>1, <2>2
<1>17. PageMapped(P, B, f, p, Q, N, M)
  BY <1>13, <1>14, <1>15, <1>16 DEF PageMapped
<1> QED BY <1>a, <1>b, <1>c, <1>17

\* What freeing b leaves: blocks M, of which l is the one freed, and the list rest
\* of a family whose pages have the addresses A.
Freed(A, B, b, M, l, rest) ==
  /\ Chain(M) /\ Apart(M) /\ l \in DOMAIN M /\ l[1] = b[1] /\ M[l].free
  /\ DOMAIN M \subseteq DOMAIN B
  /\ \A x \in DOMAIN M \ {l} : M[x].free = B[x].free /\ M[x].size = B[x].size
  /\ \A x \in DOMAIN B : x[1] # b[1] => x \in DOMAIN M \ {l}
  /\ \A p : First(p) \in DOMAIN B => First(p) \in DOMAIN M
  /\ l \notin DOMAIN rest
  /\ \A x : x # l => (x \in DOMAIN rest <=> x \in DOMAIN M /\ M[x].free /\ x[1] \in A)
  /\ \A x \in DOMAIN rest : rest[x] = M[x].size

RestOf(L, B, b) == Remaining(L, Freeing(B, b), b)

LEMMA FreedBlocks ==
  ASSUME NEW P, NEW B, NEW L, Sound(P, B, L), NEW b \in DOMAIN B, ~B[b].free,
         NEW f \in Family, b[1] \in Addrs(P[f])
  PROVE  Freed(Addrs(P[f]), B, b, After(B, b), Left(B, b), RestOf(L[f], B, b))
<1>a. PICK M : M = After(B, b)
  OBVIOUS
<1>b. PICK l : l = Left(B, b)
  OBVIOUS
<1>c. PICK rest : rest = RestOf(L[f], B, b)
  OBVIOUS
<1>1. /\ Chain(B) /\ Apart(B) /\ f \in DOMAIN L
      /\ DOMAIN L[f] = {x \in DOMAIN B : B[x].free /\ x[1] \in Addrs(P[f])}
      /\ \A x \in DOMAIN L[f] : L[f][x] = B[x].size
  BY DEF Sound
<1>2. Coalesced(B, b, M, l)
  BY <1>a, <1>b, <1>1, MergeFacts
<1>3. Freeing(B, b)[b].next = B[b].next /\ Freeing(B, b)[b].prev = B[b].prev
  BY <1>1, FreeingFacts
<1>4. /\ DOMAIN rest = {x \in DOMAIN L[f] : x \notin {B[b].next, B[b].prev}}
      /\ \A x \in DOMAIN rest : rest[x] = L[f][x]
  BY <1>c, <1>3 DEF RestOf, Remaining
<1>5. ASSUME NEW x, x # l
      PROVE  x \in DOMAIN rest <=> x \in DOMAIN M /\ M[x].free /\ x[1] \in Addrs(P[f])
  <2>1. ASSUME x \in DOMAIN rest PROVE x \in DOMAIN M /\ M[x].free /\ x[1] \in Addrs(P[f])
    <3>1. x \in DOMAIN B /\ B[x].free /\ x[1] \in Addrs(P[f]) /\ x # b /\ x # B[b].next
      BY <1>1, <1>4, <2>1
    <3>2. x \in DOMAIN M
      BY <1>2, <3>1 DEF Coalesced
    <3> QED BY <1>2, <1>5, <3>1, <3>2 DEF Coalesced
  <2>2. ASSUME x \in DOMAIN M, M[x].free, x[1] \in Addrs(P[f]) PROVE x \in DOMAIN rest
    <3>1. x \in DOMAIN M \ {l} /\ x \in DOMAIN B
      BY <1>2, <1>5, <2>2 DEF Coalesced
    <3>2. B[x].free /\ x \notin {B[b].next, B[b].prev}
      BY <1>2, <2>2, <3>1 DEF Coalesced
    <3> QED BY <1>1, <1>4, <2>2, <3>1, <3>2
  <2> QED BY <2>1, <2>2
<1>6. l \notin DOMAIN rest
  BY <1>1, <1>2, <1>4 DEF Coalesced
<1>7. \A x \in DOMAIN rest : rest[x] = M[x].size
  <2> SUFFICES ASSUME NEW x \in DOMAIN rest PROVE rest[x] = M[x].size
    OBVIOUS
  <2>1. x \in DOMAIN M \ {l}
    BY <1>5, <1>6
  <2> QED BY <1>1, <1>2, <1>4, <2>1 DEF Coalesced
<1>8. \A p : First(p) \in DOMAIN B => First(p) \in DOMAIN M
  <2>1. \A p : First(p)[2] = 0
    BY DEF First
  <2> QED BY <1>2, <2>1 DEF Coalesced
<1>9. \A x \in DOMAIN B : x[1] # b[1] => x \in DOMAIN M \ {l}
  BY <1>2 DEF Coalesced
<1>10. Freed(Addrs(P[f]), B, b, M, l, rest)
  BY <1>2, <1>5, <1>6, <1>7, <1>8, <1>9 DEF Coalesced, Freed
<1> QED BY <1>a, <1>b, <1>c, <1>10

\* A page that still holds a structure stays.
ListsFreed(B, L, f, b) ==
  [L EXCEPT ![f] = Listed(RestOf(L[f], B, b), After(B, b), Left(B, b))]

LEMMA FreeKeepsPage ==
  ASSUME NEW P, NEW B, NEW L, Sound(P, B, L), Holds(P, B), NEW b \in DOMAIN B, ~B[b].free,
         NEW f \in Family, b[1] \in Addrs(P[f]),
         ~PageEmpty(After(B, b), b[1])
  PROVE  /\ Sound(P, After(B, b), ListsFreed(B, L, f, b))
         /\ Holds(P, After(B, b))
<1>c. PICK M : M = After(B, b)
  OBVIOUS
<1>d. PICK N : N = ListsFreed(B, L, f, b)
  OBVIOUS
<1>a. PICK l : l = Left(B, b)
  OBVIOUS
<1>b. PICK rest : rest = RestOf(L[f], B, b)
  OBVIOUS
<1>0. Freed(Addrs(P[f]), B, b, M, l, rest)
  BY <1>a, <1>b, <1>c, FreedBlocks
<1>1. /\ Chain(M) /\ Apart(M) /\ l \in DOMAIN M /\ l[1] = b[1] /\ M[l].free
      /\ DOMAIN M \subseteq DOMAIN B
      /\ \A x \in DOMAIN M \ {l} : M[x].free = B[x].free /\ M[x].size = B[x].size
      /\ \A x \in DOMAIN B : x[1] # b[1] => x \in DOMAIN M \ {l}
      /\ \A p : First(p) \in DOMAIN B => First(p) \in DOMAIN M
      /\ l \notin DOMAIN rest
      /\ \A x : x # l => (x \in DOMAIN rest <=>
           x \in DOMAIN M /\ M[x].free /\ x[1] \in Addrs(P[f]))
      /\ \A x \in DOMAIN rest : rest[x] = M[x].size
  BY <1>0 DEF Freed
<1>2. /\ P \in [Family -> Seq(PageRec)] /\ \A g \in Family : Listing(P[g])
      /\ \A h, g \in Family : h # g => Addrs(P[h]) \cap Addrs(P[g]) = {}
      /\ DOMAIN L = Family /\ DOMAIN N = Family
      /\ \A x \in DOMAIN B : \E g \in Family : x[1] \in Addrs(P[g])
      /\ \A g \in Family : \A q \in Addrs(P[g]) : First(q) \in DOMAIN B
  BY <1>d DEF Sound, ListsFreed
<1>3. ASSUME NEW g \in Family
      PROVE  /\ DOMAIN N[g] = {x \in DOMAIN M : M[x].free /\ x[1] \in Addrs(P[g])}
             /\ \A x \in DOMAIN N[g] : N[g][x] = M[x].size
  <2>1. CASE g = f
    <3>1. N[g] = [x \in DOMAIN rest \cup {l} |-> IF x = l THEN M[l].size ELSE rest[x]]
      BY <1>a, <1>b, <1>c, <1>d, <1>2, <2>1 DEF ListsFreed, Listed
    <3>2. /\ DOMAIN N[g] = DOMAIN rest \cup {l} /\ N[g][l] = M[l].size
          /\ \A x \in DOMAIN rest : x # l => N[g][x] = rest[x]
      BY <3>1
    <3>3. ASSUME NEW x
          PROVE  x \in DOMAIN N[g] <=> x \in DOMAIN M /\ M[x].free /\ x[1] \in Addrs(P[g])
      <4>1. CASE x = l
        BY <1>1, <2>1, <3>2, <4>1
      <4>2. CASE x # l
        BY <1>1, <2>1, <3>2, <4>2
      <4> QED BY <4>1, <4>2
    <3>4. \A x \in DOMAIN N[g] : N[g][x] = M[x].size
      BY <1>1, <3>2
    <3> QED BY <3>3, <3>4
  <2>2. CASE g # f
    <3>1. N[g] = L[g] /\ b[1] \notin Addrs(P[g])
      BY <1>d, <1>2, <2>2 DEF ListsFreed
    <3>2. /\ DOMAIN L[g] = {x \in DOMAIN B : B[x].free /\ x[1] \in Addrs(P[g])}
          /\ \A x \in DOMAIN L[g] : L[g][x] = B[x].size
      BY DEF Sound
    <3>3. /\ \A x \in DOMAIN B : x[1] \in Addrs(P[g]) => x \in DOMAIN M \ {l}
          /\ \A x \in DOMAIN M : x[1] \in Addrs(P[g]) => x \in DOMAIN B /\ x \in DOMAIN M \ {l}
      BY <1>1, <3>1
    <3> QED BY <1>1, <3>1, <3>2, <3>3
  <2> QED BY <2>1, <2>2
<1>4. \A g \in Family : \A x \in DOMAIN M :
        x[1] \in Addrs(P[g]) /\ ~M[x].free => M[x].size >= Struct[g]
  <2> SUFFICES ASSUME NEW g \in Family, NEW x \in DOMAIN M, x[1] \in Addrs(P[g]), ~M[x].free
               PROVE  M[x].size >= Struct[g]
    OBVIOUS
  <2>1. x \in DOMAIN B /\ ~B[x].free /\ M[x].size = B[x].size
    BY <1>1
  <2> QED BY <2>1 DEF Sound
<1>5. Sound(P, M, N)
  <2>1. \A x \in DOMAIN M : \E g \in Family : x[1] \in Addrs(P[g])
    BY <1>1, <1>2
  <2>2. \A g \in Family : \A q \in Addrs(P[g]) : First(q) \in DOMAIN M
    BY <1>1, <1>2
  <2> QED BY <1>1, <1>2, <1>3, <1>4, <2>1, <2>2 DEF Sound
<1>6. Holds(P, M)
  <2> SUFFICES ASSUME NEW g \in Family, NEW p \in Addrs(P[g])
               PROVE  \E x \in DOMAIN M : x[1] = p /\ ~M[x].free
    BY DEF Holds
  <2>1. CASE p = b[1]
    <3>1. First(p) \in DOMAIN M
      BY <1>1, <1>2
    <3> QED BY <1>c, <1>1, <2>1, <3>1, AllFreeIsEmpty
  <2>2. CASE p # b[1]
    <3>1. PICK x \in DOMAIN B : x[1] = p /\ ~B[x].free
      BY DEF Holds
    <3> QED BY <1>1, <2>2, <3>1
  <2> QED BY <2>1, <2>2
<1> QED BY <1>c, <1>d, <1>5, <1>6

\* A page whose last structure is freed goes, with its block.
PagesDropped(P, f, k) == [P EXCEPT ![f] = RemoveAt(P[f], k)]
ListsDropped(B, L, f, b) == [L EXCEPT ![f] = RestOf(L[f], B, b)]
PageDropped(Q, R, N) == Sound(Q, R, N) /\ Holds(Q, R)

LEMMA FreeDropsPage ==
  ASSUME NEW P, NEW B, NEW L, Sound(P, B, L), Holds(P, B), NEW b \in DOMAIN B, ~B[b].free,
         NEW f \in Family, NEW k \in 1..Len(P[f]), P[f][k].addr = b[1],
         PageEmpty(After(B, b), b[1])
  PROVE  PageDropped(PagesDropped(P, f, k), WithoutPage(After(B, b), b[1]),
                     ListsDropped(B, L, f, b))
<1>d. PICK R : R = WithoutPage(After(B, b), b[1])
  OBVIOUS
<1>e. PICK Q : Q = PagesDropped(P, f, k)
  OBVIOUS
<1>f. PICK N : N = ListsDropped(B, L, f, b)
  OBVIOUS
<1>a. PICK M : M = After(B, b)
  OBVIOUS
<1>b. PICK l : l = Left(B, b)
  OBVIOUS
<1>c. PICK rest : rest = RestOf(L[f], B, b)
  OBVIOUS
<1>1. /\ P \in [Family -> Seq(PageRec)] /\ \A g \in Family : Listing(P[g])
      /\ \A h, g \in Family : h # g => Addrs(P[h]) \cap Addrs(P[g]) = {}
      /\ DOMAIN L = Family /\ DOMAIN N = Family
      /\ \A x \in DOMAIN B : \E g \in Family : x[1] \in Addrs(P[g])
      /\ \A g \in Family : \A q \in Addrs(P[g]) : First(q) \in DOMAIN B
  BY <1>f DEF Sound, ListsDropped
<1>2. b[1] \in Addrs(P[f]) /\ P[f] \in Seq(PageRec) /\ Listing(P[f])
  BY <1>1, AddrsFacts
<1>0. Freed(Addrs(P[f]), B, b, M, l, rest)
  BY <1>a, <1>b, <1>c, <1>2, FreedBlocks
<1>3. /\ Chain(M) /\ Apart(M) /\ l \in DOMAIN M /\ l[1] = b[1] /\ M[l].free
      /\ DOMAIN M \subseteq DOMAIN B
      /\ \A x \in DOMAIN M \ {l} : M[x].free = B[x].free /\ M[x].size = B[x].size
      /\ \A x \in DOMAIN B : x[1] # b[1] => x \in DOMAIN M \ {l}
      /\ \A p : First(p) \in DOMAIN B => First(p) \in DOMAIN M
      /\ l \notin DOMAIN rest
      /\ \A x : x # l => (x \in DOMAIN rest <=>
           x \in DOMAIN M /\ M[x].free /\ x[1] \in Addrs(P[f]))
      /\ \A x \in DOMAIN rest : rest[x] = M[x].size
  BY <1>0 DEF Freed
<1>4. First(b[1]) \in DOMAIN M
  BY <1>1, <1>2, <1>3
<1>5. \A x \in DOMAIN M : x[1] = b[1] => x = l
  BY <1>a, <1>3, <1>4, EmptyIsOneBlock
<1>7. /\ Q[f] \in Seq(PageRec) /\ Listing(Q[f]) /\ Addrs(Q[f]) = Addrs(P[f]) \ {b[1]}
      /\ \A g \in Family : g # f => Q[g] = P[g]
  <2>1. PICK t : t = RemoveAt(P[f], k)
    OBVIOUS
  <2>2. t \in Seq(PageRec) /\ Listing(t) /\ Addrs(t) = Addrs(P[f]) \ {P[f][k].addr}
    BY <1>2, <2>1, DropFacts, Zenon
  <2>3. Q[f] = t /\ \A g \in Family : g # f => Q[g] = P[g]
    BY <1>e, <1>1, <2>1 DEF PagesDropped
  <2> QED BY <2>2, <2>3
<1>8. /\ Q \in [Family -> Seq(PageRec)] /\ \A g \in Family : Listing(Q[g])
      /\ \A h, g \in Family : h # g => Addrs(Q[h]) \cap Addrs(Q[g]) = {}
  <2>1. Q \in [Family -> Seq(PageRec)]
    BY <1>e, <1>1, <1>7 DEF PagesDropped
  <2> QED BY <1>1, <1>7, <2>1
<1>9. \A g \in Family : \A p : p \in Addrs(Q[g]) <=> p \in Addrs(P[g]) /\ p # b[1]
  <2> TAKE g \in Family
  <2>1. CASE g = f
    BY <1>7, <2>1
  <2>2. CASE g # f
    BY <1>1, <1>2, <1>7, <2>2
  <2> QED BY <2>1, <2>2
<1>10. Chain(R) /\ Apart(R)
  BY <1>a, <1>d, <1>3, DropPageFacts
<1>11. /\ DOMAIN R = {x \in DOMAIN M : x[1] # b[1]}
       /\ \A x \in DOMAIN R : R[x] = M[x] /\ x # l /\ x \in DOMAIN M
  BY <1>a, <1>d, <1>3 DEF WithoutPage
<1>12. ASSUME NEW g \in Family
       PROVE  /\ DOMAIN N[g] = {x \in DOMAIN R : R[x].free /\ x[1] \in Addrs(Q[g])}
              /\ \A x \in DOMAIN N[g] : N[g][x] = R[x].size
  <2>1. CASE g = f
    <3>1. N[g] = rest
      BY <1>c, <1>f, <1>1, <2>1 DEF ListsDropped
    <3>2. ASSUME NEW x
          PROVE  x \in DOMAIN rest <=> x \in DOMAIN R /\ R[x].free /\ x[1] \in Addrs(Q[g])
      <4>1. CASE x = l
        BY <1>3, <1>11, <4>1
      <4>2. CASE x # l
        BY <1>3, <1>5, <1>9, <1>11, <2>1, <4>2
      <4> QED BY <4>1, <4>2
    <3>3. \A x \in DOMAIN rest : rest[x] = R[x].size
      BY <1>3, <1>11, <3>2
    <3> QED BY <3>1, <3>2, <3>3
  <2>2. CASE g # f
    <3>1. N[g] = L[g] /\ b[1] \notin Addrs(P[g])
      BY <1>f, <1>1, <1>2, <2>2 DEF ListsDropped
    <3>2. /\ DOMAIN L[g] = {x \in DOMAIN B : B[x].free /\ x[1] \in Addrs(P[g])}
          /\ \A x \in DOMAIN L[g] : L[g][x] = B[x].size
      BY DEF Sound
    <3>3. /\ \A x \in DOMAIN B : x[1] \in Addrs(P[g]) => x \in DOMAIN M \ {l} /\ x \in DOMAIN R
          /\ \A x \in DOMAIN R : x \in DOMAIN B /\ x \in DOMAIN M \ {l}
      BY <1>3, <1>11, <3>1
    <3>4. \A x \in DOMAIN R : R[x].free = B[x].free /\ R[x].size = B[x].size
      BY <1>3, <1>11, <3>3
    <3>5. \A x : x[1] \in Addrs(Q[g]) <=> x[1] \in Addrs(P[g])
      BY <1>9, <3>1
    <3> QED BY <3>1, <3>2, <3>3, <3>4, <3>5
  <2> QED BY <2>1, <2>2
<1>13. \A g \in Family : \A x \in DOMAIN R :
         x[1] \in Addrs(Q[g]) /\ ~R[x].free => R[x].size >= Struct[g]
  <2> SUFFICES ASSUME NEW g \in Family, NEW x \in DOMAIN R, x[1] \in Addrs(Q[g]), ~R[x].free
               PROVE  R[x].size >= Struct[g]
    OBVIOUS
  <2>1. x \in DOMAIN B /\ ~B[x].free /\ R[x].size = B[x].size /\ x[1] \in Addrs(P[g])
    BY <1>3, <1>9, <1>11
  <2> QED BY <2>1 DEF Sound
<1>14. Sound(Q, R, N)
  <2>1. \A x \in DOMAIN R : \E g \in Family : x[1] \in Addrs(Q[g])
    BY <1>1, <1>3, <1>9, <1>11
  <2>2. \A g \in Family : \A q \in Addrs(Q[g]) : First(q) \in DOMAIN R
    <3> SUFFICES ASSUME NEW g \in Family, NEW q \in Addrs(Q[g]) PROVE First(q) \in DOMAIN R
      OBVIOUS
    <3>1. First(q)[1] = q
      BY DEF First
    <3> QED BY <1>1, <1>3, <1>9, <1>11, <3>1
  <2> QED BY <1>1, <1>8, <1>10, <1>12, <1>13, <2>1, <2>2 DEF Sound
<1>15. Holds(Q, R)
  <2> SUFFICES ASSUME NEW g \in Family, NEW p \in Addrs(Q[g])
               PROVE  \E x \in DOMAIN R : x[1] = p /\ ~R[x].free
    BY DEF Holds
  <2>1. p \in Addrs(P[g]) /\ p # b[1]
    BY <1>9
  <2>2. PICK x \in DOMAIN B : x[1] = p /\ ~B[x].free
    BY <2>1 DEF Holds
  <2> QED BY <1>3, <1>11, <2>1, <2>2
<1> QED BY <1>d, <1>e, <1>f, <1>14, <1>15 DEF PageDropped

-----------------------------------------------------------------------------
(* The invariant: what the run checks is inductive as it stands.           *)

MemInv == TypeOK /\ LayoutExact

LEMMA MappedIsAddrs == \A f : Mapped(f) = Addrs(pages[f])
BY DEF Mapped, Addrs

\* FamilyOf finds the one family on whose pages a block lies.
LEMMA FamilyIsUnique ==
  ASSUME \A f, g \in Family : f # g => Addrs(pages[f]) \cap Addrs(pages[g]) = {},
         NEW b, NEW f \in Family, b[1] \in Addrs(pages[f])
  PROVE  FamilyOf(b) = f
<1>1. \E g \in Family : b[1] \in Mapped(g)
  BY MappedIsAddrs
<1>2. FamilyOf(b) \in Family /\ b[1] \in Mapped(FamilyOf(b))
  BY <1>1 DEF FamilyOf
<1> QED BY <1>2, MappedIsAddrs

LEMMA OrderedIsListing ==
  ASSUME pages \in [Family -> Seq(PageRec)]
  PROVE  PagesOrdered <=> /\ \A f \in Family : Listing(pages[f])
                          /\ \A f, g \in Family : f # g =>
                               Addrs(pages[f]) \cap Addrs(pages[g]) = {}
<1>0. \A f \in Family :
        /\ DOMAIN pages[f] = 1..Len(pages[f])
        /\ \A p : p \in Addrs(pages[f]) <=> \E i \in 1..Len(pages[f]) : pages[f][i].addr = p
  BY AddrsFacts
<1>1. ASSUME PagesOrdered
      PROVE  /\ \A f \in Family : Listing(pages[f])
             /\ \A f, g \in Family : f # g => Addrs(pages[f]) \cap Addrs(pages[g]) = {}
  BY <1>0, <1>1 DEF PagesOrdered, Listing
<1>2. ASSUME \A f \in Family : Listing(pages[f]),
             \A f, g \in Family : f # g => Addrs(pages[f]) \cap Addrs(pages[g]) = {}
      PROVE  PagesOrdered
  <2> SUFFICES ASSUME NEW f \in Family, NEW i \in DOMAIN pages[f]
               PROVE  /\ i > 1 => pages[f][i - 1].index < pages[f][i].index
                      /\ \A g \in Family : \A j \in DOMAIN pages[g] :
                           pages[f][i].addr = pages[g][j].addr => f = g /\ i = j
    BY DEF PagesOrdered
  <2>1. i > 1 => pages[f][i - 1].index < pages[f][i].index
    BY <1>2 DEF Listing
  <2>2. ASSUME NEW g \in Family, NEW j \in DOMAIN pages[g],
               pages[f][i].addr = pages[g][j].addr
        PROVE  f = g /\ i = j
    <3>1. f = g
      <4>1. /\ pages[f][i].addr \in Addrs(pages[f])
            /\ pages[f][i].addr \in Addrs(pages[g])
        BY <1>0, <2>2
      <4> QED BY <1>2, <4>1
    <3> QED BY <1>2, <2>2, <3>1 DEF Listing
  <2> QED BY <2>1, <2>2
<1> QED BY <1>1, <1>2

\* The invariant in the terms of the lemmas.
LEMMA InvIsSound == MemInv <=> Sound(pages, blocks, freeList) /\ Holds(pages, blocks)
<1>1. ASSUME MemInv PROVE Sound(pages, blocks, freeList) /\ Holds(pages, blocks)
  <2>1. pages \in [Family -> Seq(PageRec)]
    BY <1>1 DEF MemInv, TypeOK, PageRec
  <2>2. /\ \A f \in Family : Listing(pages[f])
        /\ \A f, g \in Family : f # g => Addrs(pages[f]) \cap Addrs(pages[g]) = {}
    BY <1>1, <2>1, OrderedIsListing DEF MemInv, LayoutExact
  <2>3. Chain(blocks) /\ Apart(blocks) /\ DOMAIN freeList = Family
    BY <1>1 DEF MemInv, TypeOK, LayoutExact, BlocksDisjoint, Compact, Chain, ChainType, Apart
  <2>4. /\ \A b \in DOMAIN blocks : \E f \in Family : b[1] \in Addrs(pages[f])
        /\ \A f \in Family : \A p \in Addrs(pages[f]) : First(p) \in DOMAIN blocks
    BY <1>1, MappedIsAddrs DEF MemInv, LayoutExact, PagesHaveBlocks
  <2>5. \A f \in Family : \A b \in DOMAIN blocks :
          b[1] \in Addrs(pages[f]) /\ ~blocks[b].free => blocks[b].size >= Struct[f]
    BY <1>1, <2>2, FamilyIsUnique DEF MemInv, LayoutExact, BlocksDisjoint
  <2>6. \A f \in Family :
          /\ DOMAIN freeList[f] = {b \in DOMAIN blocks :
               blocks[b].free /\ b[1] \in Addrs(pages[f])}
          /\ \A b \in DOMAIN freeList[f] : freeList[f][b] = blocks[b].size
    BY <1>1, MappedIsAddrs DEF MemInv, LayoutExact, FreeListExact
  <2>7. Holds(pages, blocks)
    BY <1>1, MappedIsAddrs DEF MemInv, LayoutExact, Compact, Holds
  <2> QED BY <2>1, <2>2, <2>3, <2>4, <2>5, <2>6, <2>7 DEF Sound
<1>2. ASSUME Sound(pages, blocks, freeList), Holds(pages, blocks) PROVE MemInv
  <2>1. /\ pages \in [Family -> Seq(PageRec)]
        /\ \A f \in Family : Listing(pages[f])
        /\ \A f, g \in Family : f # g => Addrs(pages[f]) \cap Addrs(pages[g]) = {}
        /\ Chain(blocks) /\ Apart(blocks) /\ DOMAIN freeList = Family
    BY <1>2 DEF Sound
  <2>2. TypeOK
    <3>1. \A f \in Family : \A b \in DOMAIN freeList[f] : freeList[f][b] \in 0..PageEnd
      <4> SUFFICES ASSUME NEW f \in Family, NEW b \in DOMAIN freeList[f]
                   PROVE  freeList[f][b] \in 0..PageEnd
        OBVIOUS
      <4>1. b \in DOMAIN blocks /\ freeList[f][b] = blocks[b].size
        BY <1>2 DEF Sound
      <4> QED BY <2>1, <4>1, BlockFacts
    <3> QED BY <2>1, <3>1 DEF TypeOK, Chain, ChainType, PageRec
  <2>3. BlocksDisjoint
    <3>1. \A b \in DOMAIN blocks : ~blocks[b].free => blocks[b].size >= Struct[FamilyOf(b)]
      <4> SUFFICES ASSUME NEW b \in DOMAIN blocks, ~blocks[b].free
                   PROVE  blocks[b].size >= Struct[FamilyOf(b)]
        OBVIOUS
      <4>1. PICK f \in Family : b[1] \in Addrs(pages[f])
        BY <1>2 DEF Sound
      <4>2. FamilyOf(b) = f
        BY <2>1, <4>1, FamilyIsUnique
      <4> QED BY <1>2, <4>1, <4>2 DEF Sound
    <3> QED BY <2>1, <3>1 DEF BlocksDisjoint, Chain
  <2>4. FreeListExact
    BY <1>2, MappedIsAddrs DEF Sound, FreeListExact
  <2>5. Compact
    BY <1>2, <2>1, MappedIsAddrs DEF Compact, Apart, Holds
  <2>6. PagesOrdered
    BY <2>1, OrderedIsListing
  <2>7. PagesHaveBlocks
    BY <1>2, MappedIsAddrs DEF Sound, PagesHaveBlocks
  <2> QED BY <2>2, <2>3, <2>4, <2>5, <2>6, <2>7 DEF MemInv, LayoutExact
<1> QED BY <1>1, <1>2

LEMMA InvIsSoundNext ==
  (MemInv <=> Sound(pages, blocks, freeList) /\ Holds(pages, blocks))'
BY InvIsSound, PTL

LEMMA MemInit == Init => MemInv
<1> SUFFICES ASSUME Init PROVE MemInv
  OBVIOUS
<1>1. /\ pages = [f \in Family |-> <<>>] /\ DOMAIN blocks = {}
      /\ freeList = [f \in Family |-> <<>>]
  BY DEF Init
<1>2. \A f \in Family : pages[f] = <<>> /\ DOMAIN freeList[f] = {} /\ Addrs(pages[f]) = {}
  <2>1. DOMAIN <<>> = {} /\ ToSet(<<>>) = {}
    BY DEF ToSet
  <2> QED BY <1>1, <2>1 DEF Addrs
<1>3. pages \in [Family -> Seq(PageRec)]
  BY <1>1
<1>4. Sound(pages, blocks, freeList)
  BY <1>1, <1>2, <1>3 DEF Sound, Listing, Chain, ChainType, ChainOK, Apart
<1>5. Holds(pages, blocks)
  BY <1>2 DEF Holds
<1> QED BY <1>4, <1>5, InvIsSound

LEMMA AllocateFreeStep ==
  ASSUME MemInv, NEW f \in Family, NEW b \in DOMAIN freeList[f], AllocateFree(f, b)
  PROVE  MemInv'
<1>1. /\ freeList[f][b] >= Struct[f] /\ blocks' = Split(blocks, b, Struct[f])
      /\ freeList' = ListsAfter(blocks, freeList, f, b) /\ pages' = pages
  BY DEF AllocateFree, BigEnough, Allocate, ListsAfter
<1>2. Sound(pages, blocks, freeList) /\ Holds(pages, blocks)
  BY InvIsSound
<1>3. Allocated(pages, blocks, f, b, blocks', freeList')
  BY <1>1, <1>2, AllocateKeeps
<1>4. Holds(pages, blocks')
  BY <1>2, <1>3 DEF Holds, Allocated
<1> QED BY <1>1, <1>3, <1>4, InvIsSoundNext DEF Allocated

LEMMA AllocateNewPageStep ==
  ASSUME MemInv, NEW f \in Family, NEW p \in Page, AllocateNewPage(f, p)
  PROVE  MemInv'
<1> DEFINE k == NewPlace(f)
           N == BlocksMapped(blocks, p)
           L == ListsMapped(blocks, freeList, f, p)
           b == First(p)
<1>1. Sound(pages, blocks, freeList) /\ Holds(pages, blocks)
  BY InvIsSound
<1>2. pages \in [Family -> Seq(PageRec)] /\ DOMAIN freeList = Family
  BY <1>1 DEF Sound
<1>3. \A g \in Family : p \notin Addrs(pages[g])
  BY MappedIsAddrs DEF AllocateNewPage
<1>4. /\ k \in 1..(Len(pages[f]) + 1)
      /\ k <= Len(pages[f]) => pages[f][k].index # k - 1
      /\ \A j \in 1..(k - 1) : pages[f][j].index = j - 1
  <2>1. \E i \in 1..(Len(pages[f]) + 1) :
           /\ i <= Len(pages[f]) => pages[f][i].index # i - 1
           /\ \A j \in 1..(i - 1) : pages[f][j].index = j - 1
    BY <1>2, PlaceExists
  <2> QED BY <2>1 DEF NewPlace
<1>5. /\ pages' = PagesMapped(pages, f, p, k)
      /\ blocks' = Split(N, b, Struct[f])
      /\ freeList' = ListsAfter(N, L, f, b)
  <2>1. pages' = PagesMapped(pages, f, p, k)
    BY <1>2 DEF AllocateNewPage, PagesMapped, PageInserted
  <2>2. Allocate(N, Listed(freeList[f], N, b), f, b)
    BY DEF AllocateNewPage, BlocksMapped, Whole
  <2>3. L[f] = Listed(freeList[f], N, b)
    BY <1>2 DEF ListsMapped
  <2>4. /\ blocks' = Split(N, b, Struct[f])
        /\ freeList' = [freeList EXCEPT ![f] =
             IF Splits(N, b, Struct[f])
             THEN Listed(Unlisted(L[f], b), Split(N, b, Struct[f]), Rest(b, Struct[f]))
             ELSE Unlisted(L[f], b)]
    BY <2>2, <2>3 DEF Allocate
  <2>5. \A e : [freeList EXCEPT ![f] = e] = [L EXCEPT ![f] = e]
    BY <1>2 DEF ListsMapped
  <2> HIDE DEF N, L, b
  <2> QED BY <2>1, <2>4, <2>5 DEF ListsAfter
<1> HIDE DEF k
<1>6. PageMapped(pages, blocks, f, p, pages', N, L)
  BY <1>1, <1>3, <1>4, <1>5, MapKeeps
<1> HIDE DEF N, L
<1>7. /\ Sound(pages', N, L) /\ b \in DOMAIN L[f] /\ L[f][b] >= Struct[f]
  BY <1>6, StructFacts, MemConstants DEF PageMapped
<1>8. Allocated(pages', N, f, b, blocks', freeList')
  BY <1>5, <1>7, AllocateKeeps
<1>9. Holds(pages', blocks')
  <2> SUFFICES ASSUME NEW g \in Family, NEW q \in Addrs(pages'[g])
               PROVE  \E x \in DOMAIN blocks' : x[1] = q /\ ~blocks'[x].free
    BY DEF Holds
  <2>1. CASE q = p
    <3>1. b[1] = p
      BY DEF First
    <3> QED BY <1>8, <2>1, <3>1 DEF Allocated
  <2>2. CASE q # p
    <3>1. q \in Addrs(pages[g])
      BY <1>6, <2>2 DEF PageMapped
    <3>2. PICK x \in DOMAIN blocks : x[1] = q /\ ~blocks[x].free
      BY <1>1, <3>1 DEF Holds
    <3>3. x \in DOMAIN N /\ N[x] = blocks[x] /\ x # b
      BY <1>6 DEF PageMapped
    <3> QED BY <1>8, <3>2, <3>3 DEF Allocated
  <2> QED BY <2>1, <2>2
<1> QED BY <1>8, <1>9, InvIsSoundNext DEF Allocated

LEMMA FreeStep ==
  ASSUME MemInv, NEW b \in DOMAIN blocks, Free(b)
  PROVE  MemInv'
<1>1. Sound(pages, blocks, freeList) /\ Holds(pages, blocks) /\ ~blocks[b].free
  BY InvIsSound DEF Free
<1>2. PICK f \in Family : b[1] \in Addrs(pages[f])
  BY <1>1 DEF Sound
<1>3. /\ FamilyOf(b) = f /\ pages \in [Family -> Seq(PageRec)]
  BY <1>1, <1>2, FamilyIsUnique DEF Sound
<1>4. CASE PageEmpty(After(blocks, b), b[1])
  <2> DEFINE k == CHOOSE i \in DOMAIN pages[f] : pages[f][i].addr = b[1]
  <2>1. k \in 1..Len(pages[f]) /\ pages[f][k].addr = b[1]
    BY <1>2, <1>3, AddrsFacts
  <2>2. /\ blocks' = WithoutPage(After(blocks, b), b[1])
        /\ pages' = PagesDropped(pages, f, k)
        /\ freeList' = ListsDropped(blocks, freeList, f, b)
    BY <1>3, <1>4 DEF Free, After, WithoutPage, RestOf, Dropped, PagesDropped, ListsDropped
  <2> HIDE DEF k
  <2>3. PageDropped(pages', blocks', freeList')
    BY <1>1, <1>4, <2>1, <2>2, FreeDropsPage
  <2> QED BY <2>3, InvIsSoundNext DEF PageDropped
<1>5. CASE ~PageEmpty(After(blocks, b), b[1])
  <2>1. /\ blocks' = After(blocks, b) /\ pages' = pages
        /\ freeList' = ListsFreed(blocks, freeList, f, b)
    BY <1>3, <1>5 DEF Free, After, Left, RestOf, ListsFreed
  <2>2. Sound(pages', blocks', freeList') /\ Holds(pages', blocks')
    BY <1>1, <1>2, <1>5, <2>1, FreeKeepsPage
  <2> QED BY <2>2, InvIsSoundNext
<1> QED BY <1>4, <1>5

LEMMA MemStep == MemInv /\ [Next]_vars => MemInv'
<1> SUFFICES ASSUME MemInv, [Next]_vars PROVE MemInv'
  OBVIOUS
<1>1. ASSUME NEW f \in Family, NEW b \in DOMAIN freeList[f], AllocateFree(f, b) PROVE MemInv'
  BY <1>1, AllocateFreeStep
<1>2. ASSUME NEW f \in Family, NEW p \in Page, AllocateNewPage(f, p) PROVE MemInv'
  BY <1>2, AllocateNewPageStep
<1>3. ASSUME NEW b \in DOMAIN blocks, Free(b) PROVE MemInv'
  BY <1>3, FreeStep
<1>4. CASE UNCHANGED vars
  <2>1. pages' = pages /\ blocks' = blocks /\ freeList' = freeList
    BY <1>4 DEF vars
  <2> QED BY <2>1, InvIsSound, InvIsSoundNext
<1> QED BY <1>1, <1>2, <1>3, <1>4 DEF Next

\* MemInv is an invariant of the allocator.
LEMMA MemAlways == Spec => []MemInv
BY MemInit, MemStep, PTL DEF Spec

\* Pages, blocks and free lists have their types and their sizes fit a page, in
\* every state that XCALLOC and XFREE reach.
THEOREM MemTypes == Spec => []TypeOK
<1>1. MemInv => TypeOK
  BY DEF MemInv
<1> QED BY <1>1, MemAlways, PTL

\* After any order of calls the chains of blocks, the free lists and the lists of
\* pages describe the same memory: no two blocks overlap, the free blocks are
\* those on the lists, neighbours are merged and empty pages are gone.
THEOREM MemLayout == Spec => []LayoutExact
<1>1. MemInv => LayoutExact
  BY DEF MemInv
<1> QED BY <1>1, MemAlways, PTL

\* A free block with room for the structure would have been the head of the list
\* or after one with as much room.
LEMMA RoomIsFound ==
  ASSUME MemInv, NEW f \in Family, NEW b \in DOMAIN blocks, blocks[b].free,
         b[1] \in Mapped(f), blocks[b].size >= Struct[f]
  PROVE  \E x \in DOMAIN freeList[f] : BigEnough(freeList[f], f, x)
<1>1. /\ b \in DOMAIN freeList[f]
      /\ \A x \in DOMAIN freeList[f] : freeList[f][x] \in 0..PageEnd
      /\ freeList[f][b] = blocks[b].size
  BY DEF MemInv, LayoutExact, FreeListExact, TypeOK
<1> DEFINE T == {freeList[f][x] : x \in DOMAIN freeList[f]}
<1>2. T \in SUBSET Nat /\ T # {} /\ PageEnd \in Nat /\ \A t \in T : t <= PageEnd
  BY <1>1, MemConstants
<1>3. PICK t \in T : \A u \in T : u <= t
  BY <1>2, GreatestExists
<1>4. PICK x \in DOMAIN freeList[f] : freeList[f][x] = t
  OBVIOUS
<1>5. IsBiggest(freeList[f], x)
  BY <1>3, <1>4 DEF IsBiggest
<1>6. freeList[f][b] <= freeList[f][x]
  BY <1>1, <1>3, <1>4
<1>7. freeList[f][x] >= Struct[f]
  BY <1>1, <1>6, StructFacts
<1> QED BY <1>5, <1>7 DEF BigEnough

\* A page is asked of the kernel only when no free block of the family has room.
THEOREM PagesWhenNeeded == Spec => PageOnlyWhenNeeded
<1> DEFINE A == \A f \in Family : Len(pages'[f]) > Len(pages[f]) =>
                  \A b \in DOMAIN blocks : blocks[b].free /\ b[1] \in Mapped(f) =>
                    blocks[b].size < Struct[f]
<1>1. MemInv /\ [Next]_vars => [A]_vars
  <2> SUFFICES ASSUME MemInv, Next, NEW f \in Family, Len(pages'[f]) > Len(pages[f]),
                      NEW b \in DOMAIN blocks, blocks[b].free, b[1] \in Mapped(f)
               PROVE  blocks[b].size < Struct[f]
    BY DEF PageOnlyWhenNeeded
  <2>0. /\ pages \in [Family -> Seq(PageRec)] /\ blocks[b].size \in Nat
        /\ Sound(pages, blocks, freeList)
    BY InvIsSound, BlockFacts DEF Sound
  <2>1. \A g \in Family : Len(pages[g]) \in Nat
    BY <2>0, LenProperties
  <2>2. ASSUME NEW g \in Family, NEW x \in DOMAIN freeList[g], AllocateFree(g, x) PROVE FALSE
    BY <2>1, <2>2 DEF AllocateFree
  <2>3. ASSUME NEW g \in Family, NEW p \in Page, AllocateNewPage(g, p)
        PROVE  blocks[b].size < Struct[f]
    <3>1. CASE g # f
      <4>1. pages'[f] = pages[f]
        BY <2>0, <2>3, <3>1 DEF AllocateNewPage
      <4> QED BY <2>1, <4>1
    <3>2. CASE g = f
      <4>1. ~\E x \in DOMAIN freeList[f] : BigEnough(freeList[f], f, x)
        BY <2>3, <3>2 DEF AllocateNewPage
      <4>2. ~(blocks[b].size >= Struct[f])
        BY <4>1, RoomIsFound
      <4> QED BY <2>0, <4>2, StructFacts
    <3> QED BY <3>1, <3>2
  <2>4. ASSUME NEW x \in DOMAIN blocks, Free(x) PROVE FALSE
    <3>1. PICK g \in Family : x[1] \in Addrs(pages[g])
      BY <2>0 DEF Sound
    <3>2. FamilyOf(x) = g
      BY <2>0, <3>1, FamilyIsUnique DEF Sound
    <3>3. pages' = pages \/ pages' = [pages EXCEPT ![g] = Dropped(g, x[1])]
      BY <2>4, <3>2 DEF Free
    <3>4. Len(Dropped(g, x[1])) = Len(pages[g]) - 1
      <4>1. PICK k \in DOMAIN pages[g] :
              pages[g][k].addr = x[1] /\ Dropped(g, x[1]) = RemoveAt(pages[g], k)
        <5>1. \E k \in DOMAIN pages[g] : pages[g][k].addr = x[1]
          <6>1. pages[g] \in Seq(PageRec)
            BY <2>0
          <6>2. /\ DOMAIN pages[g] = 1..Len(pages[g])
                /\ \A p : p \in Addrs(pages[g]) <=>
                     \E k \in 1..Len(pages[g]) : pages[g][k].addr = p
            BY <6>1, AddrsFacts
          <6> QED BY <3>1, <6>2
        <5> QED BY <5>1 DEF Dropped
      <4>2. k \in 1..Len(pages[g]) /\ pages[g] \in Seq(PageRec)
        BY <2>0, AddrsFacts
      <4> QED BY <4>1, <4>2, RemoveAtFacts
    <3>5. pages'[f] = pages[f] \/ Len(pages'[f]) = Len(pages[f]) - 1
      BY <2>0, <3>3, <3>4
    <3> QED BY <2>1, <3>5
  <2> QED BY <2>2, <2>3, <2>4 DEF Next
<1> QED BY <1>1, MemAlways, PTL DEF Spec, PageOnlyWhenNeeded
=============================================================================
