---------------------------- MODULE SequenceLemmas ----------------------------
(***************************************************************************)
(* What the proofs of the other modules need to know of sequences and of   *)
(* least and greatest numbers.                                             *)
(***************************************************************************)
EXTENDS Integers, Sequences, SequencesExt, SequenceTheorems, WellFoundedInduction, TLAPS

\* Two sequences of known lengths, one behind the other.
LEMMA ConcatFacts ==
  ASSUME NEW S, NEW a \in Seq(S), NEW b \in Seq(S), NEW m \in Nat, NEW n \in Nat,
         Len(a) = m, Len(b) = n
  PROVE  /\ a \o b \in Seq(S)
         /\ Len(a \o b) = m + n
         /\ \A j \in 1..m : (a \o b)[j] = a[j]
         /\ \A j \in 1..n : (a \o b)[m + j] = b[j]
<1>1. /\ a \o b \in Seq(S) /\ Len(a \o b) = m + n
      /\ \A j \in 1..(m + n) : (a \o b)[j] = IF j <= m THEN a[j] ELSE b[j - m]
  BY ConcatProperties
<1>2. ASSUME NEW j \in 1..m PROVE (a \o b)[j] = a[j]
  BY <1>1
<1>3. ASSUME NEW j \in 1..n PROVE (a \o b)[m + j] = b[j]
  <2>1. m + j \in 1..(m + n) /\ ~(m + j <= m) /\ (m + j) - m = j
    OBVIOUS
  <2> QED BY <1>1, <2>1
<1> QED BY <1>1, <1>2, <1>3

\* RemoveAt moves the items behind the place one to the front.
LEMMA RemoveAtFacts ==
  ASSUME NEW S, NEW s \in Seq(S), NEW i \in 1..Len(s)
  PROVE  /\ RemoveAt(s, i) \in Seq(S)
         /\ Len(RemoveAt(s, i)) = Len(s) - 1
         /\ \A j \in 1..(Len(s) - 1) : RemoveAt(s, i)[j] = IF j < i THEN s[j] ELSE s[j + 1]
<1> DEFINE a == SubSeq(s, 1, i - 1)
           b == SubSeq(s, i + 1, Len(s))
<1>0. PICK n \in Nat : Len(s) = n
  BY LenProperties
<1>1. /\ a \in Seq(S) /\ Len(a) = i - 1
      /\ \A j \in 1..(i - 1) : a[j] = s[j]
  BY <1>0, SubSeqProperties
<1>2. /\ b \in Seq(S) /\ Len(b) = n - i
      /\ \A j \in 1..(n - i) : b[j] = s[j + i]
  BY <1>0, SubSeqProperties
<1>5. RemoveAt(s, i) = a \o b
  BY DEF RemoveAt
<1> HIDE DEF a, b
<1>3. /\ i - 1 \in Nat /\ n - i \in Nat /\ (i - 1) + (n - i) = n - 1
  BY <1>0
<1>4. /\ a \o b \in Seq(S) /\ Len(a \o b) = (i - 1) + (n - i)
      /\ \A j \in 1..(i - 1) : (a \o b)[j] = a[j]
      /\ \A j \in 1..(n - i) : (a \o b)[(i - 1) + j] = b[j]
  <2>1. PICK p \in Nat : p = i - 1
    BY <1>3
  <2>2. PICK q \in Nat : q = n - i
    BY <1>3
  <2>3. Len(a) = p /\ Len(b) = q
    BY <1>1, <1>2, <2>1, <2>2
  <2>4. /\ a \o b \in Seq(S) /\ Len(a \o b) = p + q
        /\ \A j \in 1..p : (a \o b)[j] = a[j]
        /\ \A j \in 1..q : (a \o b)[p + j] = b[j]
    <3>1. a \in Seq(S) /\ b \in Seq(S)
      BY <1>1, <1>2
    <3>2. /\ a \o b \in Seq(S) /\ Len(a \o b) = p + q
          /\ \A j \in 1..(p + q) : (a \o b)[j] = IF j <= p THEN a[j] ELSE b[j - p]
      BY <3>1, <2>3, ConcatProperties
    <3>3. ASSUME NEW j \in 1..p PROVE (a \o b)[j] = a[j]
      BY <3>2
    <3>4. ASSUME NEW j \in 1..q PROVE (a \o b)[p + j] = b[j]
      <4>1. p + j \in 1..(p + q) /\ ~(p + j <= p) /\ (p + j) - p = j
        OBVIOUS
      <4> QED BY <3>2, <4>1
    <3> QED BY <3>2, <3>3, <3>4
  <2> QED BY <2>1, <2>2, <2>4
<1>6. ASSUME NEW j \in 1..(n - 1)
      PROVE  (a \o b)[j] = IF j < i THEN s[j] ELSE s[j + 1]
  <2>1. CASE j < i
    BY <1>0, <1>1, <1>4, <2>1
  <2>2. CASE ~(j < i)
    <3> DEFINE h == j - (i - 1)
    <3>1. h \in 1..(n - i) /\ (i - 1) + h = j /\ h + i = j + 1
      BY <1>0, <2>2
    <3> HIDE DEF h
    <3>2. (a \o b)[(i - 1) + h] = b[h] /\ b[h] = s[h + i]
      BY <1>2, <1>4, <3>1
    <3> QED BY <2>2, <3>1, <3>2
  <2> QED BY <2>1, <2>2
<1> QED BY <1>0, <1>3, <1>4, <1>5, <1>6

\* InsertAt moves the items from the place on one to the back.
LEMMA InsertAtFacts ==
  ASSUME NEW S, NEW s \in Seq(S), NEW i \in 1..(Len(s) + 1), NEW e \in S
  PROVE  /\ InsertAt(s, i, e) \in Seq(S)
         /\ Len(InsertAt(s, i, e)) = Len(s) + 1
         /\ \A j \in 1..(Len(s) + 1) : InsertAt(s, i, e)[j] =
              IF j < i THEN s[j] ELSE IF j = i THEN e ELSE s[j - 1]
<1> DEFINE a == SubSeq(s, 1, i - 1)
           b == SubSeq(s, i, Len(s))
           m == a \o <<e>>
<1>0. PICK n \in Nat : Len(s) = n
  BY LenProperties
<1>1. /\ a \in Seq(S) /\ Len(a) = i - 1
      /\ \A j \in 1..(i - 1) : a[j] = s[j]
  BY <1>0, SubSeqProperties
<1>2. /\ b \in Seq(S) /\ Len(b) = n - i + 1
      /\ \A j \in 1..(n - i + 1) : b[j] = s[j + i - 1]
  BY <1>0, SubSeqProperties
<1>3. <<e>> \in Seq(S) /\ Len(<<e>>) = 1 /\ <<e>>[1] = e
  OBVIOUS
<1>4. InsertAt(s, i, e) = m \o b
  BY DEF InsertAt
<1>5. m = a \o <<e>>
  OBVIOUS
<1> HIDE DEF a, b, m
<1>6. /\ i - 1 \in Nat /\ n - i + 1 \in Nat /\ (i - 1) + 1 = i /\ i + (n - i + 1) = n + 1
      /\ i \in Nat
  BY <1>0
<1>7. /\ m \in Seq(S) /\ Len(m) = (i - 1) + 1
      /\ \A j \in 1..(i - 1) : m[j] = a[j]
      /\ \A j \in 1..1 : m[(i - 1) + j] = <<e>>[j]
  BY <1>1, <1>3, <1>5, <1>6, ConcatFacts
<1>8. m[i] = e /\ Len(m) = i /\ \A j \in 1..(i - 1) : m[j] = s[j]
  <2>1. 1 \in 1..1
    OBVIOUS
  <2> QED BY <1>1, <1>3, <1>6, <1>7, <2>1
<1>9. /\ m \o b \in Seq(S) /\ Len(m \o b) = i + (n - i + 1)
      /\ \A j \in 1..i : (m \o b)[j] = m[j]
      /\ \A j \in 1..(n - i + 1) : (m \o b)[i + j] = b[j]
  BY <1>2, <1>6, <1>7, <1>8, ConcatFacts
<1>10. ASSUME NEW j \in 1..(n + 1)
       PROVE  (m \o b)[j] = IF j < i THEN s[j] ELSE IF j = i THEN e ELSE s[j - 1]
  <2>1. CASE j < i
    BY <1>6, <1>8, <1>9, <2>1
  <2>2. CASE j = i
    BY <1>6, <1>8, <1>9, <2>2
  <2>0. j \in Nat /\ i \in Nat
    BY <1>0, <1>6
  <2>3. CASE ~(j < i) /\ j # i
    <3> DEFINE h == j - i
    <3>1. h \in 1..(n - i + 1) /\ i + h = j /\ h + i - 1 = j - 1
      BY <1>0, <1>6, <2>0, <2>3
    <3> HIDE DEF h
    <3>2. (m \o b)[i + h] = b[h] /\ b[h] = s[h + i - 1]
      BY <1>2, <1>9, <3>1
    <3> QED BY <2>3, <3>1, <3>2
  <2> QED BY <2>0, <2>1, <2>2, <2>3
<1> QED BY <1>0, <1>4, <1>6, <1>9, <1>10

-----------------------------------------------------------------------------
(* Least and greatest numbers.                                             *)

\* A set of natural numbers that is not empty has a least element.
LEMMA LeastExists ==
  ASSUME NEW T \in SUBSET Nat, T # {}
  PROVE  \E x \in T : \A y \in T : x <= y
<1> DEFINE R == OpToRel(<, Nat)
<1>1. IsWellFoundedOn(R, Nat)
  BY NatLessThanWellFounded
<1>2. PICK x \in T : \A y \in T : ~(<<y, x>> \in R)
  BY <1>1, WFMin
<1>3. ASSUME NEW y \in T PROVE x <= y
  <2>1. ~(y < x)
    BY <1>2 DEF OpToRel
  <2> QED BY <2>1
<1> QED BY <1>3

\* One that has an upper bound has a greatest one.
LEMMA GreatestExists ==
  ASSUME NEW T \in SUBSET Nat, T # {}, NEW m \in Nat, \A x \in T : x <= m
  PROVE  \E x \in T : \A y \in T : y <= x
<1> DEFINE U == {m - x : x \in T}
<1>0. \A x \in T : m - x \in Nat
  OBVIOUS
<1>1. U \in SUBSET Nat /\ U # {}
  BY <1>0
<1>2. PICK u \in U : \A v \in U : u <= v
  BY <1>1, LeastExists
<1>3. PICK x \in T : u = m - x
  BY <1>2
<1>4. ASSUME NEW y \in T PROVE y <= x
  <2>1. m - x <= m - y
    BY <1>2, <1>3
  <2> QED BY <2>1
<1> QED BY <1>4

\* A set of numbers up to N that holds 0 and the successor of each of its members
\* holds all of them.
LEMMA EachRound ==
  ASSUME NEW N \in Nat, NEW S, 0 \in S,
         \A k \in 0..N : k < N /\ k \in S => k + 1 \in S
  PROVE  \A k \in 0..N : k \in S
<1> DEFINE T == {k \in 0..N : k \notin S}
<1>1. SUFFICES ASSUME T # {}
               PROVE  FALSE
  OBVIOUS
<1>2. PICK x \in T : \A y \in T : x <= y
  <2>1. T \in SUBSET Nat
    OBVIOUS
  <2> HIDE DEF T
  <2>2. QED
    BY <1>1, <2>1, LeastExists
<1>3. x - 1 \in 0..N /\ x - 1 < N
  BY <1>2
<1>4. x - 1 \in S
  BY <1>2, <1>3
<1>5. QED
  BY <1>2, <1>3, <1>4

-----------------------------------------------------------------------------
(* Repeated steps.                                                         *)

\* f counts the steps from the base on.
Repeats(f, N, S, base, step) ==
  /\ f \in [0..N -> S]
  /\ f = [k \in 0..N |-> IF k = 0 THEN base ELSE step[f[k - 1]]]

\* A step can be repeated any number of times.
LEMMA RepeatExists ==
  ASSUME NEW N \in Nat, NEW S, NEW step \in [S -> S], NEW base \in S
  PROVE  \E f : Repeats(f, N, S, base, step)
<1> DEFINE Good(f, m) == /\ f \in [0..m -> S] /\ f[0] = base
                         /\ \A k \in 1..m : f[k] = step[f[k - 1]]
           T == {m \in 0..N : \E f : Good(f, m)}
<1>1. 0 \in T
  <2>1. PICK f : f = [k \in 0..0 |-> base]
    OBVIOUS
  <2>2. Good(f, 0)
    BY <2>1
  <2> HIDE DEF Good
  <2>3. QED
    BY <2>2
<1>2. ASSUME NEW m \in 0..N, m < N, m \in T
      PROVE  m + 1 \in T
  <2>1. PICK f : Good(f, m)
    BY <1>2
  <2>2. PICK g : g = [k \in 0..(m + 1) |-> IF k <= m THEN f[k] ELSE step[f[m]]]
    OBVIOUS
  <2>3. f[m] \in S
    BY <2>1
  <2>4. g \in [0..(m + 1) -> S] /\ g[0] = base
    BY <2>1, <2>2, <2>3
  <2>5. ASSUME NEW k \in 1..(m + 1)
        PROVE  g[k] = step[g[k - 1]]
    <3>1. k - 1 \in 0..m /\ k - 1 \in 0..(m + 1) /\ k \in 0..(m + 1)
      OBVIOUS
    <3>2. g[k - 1] = f[k - 1]
      BY <2>2, <3>1
    <3>3. CASE k <= m
      BY <2>1, <2>2, <3>1, <3>2, <3>3
    <3>4. CASE k = m + 1
      BY <2>2, <3>1, <3>2, <3>4
    <3>5. QED
      BY <3>3, <3>4
  <2>6. Good(g, m + 1)
    BY <2>4, <2>5
  <2> HIDE DEF Good
  <2>7. QED
    BY <1>2, <2>6
<1>3. N \in T
  <2> HIDE DEF T
  <2>1. QED
    BY <1>1, <1>2, EachRound
<1>4. PICK f : Good(f, N)
  <2> HIDE DEF Good
  <2>1. QED
    BY <1>3
<1>5. \A k \in 0..N : f[k] = IF k = 0 THEN base ELSE step[f[k - 1]]
  BY <1>4
<1>6. f = [k \in 0..N |-> IF k = 0 THEN base ELSE step[f[k - 1]]]
  BY <1>4, <1>5
<1>7. QED
  BY <1>4, <1>6 DEF Repeats

Repeated(f, S, base, step) ==
  /\ f \in [Nat -> S]
  /\ f = [k \in Nat |-> IF k = 0 THEN base ELSE step[f[k - 1]]]

\* It can be repeated for ever.
LEMMA RepeatForever ==
  ASSUME NEW S, NEW step \in [S -> S], NEW base \in S
  PROVE  \E f : Repeated(f, S, base, step)
<1> DEFINE G(N) == CHOOSE f : Repeats(f, N, S, base, step)
<1>1. \A N \in Nat : Repeats(G(N), N, S, base, step)
  BY RepeatExists
<1> HIDE DEF G
<1>2. ASSUME NEW N \in Nat
      PROVE  /\ G(N)[0] = base
             /\ \A k \in 0..N : G(N)[k] \in S
             /\ \A k \in 0..N : k < N => G(N)[k + 1] = step[G(N)[k]]
  <2>1. Repeats(G(N), N, S, base, step)
    BY <1>1
  <2>2. \A k \in 0..N : G(N)[k] = IF k = 0 THEN base ELSE step[G(N)[k - 1]]
    BY <2>1 DEF Repeats
  <2>3. ASSUME NEW k \in 0..N, k < N PROVE G(N)[k + 1] = step[G(N)[k]]
    <3>1. k + 1 \in 0..N /\ k + 1 # 0 /\ (k + 1) - 1 = k
      BY <2>3
    <3>2. QED
      BY <2>2, <3>1
  <2>4. QED
    BY <2>1, <2>2, <2>3 DEF Repeats
<1>3. ASSUME NEW N \in Nat
      PROVE  G(N + 1)[N] = G(N)[N]
  <2> DEFINE T == {k \in 0..N : G(N + 1)[k] = G(N)[k]}
  <2>1. N + 1 \in Nat
    OBVIOUS
  <2>2. 0 \in T
    BY <1>2, <2>1
  <2>3. ASSUME NEW k \in 0..N, k < N, k \in T PROVE k + 1 \in T
    <3>1. k + 1 \in 0..N /\ k \in 0..(N + 1) /\ k < N + 1
      BY <2>3
    <3>2. G(N)[k + 1] = step[G(N)[k]] /\ G(N + 1)[k + 1] = step[G(N + 1)[k]]
      BY <1>2, <2>1, <2>3, <3>1
    <3>3. QED
      BY <2>3, <3>1, <3>2
  <2> HIDE DEF T
  <2>4. N \in T
    BY <2>2, <2>3, EachRound
  <2>5. QED
    BY <2>4 DEF T
<1>4. PICK f : f = [k \in Nat |-> G(k)[k]]
  OBVIOUS
<1>5. f \in [Nat -> S] /\ f[0] = base
  BY <1>2, <1>4
<1>6. ASSUME NEW k \in Nat, k # 0
      PROVE  f[k] = step[f[k - 1]]
  <2>1. PICK j \in Nat : k = j + 1
    <3>1. k - 1 \in Nat /\ k = (k - 1) + 1
      BY <1>6
    <3>2. QED
      BY <3>1
  <2>2. j \in 0..(j + 1) /\ j < j + 1 /\ j + 1 \in Nat /\ k - 1 = j
    BY <2>1
  <2>3. G(j + 1)[j + 1] = step[G(j + 1)[j]]
    BY <1>2, <2>2
  <2>4. G(j + 1)[j] = G(j)[j]
    BY <1>3
  <2>5. f[k] = G(j + 1)[j + 1] /\ f[k - 1] = G(j)[j]
    BY <1>4, <2>1, <2>2
  <2>6. QED
    BY <2>3, <2>4, <2>5
<1>7. f = [k \in Nat |-> IF k = 0 THEN base ELSE step[f[k - 1]]]
  BY <1>5, <1>6
<1>8. QED
  BY <1>5, <1>7 DEF Repeated
\* f counts steps that depend on how often they were taken.
Counts(f, N, D, base, step) ==
  /\ f \in [0..N -> D]
  /\ f = [k \in 0..N |-> IF k = 0 THEN base ELSE step[<<k, f[k - 1]>>]]

\* Such steps can be repeated any number of times.
LEMMA CountedSteps ==
  ASSUME NEW N \in Nat, NEW D, NEW step \in [(0..N) \X D -> D], NEW base \in D
  PROVE  \E f : Counts(f, N, D, base, step)
<1> DEFINE P == (0..N) \X D
           next == [p \in P |-> IF p[1] < N THEN <<p[1] + 1, step[<<p[1] + 1, p[2]>>]>> ELSE p]
<1>1. next \in [P -> P] /\ <<0, base>> \in P
  OBVIOUS
<1>2. \A k \in 0..N, d \in D : k < N => next[<<k, d>>] = <<k + 1, step[<<k + 1, d>>]>>
  OBVIOUS
<1> HIDE DEF next, P
<1>3. PICK g : Repeats(g, N, P, <<0, base>>, next)
  BY <1>1, RepeatExists
<1>4. /\ g[0] = <<0, base>>
      /\ \A k \in 0..N : g[k] \in P
      /\ \A k \in 0..N : k < N => g[k + 1] = next[g[k]]
  BY <1>3 DEF Repeats
<1> DEFINE T == {k \in 0..N : \E d \in D : g[k] = <<k, d>>}
<1>5. 0 \in T
  BY <1>4
<1>6. ASSUME NEW k \in 0..N, k < N, k \in T PROVE k + 1 \in T
  <2>1. PICK d \in D : g[k] = <<k, d>>
    BY <1>6
  <2>2. g[k + 1] = <<k + 1, step[<<k + 1, d>>]>>
    BY <1>2, <1>4, <1>6, <2>1
  <2>3. k + 1 \in 0..N
    BY <1>6
  <2>4. step[<<k + 1, d>>] \in D
    BY <2>3
  <2>5. QED
    BY <2>2, <2>3, <2>4
<1> HIDE DEF T
<1>7. \A k \in 0..N : k \in T
  BY <1>5, <1>6, EachRound
<1> DEFINE f == [k \in 0..N |-> g[k][2]]
<1>8. ASSUME NEW k \in 0..N PROVE f[k] \in D /\ g[k] = <<k, f[k]>>
  <2>1. PICK d \in D : g[k] = <<k, d>>
    BY <1>7 DEF T
  <2>2. QED
    BY <2>1
<1>9. ASSUME NEW k \in 1..N PROVE f[k] = step[<<k, f[k - 1]>>]
  <2>1. k - 1 \in 0..N /\ k - 1 < N /\ (k - 1) + 1 = k
    OBVIOUS
  <2>2. g[k - 1] = <<k - 1, f[k - 1]>> /\ f[k - 1] \in D
    BY <1>8, <2>1
  <2>3. g[k] = <<k, step[<<k, f[k - 1]>>]>>
    BY <1>2, <1>4, <2>1, <2>2
  <2>4. QED
    BY <2>3
<1>10. f[0] = base
  BY <1>4
<1> HIDE DEF f
<1>11. f \in [0..N -> D]
  BY <1>8 DEF f
<1>12. f = [k \in 0..N |-> IF k = 0 THEN base ELSE step[<<k, f[k - 1]>>]]
  BY <1>9, <1>10, <1>11
<1>13. QED
  BY <1>11, <1>12 DEF Counts
=============================================================================
