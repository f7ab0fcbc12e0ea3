---------------------------- MODULE CandidateQueue ----------------------------
(***************************************************************************)
(* What a Dijkstra run expects of the candidate tree: a sequence of nodes  *)
(* ordered by their distance.  RedBlackTree implements it.                 *)
(***************************************************************************)
EXTENDS CandidateConstants, Sequences, SequencesExt

VARIABLES items,  \* the candidates, the next one first
          key,    \* spf_metric
          cur     \* the node in work, Null before the first one is taken

vars == <<items, key, cur>>

\* The sequence without node n.
Without(n) ==
  IF n \in Range(items) THEN {RemoveAt(items, i) : i \in {j \in DOMAIN items : items[j] = n}}
  ELSE {items}

\* The places for node n: behind the smaller keys, before the greater and the equal
\* ones.
Places(s, keys, n) ==
  {i \in 1..(Len(s) + 1) : /\ \A j \in 1..(i - 1) : keys[s[j]] < keys[n]
                           /\ \A j \in i..Len(s) : keys[n] <= keys[s[j]]}

Init ==
  /\ items = <<>>
  /\ key = [n \in Node |-> Inf]
  /\ cur = Null

\* spf_init: all distances are infinite but that of the root.
Start(r) ==
  /\ items = <<>>
  /\ key' = [n \in Node |-> IF n = r THEN 0 ELSE Inf]
  /\ items' = <<r>>
  /\ cur' = Null

\* The command that only initializes a run.
Reset(r) ==
  /\ items = <<>>
  /\ key' = [n \in Node |-> IF n = r THEN 0 ELSE Inf]
  /\ cur' = Null
  /\ UNCHANGED items

Pop ==
  /\ items # <<>>
  /\ cur' = Head(items)
  /\ items' = Tail(items)
  /\ UNCHANGED key

\* A shorter distance, behind the node in work: a new candidate is placed, an old
\* one is moved.
Lower(n, k) ==
  /\ cur # Null /\ key[cur] <= k /\ k < key[n]
  /\ key' = [key EXCEPT ![n] = k]
  /\ \E rest \in Without(n) : \E i \in Places(rest, key', n) : items' = InsertAt(rest, i, n)
  /\ UNCHANGED cur

Next ==
  \/ Pop
  \/ \E n \in Node : \/ Start(n) \/ Reset(n)
                     \/ \E k \in KeysOf[n] : Lower(n, k)

Spec == Init /\ [][Next]_vars

-----------------------------------------------------------------------------
\* Every variable keeps its type.
TypeOK ==
  /\ items \in Seq(Node)
  /\ key \in [Node -> 0..Inf]
  /\ cur \in Node \cup {Null}

\* No node is a candidate twice.
NoRepeats == \A i, j \in DOMAIN items : items[i] = items[j] => i = j

\* The candidates are in the order of their distances, none is nearer than the node
\* in work.
NearestFirst ==
  /\ \A i, j \in DOMAIN items : i < j => key[items[i]] <= key[items[j]]
  /\ cur # Null => \A i \in DOMAIN items : key[cur] <= key[items[i]]

\* A node that is reached and no candidate was taken, and is not farther than the
\* node in work.
TakenNear ==
  items # <<>> \/ cur # Null =>
    \A n \in Node \ Range(items) :
      key[n] = Inf \/ (cur # Null /\ key[n] <= key[cur])

Inv == TypeOK /\ NoRepeats /\ NearestFirst /\ TakenNear

\* The distance of a node that was taken never changes again in the run.
TakenFinal ==
  [][cur' # Null => \A n \in Node \ Range(items) : key[n] # Inf => key'[n] = key[n]]_vars
=============================================================================
