----------------------------- MODULE RedBlackTree -----------------------------
(***************************************************************************)
(* The candidate tree: the red-black tree of Tree/redblack.c with its      *)
(* pointers and colours, behind the macros of Tree/candidate_tree.h and    *)
(* spf_candidate_tree.h, driven as a Dijkstra run drives it.  It           *)
(* implements CandidateQueue.                                              *)
(*                                                                         *)
(* A tree is a record: root, the children kid[side][n], parent, and the    *)
(* set of red nodes.  Nil is the sentinel of the root structure; it has    *)
(* the fields of a node.  The cases left and right of the code are one     *)
(* case here, with a side and its opposite.  A key stands for what the     *)
(* comparison reads: the metric and, where metrics are equal, pseudonodes  *)
(* before routers.                                                         *)
(***************************************************************************)
EXTENDS CandidateConstants, Sequences, FiniteSets, TLC

CONSTANT Nil  \* the sentinel of the tree

ASSUME TreeConstants == Nil \notin Node \cup {Null} /\ IsFiniteSet(Node)

VARIABLES tree,    \* instance->ctree and the candiate_tree_node of every node
          key,     \* spf_metric
          onHeap,  \* nodes with is_node_on_heap set
          cur      \* candidate_node, Null before the first one is taken

vars == <<tree, key, onHeap, cur>>

Sides == {"left", "right"}
Other(d) == IF d = "left" THEN "right" ELSE "left"
Cell == Node \cup {Nil}

\* Apply F to s until nothing changes, at most once for each node and once more:
\* the loops of the code go up or down the tree.
Repeat(F(_), s) ==
  LET after[k \in 0..(Cardinality(Node) + 1)] == IF k = 0 THEN s ELSE F(after[k - 1])
  IN after[Cardinality(Node) + 1]

Side(t, n) == IF t.kid["left"][t.parent[n]] = n THEN "left" ELSE "right"

\* The place below n's parent, or the root, gets x.
Replace(t, n, x) ==
  IF t.parent[n] = Null THEN [t EXCEPT !.root = x]
  ELSE [t EXCEPT !.kid[Side(t, n)][t.parent[n]] = x]

Paint(t, black, red) == [t EXCEPT !.red = (@ \ black) \cup red]

\* _redblack_node_init
NodeInit(t, n) ==
  [t EXCEPT !.kid = [d \in Sides |-> [@[d] EXCEPT ![n] = Nil]],
            !.parent[n] = Null, !.red = @ \ {n}]

-----------------------------------------------------------------------------
(* Rotation, insertion, deletion.                                          *)

\* Mutant of Rotate: the inner child keeps its parent.
RotateOrphan(t, n, d) ==
  LET c == t.kid[Other(d)][n]
      inner == t.kid[d][c]
  IN [Replace(t, n, c) EXCEPT !.kid[Other(d)][n] = inner,
                              !.kid[d][c] = n,
                              !.parent = [@ EXCEPT ![n] = c, ![c] = t.parent[n]]]

\* rb_left_rotate and rb_right_rotate: n goes down to side d, its other child up.
Rotate(t, n, d) ==
  LET c == t.kid[Other(d)][n]
      inner == t.kid[d][c]
      adopt == IF inner = Nil THEN t.parent ELSE [t.parent EXCEPT ![inner] = n]
  IN [Replace(t, n, c) EXCEPT !.kid[Other(d)][n] = inner,
                              !.kid[d][c] = n,
                              !.parent = [adopt EXCEPT ![n] = c, ![c] = t.parent[n]]]

\* The cell where a new node falls off: equal keys go left.
Leaf(t, keys, n) ==
  LET side(p) == IF keys[n] <= keys[p] THEN "left" ELSE "right"
      down(p) == IF t.kid[side(p)][p] = Nil THEN p ELSE t.kid[side(p)][p]
      p == Repeat(down, t.root)
  IN [parent |-> p, side |-> side(p)]

\* One round of the loop that repairs a red node below a red one.
AddRound(s) ==
  LET t == s.t
      p == t.parent[s.n]
      g == t.parent[p]
      d == Side(t, p)
      uncle == t.kid[Other(d)][g]
      inner == s.n = t.kid[Other(d)][p]
      low == IF inner THEN p ELSE s.n
      line == IF inner THEN Rotate(t, p, d) ELSE t
  IN IF s.n = t.root \/ p \notin t.red THEN s
     ELSE IF uncle \in t.red THEN [t |-> Paint(t, {p, uncle}, {g}), n |-> g]
     ELSE [t |-> Rotate(Paint(line, {line.parent[low]}, {g}), g, Other(d)), n |-> low]

\* _redblack_add, duplicate keys allowed
Add(tr, keys, n) ==
  LET t == NodeInit(tr, n)
      leaf == Leaf(t, keys, n)
      hung == [t EXCEPT !.kid[leaf.side][leaf.parent] = n, !.parent[n] = leaf.parent,
                        !.red = @ \cup {n}]
      done == Repeat(AddRound, [t |-> hung, n |-> n]).t
  IN IF t.root = Nil THEN [t EXCEPT !.root = n] ELSE Paint(done, {done.root}, {})

\* redblack_find_leftmost and redblack_find_rightmost
End(t, n, d) ==
  LET down(x) == IF t.kid[d][x] = Nil THEN x ELSE t.kid[d][x]
  IN Repeat(down, n)

\* Mutant of Beside: the climb stops at the parent.
BesideParent(t, n, d) ==
  IF t.kid[d][n] # Nil THEN End(t, t.kid[d][n], Other(d))
  ELSE IF t.parent[n] = Null THEN Nil ELSE t.parent[n]

\* rbtree_successor (d is right) and rbtree_predecessor (d is left): Nil at the end.
Beside(t, n, d) ==
  LET up(s) == IF s.y # Null /\ s.n = t.kid[d][s.y] THEN [n |-> s.y, y |-> t.parent[s.y]] ELSE s
      y == Repeat(up, [n |-> n, y |-> t.parent[n]]).y
  IN IF t.kid[d][n] # Nil THEN End(t, t.kid[d][n], Other(d))
     ELSE IF y = Null THEN Nil ELSE y

\* Mutant of DeleteRound: the sibling takes red, not the colour of the parent.
DeleteRoundRed(s) ==
  LET p == s.t.parent[s.n]
      d == Side(s.t, s.n)
      o == Other(d)
      t == IF s.t.kid[o][p] \in s.t.red
           THEN Rotate(Paint(s.t, {s.t.kid[o][p]}, {p}), p, d) ELSE s.t
      sib == t.kid[o][p]
      line == IF t.kid[o][sib] \in t.red THEN t
              ELSE Rotate(Paint(t, {t.kid[d][sib]}, {sib}), sib, o)
      top == line.kid[o][p]
      done == Rotate(Paint(line, {p, top, line.kid[o][top]}, {}), p, d)
  IN IF s.n = s.t.root \/ s.n \in s.t.red THEN s
     ELSE IF {t.kid["left"][sib], t.kid["right"][sib]} \cap t.red = {}
          THEN [t |-> Paint(t, {}, {sib}), n |-> p]
          ELSE [t |-> done, n |-> done.root]

\* One round of rb_delete_fixup: n has a black too much and is on side d.
DeleteRound(s) ==
  LET p == s.t.parent[s.n]
      d == Side(s.t, s.n)
      o == Other(d)
      t == IF s.t.kid[o][p] \in s.t.red
           THEN Rotate(Paint(s.t, {s.t.kid[o][p]}, {p}), p, d) ELSE s.t
      sib == t.kid[o][p]
      line == IF t.kid[o][sib] \in t.red THEN t
              ELSE Rotate(Paint(t, {t.kid[d][sib]}, {sib}), sib, o)
      top == line.kid[o][p]
      done == Rotate(Paint(line, {p, top, line.kid[o][top]},
                           IF p \in line.red THEN {top} ELSE {}), p, d)
  IN IF s.n = s.t.root \/ s.n \in s.t.red THEN s
     ELSE IF {t.kid["left"][sib], t.kid["right"][sib]} \cap t.red = {}
          THEN [t |-> Paint(t, {}, {sib}), n |-> p]
          ELSE [t |-> done, n |-> done.root]

\* y takes the place, the children and the colour of n, and n the colour of y.
Stuff(t, n, y) ==
  LET moved == [Replace(t, n, y) EXCEPT
                  !.red = (@ \ {n, y}) \cup (IF n \in t.red THEN {y} ELSE {})
                                       \cup (IF y \in t.red THEN {n} ELSE {}),
                  !.parent[y] = t.parent[n],
                  !.kid = [d \in Sides |-> [@[d] EXCEPT ![y] = t.kid[d][n]]]]
  IN [moved EXCEPT !.parent = [@ EXCEPT ![t.kid["left"][n]] = y, ![t.kid["right"][n]] = y]]

\* _redblack_delete: n, or the node after n if n has two children, is spliced out;
\* the sentinel gets a parent when it takes its place.
Delete(t, n) ==
  LET y == IF Nil \in {t.kid["left"][n], t.kid["right"][n]} THEN n ELSE Beside(t, n, "right")
      child == IF t.kid["left"][y] # Nil THEN t.kid["left"][y] ELSE t.kid["right"][y]
      spliced == [Replace(t, y, child) EXCEPT !.parent[child] = t.parent[y]]
      stuffed == IF y = n THEN spliced ELSE Stuff(spliced, n, y)
      fixed == Repeat(DeleteRound, [t |-> stuffed, n |-> child])
      done == IF n \in stuffed.red THEN stuffed ELSE Paint(fixed.t, {fixed.n}, {})
  IN IF t.root = Nil THEN t ELSE
     [done EXCEPT !.kid = [d \in Sides |-> [@[d] EXCEPT ![n] = Nil]], !.parent[n] = Null]

-----------------------------------------------------------------------------
(* Iteration and lookup.                                                   *)

\* _redblack_find_next (d is right) and _redblack_find_prev (d is left)
FindBeside(t, n, d) ==
  IF n = Null THEN (IF t.root = Nil THEN Null ELSE End(t, t.root, Other(d)))
  ELSE LET y == Beside(t, n, d) IN IF y = Nil THEN Null ELSE y

\* ITERATE_RB_TREE: the next node is looked up before the body works on a node.
Iterate(t, Body(_, _)) ==
  LET round(s) == IF s.n = Null THEN s
                  ELSE [n |-> FindBeside(s.t, s.n, "right"), t |-> Body(s.t, s.n)]
  IN Repeat(round, [n |-> FindBeside(t, Null, "right"), t |-> t]).t

\* _redblack_flush
Flush(t) == Iterate(t, Delete)

\* redblack_get_internal: a node with the key, else the last one before it.
Get(t, k, leq) ==
  LET round(s) ==
        IF s.n \in {Nil, Null} \/ key[s.n] = k THEN s
        ELSE IF k > key[s.n] THEN [n |-> t.kid["right"][s.n], best |-> s.n]
        ELSE [s EXCEPT !.n = t.kid["left"][s.n]]
      found == Repeat(round, [n |-> t.root, best |-> Null])
  IN IF found.n # Nil THEN found.n ELSE IF leq THEN found.best ELSE Null

\* _redblack_getnext
GetNext(t, k, eq) ==
  IF t.root = Nil THEN Null
  ELSE IF eq THEN Get(t, k, TRUE) ELSE FindBeside(t, Get(t, k, TRUE), "right")

\* _redblack_walk
Walk(t) ==
  LET below[h \in 0..Cardinality(Node), n \in Cell] ==
        IF h = 0 \/ n = Nil THEN <<>>
        ELSE below[h - 1, t.kid["left"][n]] \o <<n>> \o below[h - 1, t.kid["right"][n]]
  IN below[Cardinality(Node), t.root]

\* _redblack_node_in_tree
InTree(t, n) == t.parent[n] # Null \/ n = t.root

-----------------------------------------------------------------------------
(* The candidate tree of a run.                                            *)

EmptyTree == [root |-> Nil, kid |-> [d \in Sides |-> [n \in Cell |-> Nil]],
              parent |-> [n \in Cell |-> Null], red |-> {}]

Init ==
  /\ tree = EmptyTree
  /\ key = [n \in Node |-> Inf]
  /\ onHeap = {} /\ cur = Null

\* spf_init: the tree is flushed, the root inserted.  A run starts when the one
\* before has taken every candidate.
Start(r) ==
  /\ tree.root = Nil
  /\ key' = [n \in Node |-> IF n = r THEN 0 ELSE Inf]
  /\ tree' = Add(NodeInit(Flush(tree), r), key', r)
  /\ onHeap' = onHeap \cup {r}
  /\ cur' = Null

\* Mutant of InitOnly: the flag of the root stays set.
InitOnlyFlagged(r) ==
  /\ tree.root = Nil
  /\ key' = [n \in Node |-> IF n = r THEN 0 ELSE Inf]
  /\ tree' = Flush(Add(NodeInit(Flush(tree), r), key', r))
  /\ onHeap' = onHeap \cup {r}
  /\ cur' = Null

\* The command that initializes a run and shows the result.
InitOnly(r) ==
  /\ tree.root = Nil
  /\ key' = [n \in Node |-> IF n = r THEN 0 ELSE Inf]
  /\ tree' = Flush(Add(NodeInit(Flush(tree), r), key', r))
  /\ onHeap' = onHeap \ {r}
  /\ cur' = Null

\* SPF_GET_CANDIDATE_TREE_TOP and SPF_REMOVE_CANDIDATE_TREE_TOP
Pop ==
  /\ tree.root # Nil
  /\ cur' = FindBeside(tree, Null, "right")
  /\ tree' = Delete(tree, cur')
  /\ onHeap' = onHeap \ {cur'}
  /\ UNCHANGED key

\* Mutant of Refresh: the node stays where its old key put it.
RefreshNot(t, keys, n) == t

\* CANDIDATE_TREE_NODE_REFRESH
Refresh(t, keys, n) == Add(NodeInit(Delete(t, n), n), keys, n)

\* A shorter distance: a new candidate is inserted, an old one, whose key has
\* changed below the tree, refreshed.
Lower(n, k) ==
  /\ cur # Null /\ key[cur] <= k /\ k < key[n]
  /\ key' = [key EXCEPT ![n] = k]
  /\ tree' = IF n \in onHeap THEN Refresh(tree, key', n)
             ELSE Add(NodeInit(tree, n), key', n)
  /\ onHeap' = onHeap \cup {n}
  /\ UNCHANGED cur

Next ==
  \/ Pop
  \/ \E n \in Node : \/ Start(n) \/ InitOnly(n)
                     \/ \E k \in KeysOf[n] : Lower(n, k)

Spec == Init /\ [][Next]_vars

-----------------------------------------------------------------------------
(* Properties.                                                             *)

\* Every variable keeps its type; the pointers agree in both directions, the nodes
\* outside have none, and the sentinel, whose parent deletion writes, stays black and
\* without children.
TypeOK ==
  LET kid == tree.kid  parent == tree.parent
  IN /\ tree.root \in Cell /\ tree.red \subseteq Node
     /\ kid \in [Sides -> [Cell -> Cell]] /\ parent \in [Cell -> Node \cup {Null}]
     /\ key \in [Node -> 0..Inf] /\ onHeap \subseteq Node /\ cur \in Node \cup {Null}
     /\ tree.root # Nil => parent[tree.root] = Null
     /\ \A d \in Sides : kid[d][Nil] = Nil
     /\ \A n \in Node :
          /\ \A d \in Sides : kid[d][n] # Nil => parent[kid[d][n]] = n /\ InTree(tree, n)
          /\ parent[n] # Null => \E d \in Sides : kid[d][parent[n]] = n

\* The root is black, no red node has a red child, and all ways down pass the same
\* number of black nodes, so the tree is at most twice as high as it must be.
Balanced ==
  LET t == tree
      blacks[h \in 0..Cardinality(Node), n \in Cell] ==
        IF h = 0 \/ n = Nil THEN {0}
        ELSE {b + (IF n \in t.red THEN 0 ELSE 1) :
                b \in UNION {blacks[h - 1, t.kid[d][n]] : d \in Sides}}
  IN /\ t.root \notin t.red
     /\ \A n \in t.red, d \in Sides : InTree(t, n) => t.kid[d][n] \notin t.red
     /\ Cardinality(blacks[Cardinality(Node), t.root]) = 1

\* The flag is_node_on_heap of each node, by which the callers choose between
\* insertion and refresh, says whether it is in the tree: a refresh of a node outside
\* would make the sentinel the root and lose all candidates.
FlagsExact == \A n \in Node : n \in onHeap <=> InTree(tree, n)

\* The look-ups by key, forwards and backwards, agree with the order of a walk; an
\* iteration meets every node once.
QueriesExact ==
  LET w == Walk(tree)
      at(i) == IF i \in DOMAIN w THEN w[i] ELSE Null
      before(k) == Cardinality({i \in DOMAIN w : key[w[i]] < k})
      equal(k) == {w[i] : i \in {j \in DOMAIN w : key[w[j]] = k}}
  IN /\ \A i \in DOMAIN w : /\ FindBeside(tree, w[i], "right") = at(i + 1)
                            /\ FindBeside(tree, w[i], "left") = at(i - 1)
     /\ FindBeside(tree, Null, "right") = at(1)
     /\ FindBeside(tree, Null, "left") = at(Len(w))
     /\ \A k \in 0..Inf :
          IF equal(k) # {} THEN Get(tree, k, FALSE) \in equal(k)
          ELSE /\ Get(tree, k, FALSE) = Null
               /\ Get(tree, k, TRUE) = at(before(k))
               /\ GetNext(tree, k, FALSE) = at(before(k) + 1)

\* The tree is the queue of candidates: nearest first, the latest of equal ones
\* first, and a refresh moves one node and no other.
Queue == INSTANCE CandidateQueue WITH items <- Walk(tree)
ImplementsQueue == Queue!Spec
=============================================================================
