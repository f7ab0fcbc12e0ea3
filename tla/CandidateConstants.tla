-------------------------- MODULE CandidateConstants --------------------------
(***************************************************************************)
(* What the queue of candidates and the tree that implements it are about. *)
(***************************************************************************)
EXTENDS Naturals

CONSTANTS Node,   \* the nodes of a level
          Null,   \* no node
          KeysOf, \* the distances a node may get
          Inf     \* INFINITE_METRIC

ASSUME QueueConstants == /\ Null \notin Node
                         /\ Inf \in Nat
                         /\ KeysOf \in [Node -> SUBSET (0..Inf)]
=============================================================================
