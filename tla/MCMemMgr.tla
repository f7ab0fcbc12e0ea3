------------------------------ MODULE MCMemMgr ------------------------------
(***************************************************************************)
(* Two families over three pages: the sizes leave every kind of remainder  *)
(* behind an allocated block.                                              *)
(***************************************************************************)
EXTENDS MemMgr, TLC

CONSTANTS fa, fb, p1, p2, p3

Structs == (fa :> 3) @@ (fb :> 4)
Symmetry == Permutations(Page)
=============================================================================
