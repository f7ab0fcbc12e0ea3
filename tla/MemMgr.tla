------------------------------- MODULE MemMgr -------------------------------
(***************************************************************************)
(* The allocator behind XCALLOC and XFREE (LinuxMemoryManager/mm.c): for   *)
(* every structure type (page family) a list of pages, each a chain of     *)
(* blocks, and a list of the family's free blocks in descending order of   *)
(* size.                                                                   *)
(*                                                                         *)
(* A block is named by its page and offset: Meta bytes of meta data, then  *)
(* its data.  The first block of a page starts at offset 0 and a page ends *)
(* at PageEnd.  The free list is the set of its blocks with the size each  *)
(* had when it was inserted: its head is a block of the largest such size. *)
(* Every caller asks for one structure (units = 1), so a block never       *)
(* serves two sizes.                                                       *)
(***************************************************************************)
EXTENDS Naturals, Sequences, FiniteSets, SequencesExt

CONSTANTS
  Family,   \* structure types
  Struct,   \* Struct[f]: struct_size of f
  Page,     \* addresses where the kernel may map a page (bound)
  Meta,     \* sizeof(block_meta_data_t)
  PageEnd,  \* end of a page, relative to its first block
  None      \* no block

ASSUME MemConstants ==
  /\ Meta \in Nat \ {0} /\ PageEnd \in Nat /\ Meta <= PageEnd
  /\ Struct \in [Family -> Nat \ {0}]
  /\ \A f \in Family : Meta + Struct[f] <= PageEnd
  /\ None \notin Page \X Nat

VARIABLES
  pages,    \* per family, its pages from first_page on: [addr, index]
  blocks,   \* block to [free, size, prev, next]
  freeList  \* per family, blocks on its free list to size when inserted

vars == <<pages, blocks, freeList>>

Mapped(f) == {p.addr : p \in ToSet(pages[f])}
FamilyOf(b) == CHOOSE f \in Family : b[1] \in Mapped(f)

DataEnd(B, b) == b[2] + Meta + B[b].size
First(p) == <<p, 0>>

-----------------------------------------------------------------------------
Init ==
  /\ pages = [f \in Family |-> <<>>]
  /\ blocks = <<>>
  /\ freeList = [f \in Family |-> <<>>]

\* mm_add_free_block_meta_data_to_free_block_list
Listed(L, B, b) == [x \in DOMAIN L \cup {b} |-> IF x = b THEN B[b].size ELSE L[x]]
\* remove_glthread, which does nothing for a block that is on no list.
Unlisted(L, b) == [x \in DOMAIN L \ {b} |-> L[x]]

\* Mutant of IsBiggest: the list is sorted the other way around.
IsSmallest(L, b) == b \in DOMAIN L /\ \A x \in DOMAIN L : L[x] >= L[b]

\* Head of the free list: a block of the largest size at insertion.
IsBiggest(L, b) == b \in DOMAIN L /\ \A x \in DOMAIN L : L[x] <= L[b]

-----------------------------------------------------------------------------
(* xcalloc.                                                                *)

\* mm_split_free_data_block_for_allocation: the first size bytes of b are
\* allocated; what remains becomes a free block if its meta data fits.
Rest(b, size) == <<b[1], b[2] + Meta + size>>

\* Mutant of Splits: room for the meta data is not asked for.
SplitsAlways(B, b, size) == B[b].size # size

Splits(B, b, size) == B[b].size - size >= Meta

Split(B, b, size) ==
  LET r == Rest(b, size)
      after == B[b].next
  IN IF ~Splits(B, b, size) THEN [B EXCEPT ![b] = [@ EXCEPT !.free = FALSE, !.size = size]]
     ELSE [x \in DOMAIN B \cup {r} |->
             IF x = b THEN [free |-> FALSE, size |-> size, prev |-> B[b].prev, next |-> r]
             ELSE IF x = r
             THEN [free |-> TRUE, size |-> B[b].size - size - Meta, prev |-> b, next |-> after]
             ELSE IF x = after THEN [B[x] EXCEPT !.prev = r]
             ELSE B[x]]

Allocate(B, L, f, b) ==
  LET split == Split(B, b, Struct[f])
      rest == Unlisted(L, b)
  IN /\ blocks' = split
     /\ freeList' = [freeList EXCEPT ![f] =
          IF Splits(B, b, Struct[f]) THEN Listed(rest, split, Rest(b, Struct[f])) ELSE rest]

BigEnough(L, f, b) == IsBiggest(L, b) /\ L[b] >= Struct[f]

AllocateFree(f, b) ==
  /\ BigEnough(freeList[f], f, b)
  /\ Allocate(blocks, freeList[f], f, b)
  /\ UNCHANGED pages

\* mm_get_available_page_index: the first gap in the indices.
NewPlace(f) ==
  CHOOSE k \in 1..(Len(pages[f]) + 1) :
    /\ k <= Len(pages[f]) => pages[f][k].index # k - 1
    /\ \A j \in 1..(k - 1) : pages[f][j].index = j - 1

\* mm_family_new_page_add: the page is one free block.
AllocateNewPage(f, p) ==
  /\ ~\E b \in DOMAIN freeList[f] : BigEnough(freeList[f], f, b)
  /\ \A g \in Family : p \notin Mapped(g)
  /\ LET k == NewPlace(f)
         index == IF k = 1 THEN 0 ELSE pages[f][k - 1].index + 1
     IN pages' = [pages EXCEPT ![f] = InsertAt(@, k, [addr |-> p, index |-> index])]
  /\ LET whole == [free |-> TRUE, size |-> PageEnd - Meta, prev |-> None, next |-> None]
         mapped == [x \in DOMAIN blocks \cup {First(p)} |->
                      IF x = First(p) THEN whole ELSE blocks[x]]
     IN Allocate(mapped, Listed(freeList[f], mapped, First(p)), f, First(p))

-----------------------------------------------------------------------------
(* xfree.                                                                  *)

\* mm_free_blocks takes the bytes between the block and the next one, or the end
\* of the page, into the block.
Freeing(B, b) ==
  LET end == IF B[b].next = None THEN PageEnd ELSE B[b].next[2]
  IN [B EXCEPT ![b] = [@ EXCEPT !.free = TRUE, !.size = end - b[2] - Meta]]

\* mm_union_free_blocks: n is no block any more; the size of b stays.
Union(B, b, n) ==
  [x \in DOMAIN B \ {n} |->
     IF x = b THEN [B[x] EXCEPT !.next = B[n].next]
     ELSE IF x = B[n].next THEN [B[x] EXCEPT !.prev = b]
     ELSE B[x]]

IsFree(B, b) == b # None /\ B[b].free

\* mm_is_vm_page_empty
PageEmpty(B, p) == /\ B[First(p)].free
                   /\ B[First(p)].next = None /\ B[First(p)].prev = None

\* The blocks after the unions, and the block that is left.
MergedNext(B, b) == IF IsFree(B, B[b].next) THEN Union(B, b, B[b].next) ELSE B

MergedPrev(B, b) == IF IsFree(B, B[b].prev) THEN Union(B, B[b].prev, b) ELSE B
Survivor(B, b) == IF IsFree(B, B[b].prev) THEN B[b].prev ELSE b

\* Mutant of Remaining: only the freed block's upper neighbour is removed.
RemainingNext(L, B, b) == Unlisted(L, B[b].next)

\* The free list without the neighbours that are merged.
Remaining(L, B, b) ==
  [x \in {y \in DOMAIN L : y \notin {B[b].next, B[b].prev}} |-> L[x]]

Dropped(f, p) == RemoveAt(pages[f], CHOOSE i \in DOMAIN pages[f] : pages[f][i].addr = p)

Free(b) ==
  LET f == FamilyOf(b)
      freed == Freeing(blocks, b)
      below == MergedNext(freed, b)
      merged == MergedPrev(below, b)
      left == Survivor(below, b)
      rest == Remaining(freeList[f], freed, b)
  IN /\ b \in DOMAIN blocks /\ ~blocks[b].free
     /\ IF PageEmpty(merged, b[1])
        THEN /\ blocks' = [x \in {y \in DOMAIN merged : y[1] # b[1]} |-> merged[x]]
             /\ pages' = [pages EXCEPT ![f] = Dropped(f, b[1])]
             /\ freeList' = [freeList EXCEPT ![f] = rest]
        ELSE /\ blocks' = merged
             /\ freeList' = [freeList EXCEPT ![f] = Listed(rest, merged, left)]
             /\ UNCHANGED pages

-----------------------------------------------------------------------------
Next ==
  \/ \E f \in Family : \/ \E b \in DOMAIN freeList[f] : AllocateFree(f, b)
                       \/ \E p \in Page : AllocateNewPage(f, p)
  \/ \E b \in DOMAIN blocks : Free(b)

Spec == Init /\ [][Next]_vars

-----------------------------------------------------------------------------
(* Properties.                                                             *)

Block == Page \X Nat
BlockType == [free : BOOLEAN, size : 0..PageEnd, prev : Block \cup {None},
              next : Block \cup {None}]

TypeOK ==
  /\ pages \in [Family -> Seq([addr : Page, index : Nat])]
  /\ DOMAIN blocks \subseteq Block
  /\ \A b \in DOMAIN blocks : blocks[b] \in BlockType
  /\ DOMAIN freeList = Family
  /\ \A f \in Family : \A b \in DOMAIN freeList[f] : freeList[f][b] \in 0..PageEnd

\* The blocks of a page do not overlap and stay inside the page, and their links
\* connect every block with the nearest ones below and above, in both directions.
ChainOK(B) ==
  \A b \in DOMAIN B :
    /\ DataEnd(B, b) <= PageEnd
    /\ \A c \in DOMAIN B : c[1] = b[1] /\ b[2] < c[2] =>
         /\ DataEnd(B, b) <= c[2]
         /\ B[b].next # None /\ B[b].next[2] <= c[2]
         /\ B[c].prev # None /\ b[2] <= B[c].prev[2]
    /\ B[b].next # None =>
         B[b].next \in DOMAIN B /\ B[b].next[1] = b[1] /\ b[2] < B[b].next[2]
    /\ B[b].prev # None =>
         B[b].prev \in DOMAIN B /\ B[b].prev[1] = b[1] /\ B[b].prev[2] < b[2]

\* In addition a block that an application holds has room for its structure.
BlocksDisjoint ==
  /\ ChainOK(blocks)
  /\ \A b \in DOMAIN blocks : ~blocks[b].free => blocks[b].size >= Struct[FamilyOf(b)]

\* The sanity checks of mm_print_block_usage: a block is on the free list exactly
\* when it is free; it is on that of its family, under the size it has now, so
\* the list stays sorted.
FreeListExact ==
  \A f \in Family :
    /\ DOMAIN freeList[f] = {b \in DOMAIN blocks : blocks[b].free /\ b[1] \in Mapped(f)}
    /\ \A b \in DOMAIN freeList[f] : freeList[f][b] = blocks[b].size

\* Two neighbours are never both free, and every mapped page holds a structure:
\* a page goes back to the kernel with the last structure in it.
Compact ==
  /\ \A b \in DOMAIN blocks : blocks[b].free => ~IsFree(blocks, blocks[b].next)
  /\ \A f \in Family : \A p \in Mapped(f) :
       \E b \in DOMAIN blocks : b[1] = p /\ ~blocks[b].free

\* The indices of a family's pages increase along its list, and no two pages of
\* any families share an address.
PagesOrdered ==
  \A f \in Family : \A i \in DOMAIN pages[f] :
    /\ i > 1 => pages[f][i - 1].index < pages[f][i].index
    /\ \A g \in Family : \A j \in DOMAIN pages[g] :
         pages[f][i].addr = pages[g][j].addr => f = g /\ i = j

\* A block lies on a mapped page, and a mapped page begins with a block.
PagesHaveBlocks ==
  /\ \A b \in DOMAIN blocks : \E f \in Family : b[1] \in Mapped(f)
  /\ \A f \in Family : \A p \in Mapped(f) : First(p) \in DOMAIN blocks

\* The three structures that describe the same memory agree: the chains of the
\* blocks, the free lists and the list of pages, after any order of calls.
LayoutExact ==
  BlocksDisjoint /\ FreeListExact /\ Compact /\ PagesOrdered /\ PagesHaveBlocks

\* A page is mapped only when no free block of the family has room.
PageOnlyWhenNeeded ==
  [][\A f \in Family : Len(pages'[f]) > Len(pages[f]) =>
       \A b \in DOMAIN blocks : blocks[b].free /\ b[1] \in Mapped(f) =>
         blocks[b].size < Struct[f]]_vars
=============================================================================
