-------------------------------- MODULE Memory --------------------------------
(***************************************************************************)
(* The page allocator and the memory manager side by side: what Mm needs of *)
(* Paging is that pages are given or not, so a behaviour is one of Paging   *)
(* or one of Mm, as part says.                                              *)
(***************************************************************************)
EXTENDS Paging

CONSTANTS Sizes, Hdr, Word, MmPage, MaxPages, Top, Callers
VARIABLES part, info, root, lastPage, freeTop, freeMax, pages, source, torn

M == INSTANCE Mm WITH PageSize <- MmPage

ASSUME MemoryAssumption == M!MmAssumption

blocks == <<info, root, lastPage, freeTop, freeMax, pages, source, torn>>

MemoryInit == part \in {"pages", "blocks"} /\ Init /\ M!Init

MemoryNext ==
  \/ part = "pages" /\ Next /\ UNCHANGED <<part, blocks>>
  \/ part = "blocks" /\ M!Next /\ UNCHANGED <<part, vars>>

MemorySpec == MemoryInit /\ [][MemoryNext]_<<part, vars, blocks>>

\* A block has one owner, the memory manager or a caller, also in the middle of realloc().
BlocksOwned == M!BlocksOwned

\* The freed blocks are a tree in the order that findAvail() and treeAdd() rely on.
SearchTree == M!SearchTree

\* The memory manager implements an abstract heap: malloc() gives memory that nobody
\* has, free() and realloc() take back what was given.
HeapSpec == M!HeapSpec
=============================================================================
