--------------------------------- MODULE Mm ---------------------------------
(***************************************************************************)
(* The kernel's memory manager (src/mm.cpp): blocks with a header in front, *)
(* cut from the pages of the last allocPage() or taken from a binary tree  *)
(* of freed blocks, which holds them by size.  Every operation runs under  *)
(* __mm_mutex and is one step, but for realloc(), which lets the mutex go   *)
(* between its allocation and its free.                                    *)
(*                                                                         *)
(* Addresses are those of headers; 0 is the null pointer.  A block's       *)
(* contents do not appear, its header does.                                *)
(***************************************************************************)
EXTENDS Integers, FiniteSets

CONSTANTS
  Sizes,      \* sizes asked for
  Hdr,        \* sizeof(PtrInfo)
  Word,       \* sizeof(ptr_val_t)
  PageSize,   \* PAGE_SIZE
  MaxPages,   \* bound: pages Paging can give
  Top,        \* 2^32: addresses are computed modulo Top
  Callers     \* threads that may be inside realloc()

MmAssumption ==
  /\ Sizes \subseteq Nat /\ Hdr \in Nat \ {0} /\ Word \in Nat /\ PageSize \in Nat \ {0}
  /\ MaxPages \in Nat /\ Top \in Nat /\ PageSize * (MaxPages + 1) <= Top

Null == 0

VARIABLES
  info,     \* the PtrInfo headers in memory, by address
  root,     \* __mm_last_free
  lastPage, \* MM::m_lastPage
  freeTop,  \* MM::m_freeTop
  freeMax,  \* MM::m_freeMax
  pages,    \* pages Paging has given out
  source,   \* the block a caller's realloc() has still to free
  torn      \* the leftover is in the tree and still the space to cut blocks from

vars == <<info, root, lastPage, freeTop, freeMax, pages, source, torn>>

Header == [prev: Nat, next: Nat, size: Nat, state: {"Used", "Freed"}]

\* Headers and pointers have their types, and the space left in the last page
\* ends where the page does: the page count of allocMem() was rounded up.
TypeOK ==
  /\ DOMAIN info \subseteq 1..Top
  /\ \A a \in DOMAIN info : info[a] \in Header
  /\ {root, lastPage, freeTop, freeMax, pages} \subseteq Nat
  /\ freeTop <= freeMax
  /\ source \in [Callers -> Nat] /\ torn \in BOOLEAN

Init ==
  /\ info = [a \in {} |-> 0]
  /\ root = Null
  /\ lastPage = Null /\ freeTop = Null /\ freeMax = Null
  /\ pages = 0
  /\ source = [c \in Callers |-> Null] /\ torn = FALSE

-----------------------------------------------------------------------------
(* The tree t of freed blocks: the headers t.info and the root t.root        *)

Put(f, a, h) == [x \in DOMAIN f \cup {a} |-> IF x = a THEN h ELSE f[x]]
Unlinked(f, a) == [f EXCEPT ![a].prev = Null, ![a].next = Null]

\* The side of n on which a block of that size belongs.
Side(f, n, size) == IF size < f[n].size THEN "prev" ELSE "next"

Child(f, n, size) == f[n][Side(f, n, size)]

\* Where a walk ends that goes down from a block until there is room.
Bottom(f, size) ==
  LET b[n \in DOMAIN f] ==
        IF Child(f, n, size) = Null THEN n ELSE b[Child(f, n, size)]
  IN  b

\* treeAdd()
TreeAdd(t, a) ==
  LET f == Unlinked(t.info, a)
      n == Bottom(f, f[a].size)[t.root]
  IN  IF t.root = Null
      THEN [info |-> f, root |-> a]
      ELSE [info |-> [f EXCEPT ![n][Side(f, n, f[a].size)] = a], root |-> t.root]

AddIfAny(t, a) == IF a = Null THEN t ELSE TreeAdd(t, a)

\* Mutant: the parent goes on pointing to the block taken out.
ReleaseFreeDangling(t, p, parent) ==
  LET l == t.info[p].prev
      r == t.info[p].next
      u == IF parent = Null
           THEN IF l # Null /\ r # Null THEN TreeAdd([t EXCEPT !.root = r], l)
                ELSE [t EXCEPT !.root = IF r # Null THEN r ELSE l]
           ELSE t
  IN  [u EXCEPT !.info = Unlinked(@, p)]

\* releaseFree(): take p out; treeAdd() of its children forgets what they lead to.
ReleaseFree(t, p, parent) ==
  LET l == t.info[p].prev
      r == t.info[p].next
      cut == [t EXCEPT !.info[parent] =
                IF @.prev = p THEN [@ EXCEPT !.prev = Null]
                ELSE IF @.next = p THEN [@ EXCEPT !.next = Null] ELSE @]
      u == IF parent = Null
           THEN IF l # Null /\ r # Null THEN TreeAdd([t EXCEPT !.root = r], l)
                ELSE [t EXCEPT !.root = IF r # Null THEN r ELSE l]
           ELSE AddIfAny(AddIfAny(cut, l), r)
  IN  [u EXCEPT !.info = Unlinked(@, p)]

\* Where findAvail() goes on: to the side of that size, or, if nothing is there, to the
\* other one if it holds what is nearer to the size.
Onward(f, n, size) ==
  LET l == f[n].prev
      r == f[n].next
  IN  IF Child(f, n, size) # Null THEN Child(f, n, size)
      ELSE IF \/ size < f[n].size /\ r # Null /\ size <= f[r].size
              \/ size > f[n].size /\ l # Null /\ size >= f[l].size
      THEN (IF size < f[n].size THEN r ELSE l) ELSE Null

\* Its loop, from a block and its parent on.
Search(f, size) ==
  LET s[e \in (DOMAIN f) \X (DOMAIN f \cup {Null})] ==
        IF f[e[1]].size = size THEN e
        ELSE IF Onward(f, e[1], size) = Null THEN <<Null, Null>>
        ELSE s[<<Onward(f, e[1], size), e[1]>>]
  IN  s

\* findAvail(): the block of exactly that size and its parent, or two nulls.
Find(t, size) ==
  IF t.root = Null THEN <<Null, Null>> ELSE Search(t.info, size)[<<t.root, Null>>]

Tree == [info |-> info, root |-> root]

-----------------------------------------------------------------------------
(* allocMem()                                                                *)

UsedBlock(size) == [prev |-> Null, next |-> Null, size |-> size, state |-> "Used"]
FreedBlock(size) == [UsedBlock(size) EXCEPT !.state = "Freed"]

Length(size) == size + Hdr

PagesFor(n) == n \div PageSize + (IF n % PageSize # 0 THEN 1 ELSE 0)

SetTree(t) == info' = t.info /\ root' = t.root

\* A freed block of that size is used again.
Reuse(size) ==
  LET e == Find(Tree, size)
      t == ReleaseFree(Tree, e[1], e[2])
  IN  /\ e[1] # Null
      /\ info' = Put(t.info, e[1], UsedBlock(size)) /\ root' = t.root
      /\ UNCHANGED <<lastPage, freeTop, freeMax, pages>>

\* The block does not fit behind the last one; the sum may wrap.
Full(size) ==
  \/ Null \in {lastPage, freeTop, freeMax}
  \/ (freeTop + Length(size)) % Top >= freeMax

\* Mutant: m_freeTop moves by the size without the header.
BumpNoHeader(size) ==
  /\ ~Full(size)
  /\ info' = Put(info, freeTop, UsedBlock(size))
  /\ freeTop' = freeTop + size
  /\ UNCHANGED <<root, lastPage, freeMax, pages>>

Bump(size) ==
  /\ ~Full(size)
  /\ info' = Put(info, freeTop, UsedBlock(size))
  /\ freeTop' = (freeTop + Length(size)) % Top
  /\ UNCHANGED <<root, lastPage, freeMax, pages>>

\* The space behind the last block becomes a freed block, if a word fits in it.
TailFreed ==
  IF Null \notin {lastPage, freeTop, freeMax} /\ freeTop + Hdr + Word < freeMax
  THEN TreeAdd([Tree EXCEPT !.info = Put(@, freeTop, FreedBlock(freeMax - freeTop - Hdr))],
               freeTop)
  ELSE Tree

\* Paging::alloc() as allocPage() uses it: the pages after the last ones.
NewPages(size) ==
  LET cnt == PagesFor(Length(size))
      p == (pages + 1) * PageSize
  IN  /\ Full(size)
      /\ pages + cnt <= MaxPages
      /\ pages' = pages + cnt
      /\ info' = Put(TailFreed.info, p, UsedBlock(size)) /\ root' = TailFreed.root
      /\ lastPage' = p
      /\ freeTop' = p + Length(size) /\ freeMax' = p + cnt * PageSize

\* allocPage() gives no pages: the addresses behind the heap are mapped already.
\* The leftover is in the tree by then, and m_freeTop still points to it.
NoPages(size) ==
  /\ Full(size) /\ pages + PagesFor(Length(size)) > MaxPages
  /\ SetTree(TailFreed) /\ torn' = (TailFreed # Tree)
  /\ UNCHANGED <<lastPage, freeTop, freeMax, pages>>

\* alloc() refuses what the header would push past 32 bits.
TooLarge(size) == size > Top - 1 - Hdr

\* Mutant: a block from the tree is taken if it is smaller than asked for.
AllocMemSmaller(size) ==
  /\ ~TooLarge(size)
  /\ \/ Reuse(size)
     \/ /\ Find(Tree, size)[1] = Null /\ root # Null
        /\ LET t == ReleaseFree(Tree, root, Null)
           IN  info' = Put(t.info, root, UsedBlock(size)) /\ root' = t.root
        /\ UNCHANGED <<lastPage, freeTop, freeMax, pages>>
     \/ Find(Tree, size)[1] = Null /\ root = Null /\ (Bump(size) \/ NewPages(size))

\* allocMem() with a block as its result; AllocFast does not look in the tree.
AllocMem(size) ==
  /\ ~TooLarge(size)
  /\ \/ Reuse(size)
     \/ Find(Tree, size)[1] = Null /\ (Bump(size) \/ NewPages(size))

AllocFast(size) ==
  /\ ~TooLarge(size)
  /\ Bump(size) \/ NewPages(size)

\* AllocPage hands out whole pages.
AllocPage(cnt) ==
  /\ pages + cnt <= MaxPages
  /\ pages' = pages + cnt
  /\ UNCHANGED <<info, root, lastPage, freeTop, freeMax, source, torn>>

Malloc(size) == (AllocMem(size) \/ AllocFast(size)) /\ UNCHANGED <<source, torn>>

\* malloc() when allocPage() fails: the null pointer is returned.
MallocFails(size) == ~TooLarge(size) /\ NoPages(size) /\ UNCHANGED source

-----------------------------------------------------------------------------
(* free() and realloc()                                                      *)

Live == {a \in DOMAIN info : info[a].state = "Used"}

Busy == {source[c] : c \in Callers}

FreeNoLock(a) ==
  LET t == [Tree EXCEPT !.info[a].state = "Freed"]
  IN  SetTree(TreeAdd(t, a))

\* A block is freed by its owner, or once more by mistake: "double free".
FreeBlock(a) ==
  /\ a \in DOMAIN info \ Busy
  /\ \/ a \in Live /\ FreeNoLock(a) /\ UNCHANGED <<lastPage, freeTop, freeMax, pages, source, torn>>
     \/ a \notin Live /\ UNCHANGED vars

\* realloc() to another size: the new block first, the old one stays.  A freed
\* block is not freed again; realloc() of size 0 is free(), realloc() of null or
\* to the same size adds nothing.
ReallocAlloc(c, a, size) ==
  /\ source[c] = Null /\ a \in DOMAIN info \ Busy
  /\ size # 0 /\ info[a].size # size
  /\ AllocMem(size)
  /\ source' = [source EXCEPT ![c] = IF a \in Live THEN a ELSE Null]
  /\ UNCHANGED torn

ReallocFree(c) ==
  /\ source[c] # Null
  /\ FreeNoLock(source[c])
  /\ source' = [source EXCEPT ![c] = Null]
  /\ UNCHANGED <<lastPage, freeTop, freeMax, pages, torn>>

\* Once the same space is offered twice its next owner destroys the tree: the model stops.
Torn == torn /\ UNCHANGED vars

Next ==
  \/ /\ ~torn
     /\ \/ \E size \in Sizes : Malloc(size) \/ MallocFails(size)
        \/ AllocPage(1)
        \/ \E a \in DOMAIN info : FreeBlock(a)
        \/ \E c \in Callers, a \in DOMAIN info, size \in Sizes : ReallocAlloc(c, a, size)
        \/ \E c \in Callers : ReallocFree(c)
  \/ Torn

Spec == Init /\ [][Next]_vars

-----------------------------------------------------------------------------
\* The bytes of two blocks, used or freed, never overlap, nor do they reach into
\* the space not cut yet: what allocMem() cuts, keeps as a leftover or takes from
\* the tree is one block's memory.  (torn: a request that fails for want of pages has
\* freed the leftover and keeps it, too.)
BlocksDisjoint ==
  /\ TypeOK
  /\ ~torn => \A a \in DOMAIN info :
       /\ \A b \in DOMAIN info : a < b => a + Length(info[a].size) <= b
       /\ a + Length(info[a].size) <= freeTop \/ a >= freeMax

\* The freed blocks form a tree: each is pointed to at most once, and no pointer
\* leads to a block in use, so treeAdd() and findAvail() end and never hand out
\* a block twice.
TreeSound ==
  /\ \A a \in DOMAIN info, s \in {"prev", "next"} : info[a][s] # Null =>
       /\ info[a][s] \in DOMAIN info \ Live /\ info[a][s] # root /\ a \notin Live
       /\ \A b \in DOMAIN info, u \in {"prev", "next"} :
            info[b][u] = info[a][s] => b = a /\ u = s
  /\ root # Null => root \in DOMAIN info \ Live

\* A block and those that its pointers lead to.
Below(f) ==
  LET b[n \in DOMAIN f] ==
        {n} \cup (IF f[n].prev = Null THEN {} ELSE b[f[n].prev])
            \cup (IF f[n].next = Null THEN {} ELSE b[f[n].next])
  IN  b

\* Blocks reachable from __mm_last_free.
InTree == IF root = Null THEN {} ELSE Below(info)[root]

\* The order by size survives every removal: findAvail() finds a block of the
\* size asked for if the tree holds one.
SearchComplete ==
  \A a \in InTree : Find(Tree, info[a].size)[1] # Null

\* While realloc() waits for the mutex again, nobody else gets the block it is
\* moving out of.
SourceKept == \A c \in Callers : source[c] # Null => source[c] \in Live

\* A block has one owner, the memory manager or a caller, also in the middle of realloc().
BlocksOwned == BlocksDisjoint /\ SourceKept

\* The freed blocks are a tree in the order that findAvail() and treeAdd() rely on.
SearchTree == TreeSound /\ SearchComplete

\* The memory manager is a heap: its blocks in use, as its callers see them.
H == INSTANCE Heap WITH
       Addresses <- 1..((MaxPages + 1) * PageSize),
       Lengths <- {Length(n) : n \in Sizes},
       MemoryEnd <- (MaxPages + 1) * PageSize,
       live <- {[addr |-> a, len |-> Length(info[a].size)] : a \in Live}

HeapSpec == H!Spec
=============================================================================
