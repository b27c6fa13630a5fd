------------------------------- MODULE Paging -------------------------------
(***************************************************************************)
(* The x86 page allocator: the bitmap of physical frames (src/bits.cpp),   *)
(* the page directory and the kernel heap address (arch/x86/pagingx86.cpp) *)
(* and the calls of Paging (src/paging.cpp), which hold                    *)
(* __page_mapping_mutex from their first to their last instruction.        *)
(*                                                                         *)
(* Frames and virtual pages are page numbers: an address divided by        *)
(* PAGE_SIZE.  Every caller maps into the kernel heap (PAGING_MAP_USER is  *)
(* never passed), so __user_heap_address does not appear.                  *)
(***************************************************************************)
EXTENDS Integers, FiniteSets

CONSTANTS
  WordBits,   \* BIT_CONVERT: frames per word of the bitmap
  PageCnt,    \* frames of physical memory
  TablePages, \* PAGES_PER_TABLE
  PageSize,   \* PAGE_SIZE
  LowEnd,     \* frames below are identity mapped by init(): low memory, kernel
  StaticInit, \* KERNEL_INIT_SIZE in pages: identity mapped for static allocation
  HeapStart,  \* HEAP_START as a page number
  MaxVirt,    \* bound: the last virtual page
  DevicePages,\* frames that drivers map: ACPI tables, MMIO, frame buffers
  MaxCnt      \* bound: pages of one Paging::alloc()

ASSUME PagingAssumption ==
  /\ WordBits \in Nat \ {0, 1} /\ PageCnt \in Nat /\ TablePages \in Nat \ {0}
  /\ PageSize \in Nat \ {0} /\ LowEnd \in Nat \ {0} /\ StaticInit \in Nat
  /\ HeapStart \in Nat /\ MaxVirt \in Nat /\ MaxCnt \in Nat
  /\ DevicePages \subseteq Nat
  /\ LowEnd + StaticInit <= HeapStart /\ HeapStart <= MaxVirt

\* Words of the bitmap.
Words  == PageCnt \div WordBits + (IF PageCnt % WordBits # 0 THEN 1 ELSE 0)
Frames == 0..(Words * WordBits - 1)
Virt   == 0..MaxVirt

VARIABLES
  used,       \* the frames whose bit is set in Bits::bits
  last,       \* Bits::m_last
  pte,        \* the Page entries reachable from PageDir::tables
  tables,     \* indices of PageDir::tables that are not null
  static,     \* page of __free_page_address
  heap,       \* page of __heap_address
  req,        \* the map() loop in progress: next page, pages left
  stuck,      \* mapFrame() loops forever: "No free memory!"
  handed      \* history: findUnset() returned the frame never, once or (2) again

vars == <<used, last, pte, tables, static, heap, req, stuck, handed>>

NoPage == [present |-> FALSE, addr |-> 0]
NoReq  == [v |-> 0, left |-> 0]

\* Every page entry, table, counter and request has its type; all set bits are
\* below m_cnt, whatever index Bits::set() was called with.
TypeOK ==
  /\ used \subseteq 0..(PageCnt - 1)
  /\ last \in Nat
  /\ pte \in [Virt -> [present: BOOLEAN, addr: Nat]]
  /\ tables \subseteq Nat
  /\ static \in Nat /\ heap \in Nat
  /\ req \in [v: Nat, left: Nat]
  /\ stuck \in BOOLEAN
  /\ handed \in [Frames -> 0..2]

Table(v) == v \div TablePages

\* init() has identity mapped low memory, the kernel and the static area; it
\* starts at address 1, which lies in page 0.
Low == 0..(LowEnd + StaticInit - 1)

Init ==
  /\ used = {f \in Low : f < PageCnt}
  /\ last = 0
  /\ pte = [v \in Virt |-> IF v \in Low THEN [present |-> TRUE, addr |-> v] ELSE NoPage]
  /\ tables = {Table(v) : v \in Low \cup {HeapStart}}
  /\ static = LowEnd /\ heap = HeapStart
  /\ req = NoReq /\ stuck = FALSE
  /\ handed = [f \in Frames |-> 0]

-----------------------------------------------------------------------------
(* Bits                                                                      *)

\* Mutant: set() loses one bit of a word.
SetMisplaced(S) == used \cup {f \in S : f < PageCnt /\ f % WordBits # 2}

\* Bits::set() leaves indices past the end alone.
Set(S) == used \cup {f \in S : f < PageCnt}

\* Unset bits findUnset() looks at: from the word m_last on, bits 0 to 30.
Unset == {f \in Frames : /\ f >= last * WordBits /\ f \notin used
                         /\ f % WordBits # WordBits - 1}

FindUnset == CHOOSE f \in Unset : \A g \in Unset : f <= g

HandOut(f) == [handed EXCEPT ![f] = IF @ = 0 THEN 1 ELSE 2]

-----------------------------------------------------------------------------
(* PageDir::getPage(PageDoReserve)                                           *)

\* A missing table is allocated statically: one page, and incFreePageAddress()
\* marks the page after it as well.
NewTable(v) == IF Table(v) \in tables THEN {} ELSE {static, static + 1}

Reserve(v) ==
  /\ tables' = tables \cup {Table(v)}
  /\ static' = IF Table(v) \in tables THEN static ELSE static + 1

\* Mutant: map() does not look whether the page is in use.
IsAvailAlways(v) == TRUE

IsAvail(v) == ~pte[v].present /\ pte[v].addr = 0

Idle == req = NoReq /\ ~stuck

-----------------------------------------------------------------------------
(* Paging::alloc()                                                           *)

\* map() moves the heap address first, whether or not the mapping succeeds.
Alloc(cnt) ==
  /\ Idle
  /\ heap + cnt - 1 <= MaxVirt
  /\ heap' = heap + cnt
  /\ req' = [v |-> heap, left |-> cnt]
  /\ UNCHANGED <<used, last, pte, tables, static, stuck, handed>>

\* One turn of the loop in map(): a page already in use ends it.
MapTaken ==
  /\ req # NoReq /\ ~stuck /\ ~IsAvail(req.v)
  /\ Reserve(req.v)
  /\ used' = Set(NewTable(req.v))
  /\ req' = NoReq
  /\ UNCHANGED <<last, pte, heap, stuck, handed>>

\* mapFrame() takes the frame findUnset() returns; the table came before.
MapFrame ==
  /\ req # NoReq /\ ~stuck /\ IsAvail(req.v)
  /\ Reserve(req.v)
  /\ LET U == Unset \ Set(NewTable(req.v))
         f == CHOOSE g \in U : \A h \in U : g <= h
     IN  /\ U # {}
         /\ used' = Set(NewTable(req.v) \cup {f})
         /\ last' = f \div WordBits
         /\ pte' = [pte EXCEPT ![req.v] = [present |-> TRUE, addr |-> f]]
         /\ handed' = HandOut(f)
  /\ req' = IF req.left = 1 THEN NoReq ELSE [v |-> req.v + 1, left |-> req.left - 1]
  /\ UNCHANGED <<heap, stuck>>

NoFreeMemory ==
  /\ req # NoReq /\ ~stuck /\ IsAvail(req.v)
  /\ Unset \ Set(NewTable(req.v)) = {}
  /\ Reserve(req.v) /\ used' = Set(NewTable(req.v))
  /\ stuck' = TRUE
  /\ UNCHANGED <<last, pte, heap, req, handed>>

-----------------------------------------------------------------------------
(* The other calls                                                           *)

\* Mutant: the next search starts behind the word that was found.
GetPageSkips ==
  /\ Idle /\ Unset # {}
  /\ used' = Set({FindUnset})
  /\ last' = FindUnset \div WordBits + 1
  /\ handed' = HandOut(FindUnset)
  /\ UNCHANGED <<pte, tables, static, heap, req, stuck>>

GetPage ==
  /\ Idle /\ Unset # {}
  /\ used' = Set({FindUnset})
  /\ last' = FindUnset \div WordBits
  /\ handed' = HandOut(FindUnset)
  /\ UNCHANGED <<pte, tables, static, heap, req, stuck>>

\* identityMapFrame() of entry v: the frame is mapped even if it was in use.
IdentityMapFrame(v, f) ==
  /\ used' = Set(NewTable(v) \cup {f})
  /\ pte' = [pte EXCEPT ![v] = [present |-> TRUE, addr |-> f]]

\* Paging::identityMap(), pagingMapKernel(): any entry is overwritten.
IdentityMap(v) ==
  /\ Idle /\ v \in Virt
  /\ Reserve(v) /\ IdentityMapFrame(v, v)
  /\ UNCHANGED <<last, heap, req, stuck, handed>>

\* Paging::map(): the next heap page gets the frame, unless it is in use.
Map(f) ==
  /\ Idle /\ heap <= MaxVirt
  /\ heap' = heap + 1
  /\ Reserve(heap)
  /\ \/ IsAvail(heap) /\ IdentityMapFrame(heap, f)
     \/ ~IsAvail(heap) /\ used' = Set(NewTable(heap)) /\ UNCHANGED pte
  /\ UNCHANGED <<last, req, stuck, handed>>

NoMemory == stuck /\ UNCHANGED vars

Next ==
  \/ \E cnt \in 1..MaxCnt : Alloc(cnt)
  \/ MapTaken \/ MapFrame \/ NoFreeMemory \/ NoMemory
  \/ GetPage
  \/ \E v \in DevicePages : IdentityMap(v)
  \/ \E f \in DevicePages : Map(f)

Spec == Init /\ [][Next]_vars

-----------------------------------------------------------------------------
\* findUnset() never returns a frame of memory twice nor one that init() has mapped:
\* what mapFrame() and getPage() hand out belongs to one user (pagingx86.cpp).  Bits
\* past the end of memory, in a last word that memory does not fill, can never be set:
\* when all else is in use they are returned again and again.
FrameExclusive ==
  \A f \in Frames : f < PageCnt /\ handed[f] > 0 => handed[f] = 1 /\ f \notin Low

\* Page tables and frames handed out never share memory, until the static area
\* that init() reserved is used up: incFreePageAddress() does not look further.
TablesPrivate ==
  static < LowEnd + StaticInit =>
    \A f \in Frames : handed[f] > 0 => f \notin LowEnd..static

\* A heap page that is present keeps its frame: alloc() and map() never replace
\* it, even when a driver identity mapped a page the heap has not reached yet.
HeapStable ==
  [][\A v \in HeapStart..MaxVirt :
       pte[v].present /\ pte'[v] # pte[v] => IdentityMap(v)]_vars

\* Starting the search at m_last misses no free frame: all the words before it
\* are full, but for the bit 31 that findUnset() never looks at (src/bits.cpp).
NoFreeFrameMissed ==
  \A f \in 0..(last * WordBits - 1) : f \in used \/ f % WordBits = WordBits - 1

\* The page tables keep to themselves and no free frame is out of the search's reach,
\* whatever was mapped and however an allocation ended (pagingx86.cpp, bits.cpp).
FramesKnown == TypeOK /\ TablesPrivate /\ NoFreeFrameMissed
=============================================================================
