---------------------------- MODULE MemoryProofs ----------------------------
(***************************************************************************)
(* The page allocator: the type invariant, FrameExclusive, HeapStable and  *)
(* FramesKnown for every size of memory, whether or not it fills its last  *)
(* bitmap word, and when the bits past its end are handed out.             *)
(*                                                                         *)
(* FrameExclusive is not inductive: that a frame returned by findUnset()   *)
(* was not in use needs the bitmap to remember every frame handed out and  *)
(* every frame init() mapped, and that nothing clears a bit.  FramesKnown  *)
(* needs that the page tables are taken from what init() mapped.           *)
(*                                                                         *)
(* The memory manager: BlocksOwned, SearchTree and HeapSpec for every set  *)
(* of sizes whose requests do not reach around the end of the addresses.   *)
(* SearchTree is not inductive either: BlocksInv says that the freed       *)
(* blocks have ranks which pointers only lower, so that every walk ends,   *)
(* and that each block of the tree has a way to it which a search for its  *)
(* size does not leave.                                                    *)
(***************************************************************************)
EXTENDS Memory, NaturalsInduction, WellFoundedInduction, TLAPS

-----------------------------------------------------------------------------
(* The page allocator                                                        *)

\* A loop of map() in progress has pages left to map.
ReqInv == req # NoReq => req.left > 0

TypeInv == TypeOK /\ ReqInv

\* The bitmap covers what is in use.
BitmapInv ==
  /\ \A f \in Low : f < PageCnt => f \in used
  /\ \A f \in Frames : f < PageCnt /\ handed[f] > 0 => f \in used

IInv == TypeInv /\ BitmapInv /\ FrameExclusive

-----------------------------------------------------------------------------
\* Bits::findUnset() returns a bit it looks at: a set of frames has a least one.
LEMMA LeastFrame ==
  ASSUME NEW S, S \subseteq Frames, S # {}
  PROVE  /\ (CHOOSE f \in S : \A g \in S : f <= g) \in S
         /\ \A g \in S : (CHOOSE f \in S : \A h \in S : f <= h) <= g
<1>1. S \in SUBSET Nat
  BY DEF Frames
<1>2. IsWellFoundedOn(OpToRel(<, Nat), Nat)
  BY NatLessThanWellFounded
<1>3. PICK f \in S : \A g \in S : ~(<<g, f>> \in OpToRel(<, Nat))
  BY <1>1, <1>2, WFMin
<1>4. \A g \in S : ~(g < f)
  BY <1>1, <1>3 DEF OpToRel
<1>5. \A g \in S : f <= g
  <2> HIDE DEF Frames
  <2> QED BY <1>1, <1>4
<1> QED BY <1>5

\* The frame MapFrame maps and the frame GetPage returns were not in use.
LEMMA UnsetFrames ==
  Unset \subseteq Frames /\ \A f \in Unset : f \notin used
BY DEF Unset

\* Division of natural numbers.
LEMMA QuotientNatural ==
  ASSUME NEW n \in Nat, NEW d \in Nat, d > 0
  PROVE  n \div d \in Nat
OBVIOUS

\* The word of a frame is a natural number.
LEMMA WordType ==
  ASSUME NEW f \in Frames
  PROVE  f \div WordBits \in Nat
<1>1. f \in Nat
  BY DEF Frames
<1>2. WordBits \in Nat /\ WordBits > 0
  BY PagingAssumption
<1> QED BY <1>1, <1>2, QuotientNatural

-----------------------------------------------------------------------------
\* Bits::set() keeps the bitmap within m_cnt.
LEMMA SetType ==
  ASSUME TypeOK, NEW S, S \subseteq Nat
  PROVE  Set(S) \subseteq 0..(PageCnt - 1)
<1>1. used \subseteq 0..(PageCnt - 1)
  BY DEF TypeOK
<1>2. \A f \in S : f < PageCnt => f \in 0..(PageCnt - 1)
  BY PagingAssumption
<1> QED BY <1>1, <1>2 DEF Set

\* A page table allocation takes natural page numbers, and changes no type.
LEMMA ReserveType ==
  ASSUME TypeOK, NEW v \in Nat, Reserve(v)
  PROVE  /\ tables' \subseteq Nat /\ static' \in Nat
         /\ NewTable(v) \subseteq Nat
<1>1. Table(v) \in Nat
  <2>1. TablePages \in Nat /\ TablePages > 0
    BY PagingAssumption
  <2> QED BY <2>1, QuotientNatural DEF Table
<1>2. tables \subseteq Nat /\ static \in Nat
  BY DEF TypeOK
<1>3. static + 1 \in Nat
  BY <1>2
<1>4. tables' \subseteq Nat /\ static' \in Nat
  BY <1>1, <1>2, <1>3 DEF Reserve
<1>5. NewTable(v) \subseteq Nat
  BY <1>2, <1>3 DEF NewTable
<1> QED BY <1>4, <1>5

\* Frames handed out keep their type.
LEMMA HandOutType ==
  ASSUME TypeOK, NEW f \in Frames
  PROVE  /\ HandOut(f) \in [Frames -> 0..2]
         /\ HandOut(f)[f] = (IF handed[f] = 0 THEN 1 ELSE 2)
         /\ \A g \in Frames \ {f} : HandOut(f)[g] = handed[g]
BY DEF HandOut, TypeOK

\* A page entry that is filled keeps its type.
LEMMA EntryType ==
  ASSUME TypeOK, NEW v, NEW f \in Nat
  PROVE  [pte EXCEPT ![v] = [present |-> TRUE, addr |-> f]]
           \in [Virt -> [present: BOOLEAN, addr: Nat]]
BY DEF TypeOK

-----------------------------------------------------------------------------
\* Every call of Paging keeps the types; the loop of map() ends at zero pages.
LEMMA TypeStep ==
  ASSUME TypeInv, [Next]_vars
  PROVE  TypeInv'
<1> USE DEF TypeInv
<1>1. CASE UNCHANGED vars
  BY <1>1 DEF vars, TypeOK, ReqInv
<1>2. ASSUME NEW cnt \in 1..MaxCnt, Alloc(cnt) PROVE TypeInv'
  <2>1. cnt \in Nat /\ cnt > 0 /\ heap \in Nat
    BY PagingAssumption DEF TypeOK
  <2>2. heap' \in Nat /\ req' \in [v: Nat, left: Nat] /\ ReqInv'
    BY <1>2, <2>1 DEF Alloc, ReqInv, NoReq
  <2> QED BY <1>2, <2>2 DEF Alloc, TypeOK
<1>3. req.v \in Nat /\ req.left \in Nat
  BY DEF TypeOK
<1>4. NoReq \in [v: Nat, left: Nat]
  BY DEF NoReq
<1>5. CASE MapTaken
  <2>1. tables' \subseteq Nat /\ static' \in Nat /\ used' \subseteq 0..(PageCnt - 1)
    BY <1>3, <1>5, ReserveType, SetType DEF MapTaken
  <2> QED BY <1>4, <1>5, <2>1 DEF MapTaken, TypeOK, ReqInv
<1>6. CASE MapFrame
  <2>1. tables' \subseteq Nat /\ static' \in Nat /\ NewTable(req.v) \subseteq Nat
    BY <1>3, <1>6, ReserveType DEF MapFrame
  <2> DEFINE U == Unset \ Set(NewTable(req.v))
             f == CHOOSE g \in U : \A h \in U : g <= h
  <2>2. f \in Frames
    BY <1>6, UnsetFrames, LeastFrame DEF MapFrame
  <2>3. f \in Nat
    BY <2>2 DEF Frames
  <2>4. /\ used' = Set(NewTable(req.v) \cup {f}) /\ last' = f \div WordBits
        /\ pte' = [pte EXCEPT ![req.v] = [present |-> TRUE, addr |-> f]]
        /\ handed' = HandOut(f)
        /\ req' = IF req.left = 1 THEN NoReq ELSE [v |-> req.v + 1, left |-> req.left - 1]
        /\ UNCHANGED <<heap, stuck>> /\ req # NoReq
    BY <1>6 DEF MapFrame
  <2> HIDE DEF f, U
  <2>5. used' \subseteq 0..(PageCnt - 1)
    BY <2>1, <2>3, <2>4, SetType
  <2>6. last' \in Nat /\ handed' \in [Frames -> 0..2]
    BY <2>2, <2>4, WordType, HandOutType
  <2>7. pte' \in [Virt -> [present: BOOLEAN, addr: Nat]]
    BY <2>3, <2>4, EntryType
  <2>8. req' \in [v: Nat, left: Nat] /\ ReqInv'
    <3>1. req.left > 0
      BY <2>4 DEF ReqInv
    <3>2. CASE req.left = 1
      BY <1>4, <2>4, <3>2 DEF ReqInv
    <3>3. CASE req.left # 1
      <4>1. req.v + 1 \in Nat /\ req.left - 1 \in Nat /\ req.left - 1 > 0
        BY <1>3, <3>1, <3>3
      <4>2. req' = [v |-> req.v + 1, left |-> req.left - 1]
        BY <2>4, <3>3
      <4> QED BY <4>1, <4>2 DEF ReqInv
    <3> QED BY <3>2, <3>3
  <2> QED BY <2>1, <2>4, <2>5, <2>6, <2>7, <2>8 DEF TypeOK
<1>7. CASE NoFreeMemory
  <2>1. tables' \subseteq Nat /\ static' \in Nat /\ used' \subseteq 0..(PageCnt - 1)
    BY <1>3, <1>7, ReserveType, SetType DEF NoFreeMemory
  <2> QED BY <1>7, <2>1 DEF NoFreeMemory, TypeOK, ReqInv
<1>8. CASE NoMemory
  BY <1>8 DEF NoMemory, vars, TypeOK, ReqInv
<1>9. CASE GetPage
  <2>1. FindUnset \in Frames
    BY <1>9, UnsetFrames, LeastFrame DEF GetPage, FindUnset
  <2>2. {FindUnset} \subseteq Nat
    BY <2>1 DEF Frames
  <2>3. used' \subseteq 0..(PageCnt - 1)
    BY <1>9, <2>2, SetType DEF GetPage
  <2>4. last' \in Nat /\ handed' \in [Frames -> 0..2]
    BY <1>9, <2>1, WordType, HandOutType DEF GetPage
  <2> QED BY <1>9, <2>3, <2>4 DEF GetPage, TypeOK, ReqInv
<1>10. ASSUME NEW v \in DevicePages, IdentityMap(v) PROVE TypeInv'
  <2>1. v \in Nat
    BY PagingAssumption
  <2>2. tables' \subseteq Nat /\ static' \in Nat /\ NewTable(v) \subseteq Nat
    BY <1>10, <2>1, ReserveType DEF IdentityMap
  <2>3. used' \subseteq 0..(PageCnt - 1)
    BY <1>10, <2>1, <2>2, SetType DEF IdentityMap, IdentityMapFrame
  <2>4. pte' \in [Virt -> [present: BOOLEAN, addr: Nat]]
    BY <1>10, <2>1, EntryType DEF IdentityMap, IdentityMapFrame
  <2> QED BY <1>10, <2>2, <2>3, <2>4 DEF IdentityMap, TypeOK, ReqInv
<1>11. ASSUME NEW f \in DevicePages, Map(f) PROVE TypeInv'
  <2>1. f \in Nat /\ heap \in Nat /\ heap' \in Nat
    BY <1>11, PagingAssumption DEF TypeOK, Map
  <2>2. tables' \subseteq Nat /\ static' \in Nat /\ NewTable(heap) \subseteq Nat
    BY <1>11, <2>1, ReserveType DEF Map
  <2>3. used' \subseteq 0..(PageCnt - 1)
    BY <1>11, <2>1, <2>2, SetType DEF Map, IdentityMapFrame
  <2>4. pte' \in [Virt -> [present: BOOLEAN, addr: Nat]]
    <3>1. CASE pte' = [pte EXCEPT ![heap] = [present |-> TRUE, addr |-> f]]
      BY <2>1, <3>1, EntryType
    <3>2. CASE UNCHANGED pte
      BY <3>2 DEF TypeOK
    <3> QED BY <1>11, <3>1, <3>2 DEF Map, IdentityMapFrame
  <2> QED BY <1>11, <2>1, <2>2, <2>3, <2>4 DEF Map, TypeOK, ReqInv
<1> QED BY <1>1, <1>2, <1>5, <1>6, <1>7, <1>8, <1>9, <1>10, <1>11 DEF Next

\* PagingPrivate::init() leaves typed state.
LEMMA InitType == Init => TypeInv
<1> SUFFICES ASSUME Init PROVE TypeInv
  OBVIOUS
<1>1. Low \subseteq Nat
  BY PagingAssumption DEF Low
<1>2. used \subseteq 0..(PageCnt - 1)
  <2>1. \A f \in Low : f < PageCnt => f \in 0..(PageCnt - 1)
    BY <1>1, PagingAssumption
  <2> QED BY <2>1 DEF Init
<1>3. \A v \in Low \cup {HeapStart} : Table(v) \in Nat
  <2>1. TablePages \in Nat /\ TablePages > 0 /\ \A v \in Low \cup {HeapStart} : v \in Nat
    BY <1>1, PagingAssumption
  <2> QED BY <2>1, QuotientNatural DEF Table
<1>4. pte \in [Virt -> [present: BOOLEAN, addr: Nat]]
  BY <1>1 DEF Init, NoPage
<1>5. req \in [v: Nat, left: Nat] /\ ReqInv
  BY DEF Init, NoReq, ReqInv
<1>6. last \in Nat /\ stuck \in BOOLEAN /\ handed \in [Frames -> 0..2]
  <2>1. last = 0 /\ stuck = FALSE /\ handed = [f \in Frames |-> 0]
    BY DEF Init
  <2>2. 0 \in 0..2
    OBVIOUS
  <2>3. handed \in [Frames -> 0..2]
    <3> HIDE DEF Frames
    <3> QED BY <2>1, <2>2, Zenon
  <2> QED BY <2>1, <2>3
<1>7. tables \subseteq Nat /\ static \in Nat /\ heap \in Nat
  BY <1>3, PagingAssumption DEF Init
<1> QED BY <1>2, <1>4, <1>5, <1>6, <1>7 DEF TypeInv, TypeOK

\* Whatever the sizes and the calls, the page allocator's state keeps its types:
\* no bit is ever set past m_cnt (Bits::set()) and map() never counts below zero.
THEOREM TypeCorrect == Spec => []TypeOK
<1>1. TypeInv => TypeOK
  BY DEF TypeInv
<1> QED BY <1>1, InitType, TypeStep, PTL DEF Spec

-----------------------------------------------------------------------------
\* A call that hands out no frame and clears no bit keeps the bitmap covering.
LEMMA KeepsBitmap ==
  ASSUME IInv, used \subseteq used', UNCHANGED handed
  PROVE  BitmapInv' /\ FrameExclusive'
BY DEF IInv, BitmapInv, FrameExclusive

\* A call that hands out a frame whose bit was not set, and sets it if it has one.
LEMMA HandsOut ==
  ASSUME IInv, used \subseteq used', NEW f \in Frames, f \notin used,
         f < PageCnt => f \in used', handed' = HandOut(f)
  PROVE  BitmapInv' /\ FrameExclusive'
<1>1. /\ handed'[f] = (IF handed[f] = 0 THEN 1 ELSE 2)
      /\ \A g \in Frames \ {f} : handed'[g] = handed[g]
  BY HandOutType DEF IInv, TypeInv
<1>2. f < PageCnt => handed'[f] = 1
  <2>1. handed[f] \in 0..2
    BY DEF IInv, TypeInv, TypeOK
  <2>2. f < PageCnt => ~(handed[f] > 0)
    BY DEF IInv, BitmapInv
  <2> QED BY <1>1, <2>1, <2>2
<1>3. f < PageCnt => f \notin Low
  BY DEF IInv, BitmapInv
<1>4. BitmapInv'
  BY <1>1 DEF IInv, BitmapInv
<1>5. FrameExclusive'
  BY <1>1, <1>2, <1>3 DEF IInv, FrameExclusive
<1> QED BY <1>4, <1>5

\* Every call of Paging but free() keeps the frames it hands out exclusive.
LEMMA ExclusiveStep ==
  ASSUME IInv, [Next]_vars
  PROVE  IInv'
<1>1. TypeInv'
  BY TypeStep DEF IInv
<1>2. \A S : used \subseteq Set(S)
  BY DEF Set
<1>3. \A S : \A f \in S : f < PageCnt => f \in Set(S)
  BY DEF Set
<1>5. CASE UNCHANGED vars
  BY <1>1, <1>5, KeepsBitmap DEF vars, IInv
<1>6. ASSUME NEW cnt \in 1..MaxCnt, Alloc(cnt) PROVE IInv'
  BY <1>1, <1>6, KeepsBitmap DEF Alloc, IInv
<1>7. CASE MapTaken
  BY <1>1, <1>2, <1>7, KeepsBitmap DEF MapTaken, IInv
<1>8. CASE MapFrame
  <2> DEFINE U == Unset \ Set(NewTable(req.v))
             f == CHOOSE g \in U : \A h \in U : g <= h
  <2>1. f \in U /\ U \subseteq Frames
    BY <1>8, UnsetFrames, LeastFrame DEF MapFrame
  <2>2. f \in Frames /\ f \notin used
    BY <2>1, UnsetFrames
  <2>3. used' = Set(NewTable(req.v) \cup {f}) /\ handed' = HandOut(f)
    BY <1>8 DEF MapFrame
  <2> HIDE DEF f, U
  <2>4. used \subseteq used' /\ (f < PageCnt => f \in used')
    BY <1>2, <1>3, <2>3
  <2> QED BY <1>1, <2>2, <2>3, <2>4, HandsOut DEF IInv
<1>9. CASE NoFreeMemory
  BY <1>1, <1>2, <1>9, KeepsBitmap DEF NoFreeMemory, IInv
<1>10. CASE NoMemory
  BY <1>1, <1>10, KeepsBitmap DEF NoMemory, vars, IInv
<1>11. CASE GetPage
  <2>1. FindUnset \in Frames /\ FindUnset \notin used
    BY <1>11, UnsetFrames, LeastFrame DEF GetPage, FindUnset
  <2>2. /\ used \subseteq used' /\ (FindUnset < PageCnt => FindUnset \in used')
        /\ handed' = HandOut(FindUnset)
    BY <1>2, <1>3, <1>11 DEF GetPage
  <2> QED BY <1>1, <2>1, <2>2, HandsOut DEF IInv
<1>12. ASSUME NEW v \in DevicePages, IdentityMap(v) PROVE IInv'
  BY <1>1, <1>2, <1>12, KeepsBitmap DEF IdentityMap, IdentityMapFrame, IInv
<1>13. ASSUME NEW f \in DevicePages, Map(f) PROVE IInv'
  <2>1. used \subseteq used' /\ UNCHANGED handed
    BY <1>2, <1>13 DEF Map, IdentityMapFrame
  <2> QED BY <1>1, <2>1, KeepsBitmap DEF IInv
<1> QED BY <1>5, <1>6, <1>7, <1>8, <1>9, <1>10, <1>11, <1>12, <1>13 DEF Next

\* init() marks the frames it maps, and nothing is handed out yet.
LEMMA InitExclusive == Init => IInv
<1> SUFFICES ASSUME Init PROVE IInv
  OBVIOUS
<1>1. \A f \in Frames : handed[f] = 0
  BY DEF Init
<1>2. \A f \in Frames : ~(handed[f] > 0)
  BY <1>1
<1>3. BitmapInv
  BY <1>2 DEF BitmapInv, Init
<1> QED BY <1>2, <1>3, InitType DEF IInv, FrameExclusive

\* On every machine, whatever calls of alloc(), map(), getPage() and identityMap()
\* come in whatever order, no frame of memory that Bits::findUnset() returned is
\* returned again or was mapped by init().
THEOREM FramesAreExclusive == Spec => []FrameExclusive
<1>1. IInv => FrameExclusive
  BY DEF IInv
<1>2. Init => IInv
  BY InitExclusive
<1>3. IInv /\ [Next]_vars => IInv'
  BY ExclusiveStep
<1> QED BY <1>1, <1>2, <1>3, PTL DEF Spec

-----------------------------------------------------------------------------
\* A heap page is only replaced by an identity mapping: mapFrame() and map() look
\* first whether the page is available (Page::isAvail()).
LEMMA EntryStep ==
  ASSUME TypeOK, [Next]_vars, NEW v \in HeapStart..MaxVirt, pte[v].present, pte'[v] # pte[v]
  PROVE  IdentityMap(v)
<1>1. v \in Virt
  BY PagingAssumption DEF Virt
<1>2. CASE pte' = pte
  BY <1>2
<1>3. ASSUME NEW u, NEW e, pte' = [pte EXCEPT ![u] = e] PROVE u = v
  BY <1>1, <1>3 DEF TypeOK
<1>4. CASE MapFrame
  <2>1. \E e : pte' = [pte EXCEPT ![req.v] = e]
    BY <1>4 DEF MapFrame
  <2>2. req.v = v
    BY <1>3, <2>1
  <2> QED BY <1>4, <2>2 DEF MapFrame, IsAvail
<1>5. ASSUME NEW u \in DevicePages, IdentityMap(u) PROVE IdentityMap(v)
  BY <1>3, <1>5 DEF IdentityMap, IdentityMapFrame
<1>6. ASSUME NEW f \in DevicePages, Map(f) PROVE FALSE
  <2>1. CASE UNCHANGED pte
    BY <2>1
  <2>2. CASE IsAvail(heap) /\ IdentityMapFrame(heap, f)
    <3>1. heap = v
      BY <1>3, <2>2 DEF IdentityMapFrame
    <3> QED BY <2>2, <3>1 DEF IsAvail
  <2> QED BY <1>6, <2>1, <2>2 DEF Map
<1>7. CASE UNCHANGED vars
  BY <1>2, <1>7 DEF vars
<1>8. CASE \/ \E cnt \in 1..MaxCnt : Alloc(cnt)
           \/ MapTaken \/ NoFreeMemory \/ NoMemory \/ GetPage
  BY <1>2, <1>8 DEF Alloc, MapTaken, NoFreeMemory, NoMemory, GetPage, vars
<1> QED BY <1>4, <1>5, <1>6, <1>7, <1>8 DEF Next

\* Whatever the sizes and the calls, alloc() and map() never take the frame of a
\* heap page that is present away from it.
THEOREM HeapKeepsPages == Spec => HeapStable
<1>1. TypeOK /\ [Next]_vars =>
        [\A v \in HeapStart..MaxVirt :
           pte[v].present /\ pte'[v] # pte[v] => IdentityMap(v)]_vars
  BY EntryStep
<1> QED BY <1>1, TypeCorrect, PTL DEF Spec, HeapStable

-----------------------------------------------------------------------------
(* FramesKnown.  It needs no full last word, only that init()'s area lies in *)
(* memory.  That a page table is never a frame handed out follows from what  *)
(* init() set in the bitmap; that the search misses nothing from the search  *)
(* itself, which takes the least bit.                                        *)

\* The area init() mapped is in the bitmap and none of it is handed out.
LowInv ==
  /\ Low \subseteq used
  /\ \A f \in Frames : handed[f] > 0 => f \notin Low

\* A bit past the end of memory is returned when no bit of memory is left that
\* findUnset() looks at.
MemoryFirst ==
  \A f \in Frames : f >= PageCnt /\ handed[f] > 0 =>
    \A g \in 0..(PageCnt - 1) : g \in used \/ g % WordBits = WordBits - 1

KnownInv == TypeInv /\ LowInv /\ NoFreeFrameMissed /\ MemoryFirst

\* Division of natural numbers: the word of a bit starts at or before it.
LEMMA QuotientBounds ==
  ASSUME NEW n \in Nat, NEW d \in Nat, d > 0
  PROVE  (n \div d) * d <= n /\ n < (n \div d + 1) * d
OBVIOUS

LEMMA ProductOrder ==
  ASSUME NEW a \in Nat, NEW b \in Nat, NEW d \in Nat, d > 0
  PROVE  (a <= b => a * d <= b * d) /\ (a * d < b * d => a < b)
OBVIOUS

\* The bitmap has whole words, and every bit before a bit of it is one of its bits.
LEMMA BitsBefore ==
  ASSUME NEW f \in Frames, NEW g \in Nat, g < f
  PROVE  g \in Frames
<1>1. PageCnt \div WordBits \in Nat /\ WordBits \in Nat
  BY PagingAssumption, QuotientNatural
<1>2. Words \in Nat
  BY <1>1 DEF Words
<1>3. Words * WordBits \in Nat
  BY <1>1, <1>2
<1> QED BY <1>3 DEF Frames

\* All the words but the last are within m_cnt.
LEMMA EarlierWords ==
  ASSUME NEW f \in Frames
  PROVE  (f \div WordBits) * WordBits <= f /\ (f \div WordBits) * WordBits <= PageCnt
<1> DEFINE w == f \div WordBits
<1>1. f \in Nat /\ WordBits \in Nat /\ WordBits > 0 /\ PageCnt \in Nat /\ PageCnt \div WordBits \in Nat
  BY PagingAssumption, QuotientNatural DEF Frames
<1>2. w \in Nat /\ Words \in Nat /\ Words <= PageCnt \div WordBits + 1
  BY <1>1, QuotientNatural DEF Words
<1>3. w * WordBits <= f /\ (PageCnt \div WordBits) * WordBits <= PageCnt
  BY <1>1, QuotientBounds
<1>4. f < Words * WordBits
  <2>1. Words * WordBits \in Nat
    BY <1>1, <1>2
  <2> QED BY <2>1 DEF Frames
<1>5. w * WordBits < Words * WordBits
  <2>1. w * WordBits \in Nat /\ Words * WordBits \in Nat
    BY <1>1, <1>2
  <2> QED BY <1>1, <1>3, <1>4, <2>1
<1>6. w < Words
  BY <1>1, <1>2, <1>5, ProductOrder
<1>7. w <= PageCnt \div WordBits
  BY <1>1, <1>2, <1>6
<1>8. w * WordBits <= (PageCnt \div WordBits) * WordBits
  BY <1>1, <1>2, <1>7, ProductOrder
<1>9. w * WordBits \in Nat /\ (PageCnt \div WordBits) * WordBits \in Nat
  BY <1>1, <1>2
<1> QED BY <1>1, <1>3, <1>8, <1>9

\* A step that clears no bit and leaves m_last misses nothing it did not miss before.
LEMMA KeepsKnown ==
  ASSUME KnownInv, used \subseteq used', UNCHANGED <<last, handed>>
  PROVE  LowInv' /\ NoFreeFrameMissed' /\ MemoryFirst'
<1>1. LowInv' /\ NoFreeFrameMissed'
  BY DEF KnownInv, LowInv, NoFreeFrameMissed
<1>2. MemoryFirst'
  BY DEF KnownInv, MemoryFirst
<1> QED BY <1>1, <1>2

\* findUnset() with the bits of T just set: it returns the least bit it looks at.
LEMMA SearchKnown ==
  ASSUME KnownInv, LowEnd + StaticInit <= PageCnt, NEW T, T \subseteq Nat,
         NEW f \in Unset \ Set(T), \A g \in Unset \ Set(T) : f <= g,
         used' = Set(T \cup {f}), last' = f \div WordBits, handed' = HandOut(f)
  PROVE  LowInv' /\ NoFreeFrameMissed' /\ MemoryFirst'
<1>1. f \in Frames /\ f \notin used
  BY UnsetFrames
<1>2. /\ used \subseteq used' /\ \A g \in T : g < PageCnt => g \in used'
  BY DEF Set
<1>3. f \notin Low
  BY <1>1 DEF KnownInv, LowInv
<1>4. \A g \in Frames \ {f} : handed'[g] = handed[g]
  BY <1>1, HandOutType DEF KnownInv, TypeInv
<1>5. LowInv'
  BY <1>2, <1>3, <1>4 DEF KnownInv, LowInv
<1>6. /\ f \in Nat /\ PageCnt \in Nat /\ WordBits \in Nat
      /\ last' \in Nat /\ last' * WordBits \in Nat /\ last * WordBits \in Nat
  BY <1>1, WordType, PagingAssumption DEF Frames, KnownInv, TypeInv, TypeOK
<1>7. last' * WordBits <= f /\ last' * WordBits <= PageCnt
  BY <1>1, EarlierWords
\* The search passes over no bit of memory before f.
<1>8. ASSUME NEW g \in Nat, g < f, g < PageCnt
      PROVE  g \in used' \/ g % WordBits = WordBits - 1
  <2>1. g \in Frames
    BY <1>1, <1>8, BitsBefore
  <2>2. CASE g < last * WordBits
    <3>1. g \in 0..(last * WordBits - 1)
      BY <1>6, <2>2
    <3> QED BY <1>2, <3>1 DEF KnownInv, NoFreeFrameMissed
  <2>3. CASE g >= last * WordBits
    <3>1. g \notin Unset \ Set(T)
      BY <1>6, <1>8
    <3>2. CASE g \in Set(T)
      BY <1>2, <1>8, <3>2 DEF Set
    <3>3. CASE g \notin Set(T)
      BY <1>2, <2>1, <2>3, <3>1, <3>3 DEF Unset
    <3> QED BY <3>2, <3>3
  <2> QED BY <1>6, <2>2, <2>3
<1>9. NoFreeFrameMissed'
  <2> SUFFICES ASSUME NEW g \in 0..(last' * WordBits - 1)
               PROVE  g \in used' \/ g % WordBits = WordBits - 1
    BY DEF NoFreeFrameMissed
  <2>1. g \in Nat /\ g < f /\ g < PageCnt
    BY <1>6, <1>7
  <2> QED BY <1>8, <2>1
<1>10. MemoryFirst'
  <2> SUFFICES ASSUME NEW h \in Frames, h >= PageCnt, handed'[h] > 0,
                      NEW g \in 0..(PageCnt - 1)
               PROVE  g \in used' \/ g % WordBits = WordBits - 1
    BY DEF MemoryFirst
  <2>1. CASE h = f
    <3>1. g \in Nat /\ g < f /\ g < PageCnt
      BY <1>6, <2>1
    <3> QED BY <1>8, <3>1
  <2>2. CASE h # f
    <3>1. handed[h] > 0
      BY <1>4, <2>2
    <3> QED BY <1>2, <3>1 DEF KnownInv, MemoryFirst
  <2> QED BY <2>1, <2>2
<1> QED BY <1>5, <1>9, <1>10

LEMMA KnownStep ==
  ASSUME KnownInv, LowEnd + StaticInit <= PageCnt, [Next]_vars
  PROVE  KnownInv'
<1>1. TypeInv'
  BY TypeStep DEF KnownInv
<1>2. \A S : used \subseteq Set(S)
  BY DEF Set
<1>3. CASE MapFrame
  <2> DEFINE T == NewTable(req.v)
             f == CHOOSE g \in Unset \ Set(T) : \A h \in Unset \ Set(T) : g <= h
  <2>1. T \subseteq Nat
    BY <1>3, ReserveType DEF MapFrame, KnownInv, TypeInv, TypeOK
  <2>2. Unset \ Set(T) # {} /\ Unset \ Set(T) \subseteq Frames
    BY <1>3, UnsetFrames DEF MapFrame
  <2>3. f \in Unset \ Set(T) /\ \A g \in Unset \ Set(T) : f <= g
    BY <2>2, LeastFrame
  <2>4. used' = Set(T \cup {f}) /\ last' = f \div WordBits /\ handed' = HandOut(f)
    BY <1>3 DEF MapFrame
  <2> HIDE DEF f, T
  <2>5. LowInv' /\ NoFreeFrameMissed' /\ MemoryFirst'
    BY <2>1, <2>3, <2>4, SearchKnown
  <2> QED BY <1>1, <2>5 DEF KnownInv
<1>4. CASE GetPage
  <2>1. FindUnset \in Unset \ Set({}) /\ \A g \in Unset \ Set({}) : FindUnset <= g
    <3>1. Unset \ Set({}) = Unset
      BY UnsetFrames DEF Set
    <3> QED BY <1>4, <3>1, UnsetFrames, LeastFrame DEF GetPage, FindUnset
  <2>2. used' = Set({} \cup {FindUnset})
    <3>1. {} \cup {FindUnset} = {FindUnset}
      OBVIOUS
    <3> QED BY <1>4, <3>1 DEF GetPage
  <2>3. LowInv' /\ NoFreeFrameMissed' /\ MemoryFirst'
    BY <1>4, <2>1, <2>2, SearchKnown DEF GetPage
  <2> QED BY <1>1, <2>3 DEF KnownInv
<1>5. CASE \/ \E cnt \in 1..MaxCnt : Alloc(cnt)
           \/ MapTaken \/ NoFreeMemory \/ NoMemory
           \/ \E v \in DevicePages : IdentityMap(v)
           \/ \E f \in DevicePages : Map(f)
           \/ UNCHANGED vars
  <2>1. used \subseteq used' /\ UNCHANGED <<last, handed>>
    BY <1>2, <1>5 DEF Alloc, MapTaken, NoFreeMemory, NoMemory, IdentityMap, Map,
                     IdentityMapFrame, vars
  <2> QED BY <1>1, <2>1, KeepsKnown DEF KnownInv
<1> QED BY <1>3, <1>4, <1>5 DEF Next

LEMMA InitKnown ==
  ASSUME LowEnd + StaticInit <= PageCnt
  PROVE  Init => KnownInv
<1> SUFFICES ASSUME Init PROVE KnownInv
  OBVIOUS
<1>1. \A f \in Frames : handed[f] = 0 /\ ~(handed[f] > 0)
  BY DEF Init
<1>2. LowInv
  BY <1>1, PagingAssumption DEF LowInv, Init, Low
<1>3. NoFreeFrameMissed
  <2>1. last * WordBits = 0
    BY PagingAssumption DEF Init
  <2> QED BY <2>1 DEF NoFreeFrameMissed
<1>4. MemoryFirst
  BY <1>1 DEF MemoryFirst
<1> QED BY <1>2, <1>3, <1>4, InitType DEF KnownInv

\* On every machine whose memory holds the area that init() maps, full last word or
\* not: page tables share no frame with what is handed out while the static area
\* lasts, and findUnset(), which starts at m_last, passes over no free frame.
THEOREM FramesAreKnown ==
  ASSUME LowEnd + StaticInit <= PageCnt
  PROVE  Spec => []FramesKnown
<1>1. KnownInv => FramesKnown
  <2> SUFFICES ASSUME KnownInv, static < LowEnd + StaticInit,
                      NEW f \in Frames, handed[f] > 0
               PROVE  f \notin LowEnd..static
    BY DEF KnownInv, TypeInv, FramesKnown, TablesPrivate
  <2>1. f \notin Low
    BY DEF KnownInv, LowInv
  <2>2. LowEnd..static \subseteq Low
    BY PagingAssumption DEF Low, KnownInv, TypeInv, TypeOK
  <2> QED BY <2>1, <2>2
<1>2. Init => KnownInv
  BY InitKnown
<1>3. KnownInv /\ [Next]_vars => KnownInv'
  BY KnownStep
<1> QED BY <1>1, <1>2, <1>3, PTL DEF Spec

\* On the same machines findUnset() leaves the memory there is, in a last word that
\* memory does not fill, only when every bit of memory that it looks at is set: a frame
\* that does not exist is never handed out while one that does could be.
THEOREM MemoryGoesFirst ==
  ASSUME LowEnd + StaticInit <= PageCnt
  PROVE  Spec => []MemoryFirst
<1>1. KnownInv => MemoryFirst
  BY DEF KnownInv
<1>2. Init => KnownInv
  BY InitKnown
<1>3. KnownInv /\ [Next]_vars => KnownInv'
  BY KnownStep
<1> QED BY <1>1, <1>2, <1>3, PTL DEF Spec

-----------------------------------------------------------------------------
(* The memory manager: recursion over blocks                                 *)

\* A set of natural numbers has a least one.
LEMMA LeastNat ==
  ASSUME NEW S, S \subseteq Nat, S # {}
  PROVE  \E k \in S : \A j \in S : k <= j
<1>1. IsWellFoundedOn(OpToRel(<, Nat), Nat)
  BY NatLessThanWellFounded
<1>2. PICK k \in S : \A j \in S : ~(<<j, k>> \in OpToRel(<, Nat))
  BY <1>1, WFMin
<1>3. \A j \in S : ~(j < k)
  BY <1>2 DEF OpToRel
<1> QED BY <1>3

\* A recursion that only goes on to places of a lower rank: V holds the values, G makes of
\* one attempt at all of them the next.
Lowers(D, V, R, rank, G) ==
  /\ R \in Nat /\ rank \in [D -> 0..R]
  /\ G \in [[D -> V] -> [D -> V]] /\ [D -> V] # {}
  /\ \A b, c \in [D -> V] : \A n \in D :
       (\A m \in D : rank[m] < rank[n] => b[m] = c[m]) => G[b][n] = G[c][n]

\* It has a solution.
LEMMA Recursion ==
  ASSUME NEW D, NEW V, NEW R, NEW rank, NEW G, Lowers(D, V, R, rank, G)
  PROVE  \E b \in [D -> V] : b = G[b]
<1> USE DEF Lowers
<1> DEFINE P(k) == \E b \in [D -> V] : \A n \in D : rank[n] < k => b[n] = G[b][n]
<1>1. P(0)
  BY DEF P
<1>2. ASSUME NEW k \in Nat, P(k) PROVE P(k + 1)
  <2>1. PICK b \in [D -> V] : \A n \in D : rank[n] < k => b[n] = G[b][n]
    BY <1>2
  <2>2. G[b] \in [D -> V]
    OBVIOUS
  <2>3. ASSUME NEW n \in D, rank[n] < k + 1 PROVE G[b][n] = G[G[b]][n]
    <3>1. \A m \in D : rank[m] < rank[n] => b[m] = G[b][m]
      <4> TAKE m \in D
      <4> HAVE rank[m] < rank[n]
      <4>1. rank[m] \in Nat /\ rank[n] \in Nat
        OBVIOUS
      <4>2. rank[m] < k
        BY <2>3, <4>1
      <4> QED BY <2>1, <4>2
    <3> QED BY <2>2, <3>1
  <2> QED BY <2>2, <2>3
<1>3. \A k \in Nat : P(k)
  <2>1. SUFFICES ASSUME {k \in Nat : ~P(k)} # {} PROVE FALSE
    OBVIOUS
  <2>2. PICK k \in {j \in Nat : ~P(j)} : \A j \in {i \in Nat : ~P(i)} : k <= j
    <3> DEFINE S == {j \in Nat : ~P(j)}
    <3>1. S \subseteq Nat /\ S # {}
      BY <2>1
    <3> HIDE DEF P, S
    <3>2. \E k \in S : \A j \in S : k <= j
      BY <3>1, LeastNat
    <3> QED BY <3>2 DEF S
  <2> HIDE DEF P
  <2>3. k # 0
    BY <1>1, <2>2
  <2>4. k - 1 \in Nat /\ P(k - 1) /\ k - 1 + 1 = k
    BY <2>2, <2>3
  <2> QED BY <1>2, <2>2, <2>4
<1>4. P(R + 1)
  <2>1. R + 1 \in Nat
    OBVIOUS
  <2> HIDE DEF P
  <2> QED BY <1>3, <2>1
<1>5. PICK b \in [D -> V] : \A n \in D : rank[n] < R + 1 => b[n] = G[b][n]
  BY <1>4
<1>6. \A n \in D : b[n] = G[b][n]
  BY <1>5
<1> QED BY <1>6

-----------------------------------------------------------------------------
(* The tree of freed blocks, whose headers are f and whose root is r.        *)

Sides == {"prev", "next"}

Heads(f) == DOMAIN f \subseteq Nat \ {0} /\ \A n \in DOMAIN f : f[n] \in M!Header

\* Pointers only lead to blocks of a lower rank.
Down(f, R, rank) ==
  /\ rank \in [DOMAIN f -> 0..R]
  /\ \A n \in DOMAIN f, s \in Sides :
       f[n][s] # 0 => f[n][s] \in DOMAIN f /\ rank[f[n][s]] < rank[n]

\* Pointers of blocks outside of X lead to freed blocks outside of X, each to its own.
Knit(f, X, r) ==
  /\ \A n \in DOMAIN f \ X, s \in Sides : f[n][s] # 0 =>
       /\ f[n][s] \in DOMAIN f \ X /\ f[n][s] # r
       /\ f[n].state = "Freed" /\ f[f[n][s]].state = "Freed"
       /\ \A m \in DOMAIN f \ X, u \in Sides : f[m][u] = f[n][s] => m = n /\ u = s
  /\ r # 0 => r \in DOMAIN f \ X /\ f[r].state = "Freed"

\* The blocks of the tree are T, those on the way to b are up[b], and a search for the size
\* of b stays on that way.
Ways(f, r, T, up) ==
  /\ T \subseteq DOMAIN f /\ up \in [T -> SUBSET T]
  /\ IF r = 0 THEN T = {} ELSE r \in T /\ up[r] = {r}
  /\ \A n \in T : f[n].state = "Freed" /\ n \in up[n] /\ r \in up[n]
  /\ \A n \in T, s \in Sides : f[n][s] # 0 =>
       f[n][s] \in T /\ up[f[n][s]] = up[n] \cup {f[n][s]}
  /\ \A b \in T : \A n \in up[b] :
       /\ up[n] \subseteq up[b]
       /\ n # b => M!Child(f, n, f[b].size) \in up[b]

Sorted(f, X, r, T) ==
  /\ T \cap X = {} /\ Knit(f, X, r)
  /\ \E up : Ways(f, r, T, up)
  /\ \E R \in Nat : \E rank : Down(f, R, rank)

\* Nothing outside of X points to b.
Unpointed(f, X, b) == \A n \in DOMAIN f \ X, s \in Sides : f[n][s] # b

\* The side of a block on which one of that size belongs.
LEMMA SideIs ==
  ASSUME NEW f, NEW n, NEW size
  PROVE  M!Side(f, n, size) \in Sides /\ M!Child(f, n, size) = f[n][M!Side(f, n, size)]
BY DEF M!Side, M!Child, Sides

\* The pointers of a header.
LEMMA PointerIs ==
  ASSUME NEW f, Heads(f), NEW n \in DOMAIN f, NEW s \in Sides
  PROVE  f[n][s] \in Nat /\ f[n].size \in Nat /\ f[n].prev \in Nat /\ f[n].next \in Nat
BY DEF Heads, Sides, M!Header

\* The walk of treeAdd() goes down to its end.
LEMMA BottomIs ==
  ASSUME NEW f, Heads(f), NEW R \in Nat, NEW rank, Down(f, R, rank), NEW size
  PROVE  \A n \in DOMAIN f :
           M!Bottom(f, size)[n] = IF M!Child(f, n, size) = 0 THEN n
                                  ELSE M!Bottom(f, size)[M!Child(f, n, size)]
<1> DEFINE D == DOMAIN f
           kid(n) == M!Child(f, n, size)
           F(b) == [n \in D |-> IF kid(n) = 0 THEN n ELSE b[kid(n)]]
           G == [b \in [D -> D] |-> F(b)]
<1>1. \A n \in D : kid(n) # 0 => kid(n) \in D /\ rank[kid(n)] < rank[n]
  BY SideIs DEF Down
<1>2. \A b \in [D -> D] : F(b) \in [D -> D]
  BY <1>1
<1>3. G \in [[D -> D] -> [D -> D]]
  BY <1>2
<1>4. \A b, c \in [D -> D] : \A n \in D :
        (\A m \in D : rank[m] < rank[n] => b[m] = c[m]) => G[b][n] = G[c][n]
  BY <1>1
<1>5. rank \in [D -> 0..R] /\ [n \in D |-> n] \in [D -> D]
  BY DEF Down
<1>6. \E b \in [D -> D] : b = G[b]
  <2>1. Lowers(D, D, R, rank, G)
    <3> HIDE DEF G, D
    <3> QED BY <1>3, <1>4, <1>5 DEF Lowers
  <2> HIDE DEF F, G, D
  <2> QED BY <2>1, Recursion
<1>7. \E b : b = F(b)
  BY <1>6
<1>8. PICK c : c = CHOOSE b : b = F(b)
  OBVIOUS
<1>9. c = F(c)
  <2> HIDE DEF F
  <2> QED BY <1>7, <1>8
<1>10. M!Bottom(f, size) = c
  BY <1>8, SMT DEF M!Bottom, M!Null
<1> QED BY <1>9, <1>10

\* A search for a size that is on its way as far as n.
OnWay(f, up, n, size) == \A m \in up[n] : m # n => M!Child(f, m, size) \in up[n]

\* From a block of the tree the walk of treeAdd() ends at one of the tree with room, and all
\* the way there it went where a search for the size goes.
LEMMA WalkEnds ==
  ASSUME NEW f, Heads(f), NEW R \in Nat, NEW rank, Down(f, R, rank),
         NEW r, NEW T, NEW up, Ways(f, r, T, up), NEW size,
         NEW x \in T, OnWay(f, up, x, size)
  PROVE  LET n == M!Bottom(f, size)[x] IN
         n \in T /\ M!Child(f, n, size) = 0 /\ OnWay(f, up, n, size)
<1> DEFINE B == M!Bottom(f, size)
           Good(n) == n \in T /\ M!Child(f, n, size) = 0 /\ OnWay(f, up, n, size)
           Bad == {y \in T : OnWay(f, up, y, size) /\ ~Good(B[y])}
           K == {rank[y] : y \in Bad}
<1>1. T \subseteq DOMAIN f /\ \A y \in DOMAIN f : rank[y] \in Nat
  BY DEF Ways, Down
<1>2. SUFFICES ASSUME x \in Bad PROVE FALSE
  OBVIOUS
<1>3. PICK y \in Bad : \A z \in Bad : rank[y] <= rank[z]
  <2>1. K \subseteq Nat /\ K # {}
    BY <1>1, <1>2
  <2>2. PICK k \in K : \A j \in K : k <= j
    <3> HIDE DEF K
    <3> QED BY <2>1, LeastNat
  <2> QED BY <2>2
<1>4. y \in T /\ y \in DOMAIN f /\ OnWay(f, up, y, size) /\ ~Good(B[y])
  BY <1>1, <1>3
<1>5. B[y] = IF M!Child(f, y, size) = 0 THEN y ELSE B[M!Child(f, y, size)]
  BY <1>4, BottomIs
<1>6. M!Child(f, y, size) # 0
  <2> HIDE DEF B
  <2> QED BY <1>4, <1>5
<1>7. PICK z : z = M!Child(f, y, size)
  OBVIOUS
<1>8. PICK s \in Sides : z = f[y][s]
  BY <1>7, SideIs
<1>9. z \in T /\ up[z] = up[y] \cup {z} /\ rank[z] < rank[y]
  BY <1>4, <1>6, <1>7, <1>8 DEF Ways, Down
<1>10. OnWay(f, up, z, size)
  BY <1>4, <1>7, <1>9 DEF OnWay
<1>11. z \in Bad
  <2>1. B[y] = B[z]
    <3> HIDE DEF B
    <3> QED BY <1>5, <1>6, <1>7
  <2> HIDE DEF B, Good
  <2> QED BY <1>4, <1>9, <1>10, <2>1
<1>12. rank[y] \in Nat /\ rank[z] \in Nat /\ rank[y] <= rank[z]
  <2> HIDE DEF Bad
  <2> QED BY <1>1, <1>3, <1>4, <1>9, <1>11
<1> QED BY <1>9, <1>12

\* A header whose pointers are cleared.
LEMMA UnlinkedIs ==
  ASSUME NEW f, Heads(f), NEW a \in DOMAIN f
  PROVE  LET h == M!Unlinked(f, a) IN
         /\ DOMAIN h = DOMAIN f /\ Heads(h)
         /\ h[a] = [prev |-> 0, next |-> 0, size |-> f[a].size, state |-> f[a].state]
         /\ \A n \in DOMAIN f : n # a => h[n] = f[n]
<1> DEFINE w == [prev |-> 0, next |-> 0, size |-> f[a].size, state |-> f[a].state]
<1>1. f[a] \in [prev: Nat, next: Nat, size: Nat, state: {"Used", "Freed"}]
  BY DEF Heads, M!Header
<1>2. PICK v : v = f[a]
  OBVIOUS
<1>3. [[v EXCEPT !.prev = 0] EXCEPT !.next = 0] = w
  <2>1. PICK p \in Nat, x \in Nat, z \in Nat, t \in {"Used", "Freed"} :
          v = [prev |-> p, next |-> x, size |-> z, state |-> t]
    BY <1>1, <1>2
  <2>2. f[a].size = z /\ f[a].state = t
    BY <1>2, <2>1
  <2>3. PICK q : q = [v EXCEPT !.prev = 0]
    OBVIOUS
  <2>4. q = [prev |-> 0, next |-> x, size |-> z, state |-> t]
    BY <2>1, <2>3
  <2>5. [q EXCEPT !.next = 0] = [prev |-> 0, next |-> 0, size |-> z, state |-> t]
    BY <2>4
  <2> QED BY <2>2, <2>3, <2>5
<1>4. M!Unlinked(f, a) = [f EXCEPT ![a] = w]
  <2>1. M!Unlinked(f, a) = [f EXCEPT ![a].prev = 0, ![a].next = 0]
    BY DEF M!Unlinked, M!Null
  <2>2. PICK g : g = [f EXCEPT ![a].prev = 0]
    OBVIOUS
  <2>3. DOMAIN g = DOMAIN f /\ g[a] = [v EXCEPT !.prev = 0] /\ \A n \in DOMAIN f : n # a => g[n] = f[n]
    BY <1>2, <2>2
  <2>4. M!Unlinked(f, a) = [g EXCEPT ![a].next = 0]
    BY <2>1, <2>2
  <2>5. PICK h : h = [g EXCEPT ![a].next = 0]
    OBVIOUS
  <2>6. DOMAIN h = DOMAIN g /\ h[a] = [g[a] EXCEPT !.next = 0] /\ \A n \in DOMAIN g : n # a => h[n] = g[n]
    BY <2>3, <2>5
  <2>7. h[a] = w
    BY <1>3, <2>3, <2>6
  <2>8. h = [f EXCEPT ![a] = w]
    BY <2>3, <2>5, <2>6, <2>7
  <2> QED BY <2>4, <2>5, <2>8
<1>5. w \in M!Header
  BY <1>1 DEF M!Header
<1> HIDE DEF w
<1>6. PICK h : h = M!Unlinked(f, a)
  OBVIOUS
<1>7. DOMAIN h = DOMAIN f /\ h[a] = w /\ \A n \in DOMAIN f : n # a => h[n] = f[n]
  BY <1>4, <1>6
<1>8. Heads(h)
  BY <1>5, <1>7 DEF Heads
<1> QED BY <1>6, <1>7, <1>8 DEF w

\* The headers g are f with the pointer of n on the side s set to a.
Linked(f, n, s, a, g) ==
  /\ DOMAIN g = DOMAIN f /\ Heads(g) /\ g[n][s] = a
  /\ \A m \in DOMAIN f : g[m].size = f[m].size /\ g[m].state = f[m].state
  /\ \A m \in DOMAIN f, u \in Sides : m # n \/ u # s => g[m][u] = f[m][u]
  /\ \A m \in DOMAIN f : m # n => g[m] = f[m]

\* A pointer that is set.
LEMMA LinkedIs ==
  ASSUME NEW f, Heads(f), NEW n \in DOMAIN f, NEW s \in Sides, NEW a \in Nat
  PROVE  Linked(f, n, s, a, [f EXCEPT ![n][s] = a])
<1>1. PICK p \in Nat, x \in Nat, z \in Nat, t \in {"Used", "Freed"} :
        f[n] = [prev |-> p, next |-> x, size |-> z, state |-> t]
  <2>1. f[n] \in [prev: Nat, next: Nat, size: Nat, state: {"Used", "Freed"}]
    BY DEF Heads, M!Header
  <2> QED BY <2>1
<1>2. PICK v : v = f[n]
  OBVIOUS
<1>3. PICK w : w = [v EXCEPT ![s] = a]
  OBVIOUS
<1>4. PICK g : g = [f EXCEPT ![n][s] = a]
  OBVIOUS
<1>5. DOMAIN g = DOMAIN f /\ g[n] = w /\ \A m \in DOMAIN f : m # n => g[m] = f[m]
  BY <1>2, <1>3, <1>4
<1>6. w = IF s = "prev" THEN [prev |-> a, next |-> x, size |-> z, state |-> t]
          ELSE [prev |-> p, next |-> a, size |-> z, state |-> t]
  <2>1. CASE s = "prev"
    <3>1. w = [v EXCEPT !.prev = a]
      BY <1>3, <2>1
    <3>2. v = [prev |-> p, next |-> x, size |-> z, state |-> t]
      BY <1>1, <1>2
    <3> QED BY <2>1, <3>1, <3>2
  <2>2. CASE s = "next"
    <3>1. w = [v EXCEPT !.next = a]
      BY <1>3, <2>2
    <3>2. v = [prev |-> p, next |-> x, size |-> z, state |-> t]
      BY <1>1, <1>2
    <3> QED BY <2>2, <3>1, <3>2
  <2> QED BY <2>1, <2>2 DEF Sides
<1>7. /\ w \in M!Header /\ w[s] = a /\ w.size = v.size /\ w.state = v.state
      /\ \A u \in Sides : u # s => w[u] = v[u]
  <2>1. CASE s = "prev"
    BY <1>1, <1>2, <1>6, <2>1 DEF Sides, M!Header
  <2>2. CASE s = "next"
    BY <1>1, <1>2, <1>6, <2>2 DEF Sides, M!Header
  <2> QED BY <2>1, <2>2 DEF Sides
<1>8. Heads(g)
  BY <1>5, <1>7 DEF Heads
<1>9. Linked(f, n, s, a, g)
  BY <1>2, <1>5, <1>7, <1>8 DEF Linked
<1> QED BY <1>4, <1>9

\* What treeAdd() of the block a makes of the headers f and the root r: it is in the tree.
Added(f, r, X, T, a, g, q) ==
  /\ Heads(g) /\ DOMAIN g = DOMAIN f
  /\ \A n \in DOMAIN f : g[n].size = f[n].size /\ g[n].state = f[n].state
  /\ q = IF r = 0 THEN a ELSE r
  /\ Sorted(g, X, q, T \cup {a})
  /\ \A n \in X : g[n] = f[n]
  /\ \A b \in DOMAIN f \ {a} : Unpointed(f, X, b) => Unpointed(g, X, b)

\* A block alone in the tree, its pointers cleared.
LEMMA FirstAdded ==
  ASSUME NEW f, Heads(f), NEW X, NEW T, Sorted(f, X, 0, T), X \subseteq DOMAIN f,
         NEW a \in DOMAIN f \ (X \cup T), f[a].state = "Freed", Unpointed(f, X, a)
  PROVE  Added(f, 0, X, T, a, M!Unlinked(f, a), a)
<1>1. PICK g : g = M!Unlinked(f, a)
  OBVIOUS
<1>2. /\ DOMAIN g = DOMAIN f /\ Heads(g)
      /\ g[a] = [prev |-> 0, next |-> 0, size |-> f[a].size, state |-> f[a].state]
      /\ \A n \in DOMAIN f : n # a => g[n] = f[n]
  BY <1>1, UnlinkedIs
<1>3. \A s \in Sides : g[a][s] = 0
  BY <1>2 DEF Sides
<1>4. T = {} /\ a # 0
  BY DEF Sorted, Ways, Heads
<1>5. Knit(g, X, a)
  <2>1. Knit(f, X, 0)
    BY DEF Sorted
  <2>2. \A n \in DOMAIN f \ X, s \in Sides : g[n][s] # 0 => n # a /\ g[n] = f[n]
    BY <1>2, <1>3
  <2>3. \A n \in DOMAIN f : g[n].state = f[n].state
    BY <1>2
  <2> QED BY <1>2, <2>1, <2>2, <2>3 DEF Knit, Unpointed
<1>6. Ways(g, a, {a}, [b \in {a} |-> {a}])
  BY <1>2, <1>3, <1>4 DEF Ways
<1>7. \E R \in Nat : \E rank : Down(g, R, rank)
  <2>1. PICK R, rank : R \in Nat /\ Down(f, R, rank)
    BY DEF Sorted
  <2>2. Down(g, R, rank)
    BY <1>2, <1>3, <2>1 DEF Down
  <2> QED BY <2>1, <2>2
<1>8. Sorted(g, X, a, T \cup {a})
  BY <1>4, <1>5, <1>6, <1>7 DEF Sorted
<1>9. \A b \in DOMAIN f : b # 0 /\ Unpointed(f, X, b) => Unpointed(g, X, b)
  BY <1>2, <1>3 DEF Unpointed
<1>10. 0 \notin DOMAIN f
  BY DEF Heads
<1> QED BY <1>1, <1>2, <1>8, <1>9, <1>10 DEF Added

\* A block below one with room, on the way of its size.
LEMMA BelowAdded ==
  ASSUME NEW f, Heads(f), NEW X, NEW T, NEW r, r # 0, Sorted(f, X, r, T), X \subseteq DOMAIN f,
         NEW a \in DOMAIN f \ (X \cup T), f[a].state = "Freed", Unpointed(f, X, a),
         \A s \in Sides : f[a][s] = 0,
         NEW up, Ways(f, r, T, up),
         NEW n \in T, M!Child(f, n, f[a].size) = 0, OnWay(f, up, n, f[a].size)
  PROVE  Added(f, r, X, T, a, [f EXCEPT ![n][M!Side(f, n, f[a].size)] = a], r)
<1>1. PICK s : s = M!Side(f, n, f[a].size)
  OBVIOUS
<1>2. s \in Sides /\ M!Child(f, n, f[a].size) = f[n][s] /\ f[n][s] = 0
  BY <1>1, SideIs
<1>3. PICK g : g = [f EXCEPT ![n][s] = a]
  OBVIOUS
<1>4. 0 \notin DOMAIN f /\ a \in Nat /\ a # 0 /\ n \in DOMAIN f /\ n # a /\ n \notin X
  BY DEF Heads, Ways, Sorted
<1>5. /\ DOMAIN g = DOMAIN f /\ Heads(g) /\ g[n][s] = a
      /\ \A m \in DOMAIN f : g[m].size = f[m].size /\ g[m].state = f[m].state
      /\ \A m \in DOMAIN f, u \in Sides : m # n \/ u # s => g[m][u] = f[m][u]
      /\ \A m \in DOMAIN f : m # n => g[m] = f[m]
  <2>1. Linked(f, n, s, a, [f EXCEPT ![n][s] = a])
    BY <1>2, <1>4, LinkedIs
  <2> QED BY <1>3, <2>1 DEF Linked
<1>6. Knit(g, X, r)
  <2>1. Knit(f, X, r) /\ r # a /\ f[n].state = "Freed"
    BY DEF Sorted, Ways
  <2>2. ASSUME NEW m \in DOMAIN g \ X, NEW u \in Sides, g[m][u] # 0
        PROVE  /\ g[m][u] \in DOMAIN g \ X /\ g[m][u] # r
               /\ g[m].state = "Freed" /\ g[g[m][u]].state = "Freed"
               /\ \A k \in DOMAIN g \ X, v \in Sides : g[k][v] = g[m][u] => k = m /\ v = u
    <3>1. CASE m = n /\ u = s
      BY <1>4, <1>5, <2>1, <3>1 DEF Unpointed
    <3>2. CASE m # n \/ u # s
      <4>1. g[m][u] = f[m][u] /\ f[m][u] # a
        BY <1>5, <2>2, <3>2 DEF Unpointed
      <4>2. /\ f[m][u] \in DOMAIN f \ X /\ f[m][u] # r
            /\ f[m].state = "Freed" /\ f[f[m][u]].state = "Freed"
            /\ \A k \in DOMAIN f \ X, v \in Sides : f[k][v] = f[m][u] => k = m /\ v = u
        BY <1>5, <2>1, <2>2, <4>1 DEF Knit
      <4>3. ASSUME NEW k \in DOMAIN g \ X, NEW v \in Sides, g[k][v] = g[m][u]
            PROVE  k = m /\ v = u
        <5>1. k # n \/ v # s
          BY <1>5, <4>1, <4>3
        <5> QED BY <1>5, <4>1, <4>2, <4>3, <5>1
      <4> QED BY <1>5, <4>1, <4>2, <4>3
    <3> QED BY <3>1, <3>2
  <2>3. r \in DOMAIN g \ X /\ g[r].state = "Freed"
    BY <1>5, <2>1 DEF Knit
  <2> QED BY <2>2, <2>3 DEF Knit
<1>7. \E vp : Ways(g, r, T \cup {a}, vp)
  <2> DEFINE S == T \cup {a}
             vp == [b \in S |-> IF b = a THEN up[n] \cup {a} ELSE up[b]]
  <2>1. up[n] \subseteq T /\ n \in up[n] /\ T \subseteq DOMAIN f /\ a \notin T
    BY DEF Ways
  <2>2. vp \in [S -> SUBSET S] /\ \A b \in T : vp[b] = up[b] /\ vp[a] = up[n] \cup {a}
    BY <2>1 DEF Ways
  <2> HIDE DEF vp
  <2>3. r \in S /\ vp[r] = {r}
    BY <2>2 DEF Ways
  <2>4. \A b \in S : g[b].state = "Freed" /\ b \in vp[b] /\ r \in vp[b]
    BY <1>5, <2>1, <2>2 DEF Ways
  <2>5. ASSUME NEW m \in S, NEW u \in Sides, g[m][u] # 0
        PROVE  g[m][u] \in S /\ vp[g[m][u]] = vp[m] \cup {g[m][u]}
    <3>1. m # a
      BY <1>4, <1>5, <2>5
    <3>2. CASE m = n /\ u = s
      BY <1>5, <2>2, <3>2
    <3>3. CASE m # n \/ u # s
      <4>1. g[m][u] = f[m][u] /\ m \in T
        BY <1>5, <2>1, <3>1, <3>3
      <4>2. f[m][u] \in T /\ up[f[m][u]] = up[m] \cup {f[m][u]}
        BY <2>5, <4>1 DEF Ways
      <4> QED BY <2>2, <4>1, <4>2
    <3> QED BY <3>2, <3>3
  <2>6. \A size : \A m \in DOMAIN f : M!Side(g, m, size) = M!Side(f, m, size)
    BY <1>5 DEF M!Side
  <2>7. ASSUME NEW m \in T, NEW size, M!Child(f, m, size) # 0
        PROVE  M!Child(g, m, size) = M!Child(f, m, size)
    <3>1. PICK u \in Sides : u = M!Side(f, m, size)
      BY SideIs
    <3>2. M!Child(f, m, size) = f[m][u] /\ M!Child(g, m, size) = g[m][u]
      BY <2>1, <2>6, <3>1, SideIs
    <3>3. m # n \/ u # s
      BY <1>2, <2>7, <3>2
    <3> QED BY <1>5, <2>1, <3>2, <3>3
  <2>8. ASSUME NEW b \in S, NEW m \in vp[b]
        PROVE  /\ vp[m] \subseteq vp[b]
               /\ m # b => M!Child(g, m, g[b].size) \in vp[b]
    <3>1. CASE b # a
      <4>1. b \in T /\ m \in up[b] /\ m \in T /\ vp[m] = up[m] /\ vp[b] = up[b] /\ up[b] \subseteq T
        BY <2>2, <2>8, <3>1 DEF Ways
      <4>2. up[m] \subseteq up[b] /\ (m # b => M!Child(f, m, f[b].size) \in up[b])
        BY <4>1 DEF Ways
      <4>3. m # b => M!Child(f, m, f[b].size) # 0
        BY <1>4, <2>1, <4>1, <4>2
      <4>4. g[b].size = f[b].size
        BY <1>5, <2>1, <4>1
      <4> QED BY <2>7, <4>1, <4>2, <4>3, <4>4
    <3>2. CASE b = a /\ m # a
      <4>1. m \in up[n] /\ m \in T /\ vp[m] = up[m] /\ up[m] \subseteq up[n] /\ vp[b] = up[n] \cup {a}
        BY <2>1, <2>2, <2>8, <3>2 DEF Ways
      <4>2. g[b].size = f[a].size
        BY <1>5, <3>2
      <4>3. CASE m = n
        <5>1. M!Child(g, n, f[a].size) = g[n][s]
          BY <1>1, <1>4, <2>6, SideIs
        <5> QED BY <1>5, <4>1, <4>2, <4>3, <5>1
      <4>4. CASE m # n
        <5>1. M!Child(f, m, f[a].size) \in up[n]
          BY <4>1, <4>4 DEF OnWay
        <5>2. M!Child(f, m, f[a].size) # 0
          BY <1>4, <2>1, <5>1
        <5> QED BY <2>7, <4>1, <4>2, <5>1, <5>2
      <4> QED BY <4>3, <4>4
    <3>3. CASE b = a /\ m = a
      BY <3>3
    <3> QED BY <3>1, <3>2, <3>3
  <2>9. S \subseteq DOMAIN g
    BY <1>5, <2>1
  <2> HIDE DEF S
  <2>10. Ways(g, r, S, vp)
    BY <2>2, <2>3, <2>4, <2>5, <2>8, <2>9 DEF Ways
  <2> QED BY <2>10 DEF S
<1>8. \E R \in Nat : \E rank : Down(g, R, rank)
  <2>1. PICK R, rank : R \in Nat /\ Down(f, R, rank)
    BY DEF Sorted
  <2> DEFINE higher == [m \in DOMAIN f |-> IF m = a THEN 0 ELSE rank[m] + 1]
  <2>2. higher \in [DOMAIN g -> 0..R + 1]
    BY <1>5, <2>1 DEF Down
  <2>3. ASSUME NEW m \in DOMAIN g, NEW u \in Sides, g[m][u] # 0
        PROVE  g[m][u] \in DOMAIN g /\ higher[g[m][u]] < higher[m]
    <3>1. m # a
      BY <1>4, <1>5, <2>3
    <3>2. rank[m] \in Nat /\ higher[m] = rank[m] + 1
      BY <1>5, <2>1, <3>1 DEF Down
    <3>3. CASE m = n /\ u = s
      BY <1>5, <3>2, <3>3
    <3>4. CASE m # n \/ u # s
      <4>1. g[m][u] = f[m][u] /\ m \in DOMAIN f
        BY <1>5, <3>4
      <4>2. f[m][u] \in DOMAIN f /\ rank[f[m][u]] < rank[m] /\ rank[f[m][u]] \in Nat
        BY <2>1, <2>3, <4>1 DEF Down
      <4> QED BY <1>5, <3>2, <4>1, <4>2
    <3> QED BY <3>3, <3>4
  <2>4. Down(g, R + 1, higher) /\ R + 1 \in Nat
    BY <2>1, <2>2, <2>3 DEF Down
  <2> HIDE DEF higher
  <2> QED BY <2>4
<1>9. Sorted(g, X, r, T \cup {a})
  BY <1>6, <1>7, <1>8 DEF Sorted
<1>10. \A b \in DOMAIN f \ {a} : Unpointed(f, X, b) => Unpointed(g, X, b)
  BY <1>4, <1>5 DEF Unpointed
<1>11. \A m \in X : g[m] = f[m]
  BY <1>4, <1>5
<1>12. Added(f, r, X, T, a, g, r)
  BY <1>5, <1>9, <1>10, <1>11 DEF Added
<1> QED BY <1>1, <1>3, <1>12

\* The pointers of a block that is not in the tree do not matter to it.
LEMMA UnlinkSorted ==
  ASSUME NEW f, Heads(f), NEW X, NEW T, NEW r, Sorted(f, X, r, T), NEW a \in DOMAIN f \ T
  PROVE  /\ Sorted(M!Unlinked(f, a), X, r, T)
         /\ \A up : Ways(f, r, T, up) => Ways(M!Unlinked(f, a), r, T, up)
         /\ \A b : Unpointed(f, X, b) /\ b # 0 => Unpointed(M!Unlinked(f, a), X, b)
<1>1. PICK h : h = M!Unlinked(f, a)
  OBVIOUS
<1>2. /\ DOMAIN h = DOMAIN f /\ Heads(h)
      /\ h[a] = [prev |-> 0, next |-> 0, size |-> f[a].size, state |-> f[a].state]
      /\ \A n \in DOMAIN f : n # a => h[n] = f[n]
  BY <1>1, UnlinkedIs
<1>3. /\ \A s \in Sides : h[a][s] = 0
      /\ \A n \in DOMAIN f : h[n].state = f[n].state /\ h[n].size = f[n].size
  BY <1>2 DEF Sides
<1>4. \A n \in DOMAIN f, s \in Sides : h[n][s] # 0 => n # a /\ h[n][s] = f[n][s]
  BY <1>2, <1>3
<1>5. Knit(h, X, r)
  <2>1. Knit(f, X, r)
    BY DEF Sorted
  <2> QED BY <1>2, <1>3, <1>4, <2>1 DEF Knit
<1>6. ASSUME NEW up, Ways(f, r, T, up) PROVE Ways(h, r, T, up)
  <2>1. T \subseteq DOMAIN f /\ up \in [T -> SUBSET T] /\ a \notin T
    BY <1>6 DEF Ways
  <2>2. \A n \in T : h[n] = f[n]
    BY <1>2, <2>1
  <2>3. \A size : \A n \in T : M!Child(h, n, size) = M!Child(f, n, size)
    BY <2>2 DEF M!Child, M!Side
  <2>4. \A b \in T : \A n \in up[b] : n \in T
    BY <2>1
  <2>5. \A b \in T : \A n \in up[b] :
          /\ up[n] \subseteq up[b]
          /\ n # b => M!Child(h, n, h[b].size) \in up[b]
    BY <1>6, <2>2, <2>3, <2>4 DEF Ways
  <2> QED BY <1>2, <1>6, <2>1, <2>2, <2>5 DEF Ways
<1>7. \E R \in Nat : \E rank : Down(h, R, rank)
  <2>1. PICK R, rank : R \in Nat /\ Down(f, R, rank)
    BY DEF Sorted
  <2>2. Down(h, R, rank)
    BY <1>2, <1>4, <2>1 DEF Down
  <2> QED BY <2>1, <2>2
<1>8. Sorted(h, X, r, T)
  <2>1. \E up : Ways(h, r, T, up)
    BY <1>6 DEF Sorted
  <2> QED BY <1>5, <1>7, <2>1 DEF Sorted
<1>9. \A b : Unpointed(f, X, b) /\ b # 0 => Unpointed(h, X, b)
  BY <1>2, <1>3, <1>4 DEF Unpointed
<1> QED BY <1>1, <1>6, <1>8, <1>9

\* treeAdd() of a freed block that nothing points to.
LEMMA TreeAdded ==
  ASSUME NEW f, Heads(f), NEW X, NEW T, NEW r, Sorted(f, X, r, T), X \subseteq DOMAIN f,
         NEW a \in DOMAIN f \ (X \cup T), f[a].state = "Freed", Unpointed(f, X, a)
  PROVE  \E g, q : /\ M!TreeAdd([info |-> f, root |-> r], a) = [info |-> g, root |-> q]
                   /\ Added(f, r, X, T, a, g, q)
<1>1. PICK h : h = M!Unlinked(f, a)
  OBVIOUS
<1>2. CASE r = 0
  <2>1. M!TreeAdd([info |-> f, root |-> r], a) = [info |-> h, root |-> a]
    BY <1>1, <1>2 DEF M!TreeAdd, M!Null
  <2> QED BY <1>1, <1>2, <2>1, FirstAdded
<1>3. CASE r # 0
  <2>1. /\ DOMAIN h = DOMAIN f /\ Heads(h)
        /\ h[a] = [prev |-> 0, next |-> 0, size |-> f[a].size, state |-> f[a].state]
        /\ \A n \in DOMAIN f : n # a => h[n] = f[n]
    BY <1>1, UnlinkedIs
  <2>2. Sorted(h, X, r, T) /\ Unpointed(h, X, a)
    <3>1. a # 0
      BY DEF Heads
    <3> QED BY <1>1, <3>1, UnlinkSorted
  <2>3. PICK up : Ways(h, r, T, up)
    BY <2>2 DEF Sorted
  <2>4. PICK R, rank : R \in Nat /\ Down(h, R, rank)
    BY <2>2 DEF Sorted
  <2>5. PICK size : size = h[a].size
    OBVIOUS
  <2>6. r \in T /\ OnWay(h, up, r, size)
    BY <1>3, <2>3 DEF Ways, OnWay
  <2>7. PICK n : n = M!Bottom(h, size)[r]
    OBVIOUS
  <2>8. n \in T /\ M!Child(h, n, size) = 0 /\ OnWay(h, up, n, size)
    BY <2>1, <2>3, <2>4, <2>6, <2>7, WalkEnds
  <2>9. PICK g : g = [h EXCEPT ![n][M!Side(h, n, size)] = a]
    OBVIOUS
  <2>10. M!TreeAdd([info |-> f, root |-> r], a) = [info |-> g, root |-> r]
    BY <1>1, <1>3, <2>5, <2>7, <2>9 DEF M!TreeAdd, M!Null
  <2>11. h[a].state = "Freed" /\ \A s \in Sides : h[a][s] = 0
    BY <2>1 DEF Sides
  <2>12. Added(h, r, X, T, a, [h EXCEPT ![n][M!Side(h, n, h[a].size)] = a], r)
    BY <1>3, <2>1, <2>2, <2>3, <2>5, <2>8, <2>11, BelowAdded
  <2>13. Added(h, r, X, T, a, g, r)
    BY <2>5, <2>9, <2>12
  <2>14. \A m \in DOMAIN f : h[m].size = f[m].size /\ h[m].state = f[m].state
    BY <2>1
  <2>15. \A m \in X : h[m] = f[m]
    BY <2>1
  <2>16. \A b \in DOMAIN f : Unpointed(f, X, b) => Unpointed(h, X, b)
    <3>1. 0 \notin DOMAIN f
      BY DEF Heads
    <3> QED BY <1>1, <3>1, UnlinkSorted
  <2>17. Added(f, r, X, T, a, g, r)
    BY <1>3, <2>1, <2>13, <2>14, <2>15, <2>16 DEF Added
  <2> QED BY <2>10, <2>17
<1> QED BY <1>2, <1>3

-----------------------------------------------------------------------------
(* findAvail() and releaseFree()                                             *)

\* The search goes to the side of its size, or to the other one if there is none.
LEMMA OnwardIs ==
  ASSUME NEW f, NEW n, NEW size
  PROVE  /\ M!Child(f, n, size) # 0 => M!Onward(f, n, size) = M!Child(f, n, size)
         /\ M!Onward(f, n, size) # 0 => \E s \in Sides : M!Onward(f, n, size) = f[n][s]
<1>1. CASE M!Child(f, n, size) # 0
  BY <1>1, SideIs DEF M!Onward, M!Null
<1>2. CASE M!Child(f, n, size) = 0
  BY <1>2 DEF M!Onward, M!Null, Sides
<1> QED BY <1>1, <1>2

\* What the loop of findAvail() yields.
LEMMA SearchIs ==
  ASSUME NEW f, Heads(f), NEW R \in Nat, NEW rank, Down(f, R, rank), NEW size
  PROVE  \A n \in DOMAIN f, m \in DOMAIN f \cup {0} :
           M!Search(f, size)[<<n, m>>] =
             IF f[n].size = size THEN <<n, m>>
             ELSE IF M!Onward(f, n, size) = 0 THEN <<0, 0>>
             ELSE M!Search(f, size)[<<M!Onward(f, n, size), n>>]
<1> DEFINE D == DOMAIN f
           E == D \X (D \cup {0})
           V == (D \cup {0}) \X (D \cup {0})
           F(s) == [e \in E |-> IF f[e[1]].size = size THEN e
                                ELSE IF M!Onward(f, e[1], size) = 0 THEN <<0, 0>>
                                ELSE s[<<M!Onward(f, e[1], size), e[1]>>]]
           G == [s \in [E -> V] |-> F(s)]
           high == [e \in E |-> rank[e[1]]]
<1>1. \A n \in D : M!Onward(f, n, size) # 0 =>
        M!Onward(f, n, size) \in D /\ rank[M!Onward(f, n, size)] < rank[n]
  BY OnwardIs DEF Down
<1>2. \A s \in [E -> V] : F(s) \in [E -> V]
  BY <1>1
<1>3. Lowers(E, V, R, high, G)
  <2>1. high \in [E -> 0..R]
    BY DEF Down
  <2>2. G \in [[E -> V] -> [E -> V]]
    <3> HIDE DEF F, E, V
    <3> QED BY <1>2
  <2>3. [e \in E |-> <<0, 0>>] \in [E -> V]
    OBVIOUS
  <2>4. \A b, c \in [E -> V] : \A e \in E :
          (\A x \in E : high[x] < high[e] => b[x] = c[x]) => G[b][e] = G[c][e]
    <3> TAKE b, c \in [E -> V]
    <3> TAKE e \in E
    <3> HAVE \A x \in E : high[x] < high[e] => b[x] = c[x]
    <3>1. e[1] \in D /\ high[e] = rank[e[1]]
      OBVIOUS
    <3>2. PICK o : o = M!Onward(f, e[1], size)
      OBVIOUS
    <3>3. ASSUME o # 0 PROVE b[<<o, e[1]>>] = c[<<o, e[1]>>]
      <4>1. o \in D /\ rank[o] < rank[e[1]]
        BY <1>1, <3>1, <3>2, <3>3
      <4>2. PICK x : x = <<o, e[1]>>
        OBVIOUS
      <4>3. x \in E /\ high[x] = rank[o]
        BY <3>1, <4>1, <4>2
      <4> HIDE DEF E, high
      <4> QED BY <3>1, <4>1, <4>2, <4>3
    <3>4. G[b][e] = F(b)[e] /\ G[c][e] = F(c)[e]
      <4> HIDE DEF F, E, V
      <4> QED OBVIOUS
    <3> HIDE DEF G, high, V
    <3> QED BY <3>2, <3>3, <3>4
  <2> HIDE DEF G, V, E, high
  <2> QED BY <2>1, <2>2, <2>3, <2>4 DEF Lowers
<1>4. \E s : s = F(s)
  <2>1. \E s \in [E -> V] : s = G[s]
    <3> HIDE DEF G, E, V, high
    <3> QED BY <1>3, Recursion
  <2> HIDE DEF F, E, V
  <2> QED BY <2>1
<1>5. PICK S : S = CHOOSE s : s = F(s)
  OBVIOUS
<1>6. S = F(S)
  <2> HIDE DEF F
  <2> QED BY <1>4, <1>5
<1>7. M!Search(f, size) = S
  BY <1>5, SMT DEF M!Search, M!Null
<1>8. \A n \in D, m \in D \cup {0} : <<n, m>> \in E
  OBVIOUS
<1>9. \A n \in D, m \in D \cup {0} :
        S[<<n, m>>] = IF f[n].size = size THEN <<n, m>>
                      ELSE IF M!Onward(f, n, size) = 0 THEN <<0, 0>>
                      ELSE S[<<M!Onward(f, n, size), n>>]
  <2> TAKE n \in D, m \in D \cup {0}
  <2>1. PICK e : e = <<n, m>>
    OBVIOUS
  <2>2. e \in E /\ e[1] = n
    BY <1>8, <2>1
  <2>3. S[e] = IF f[e[1]].size = size THEN e
               ELSE IF M!Onward(f, e[1], size) = 0 THEN <<0, 0>>
               ELSE S[<<M!Onward(f, e[1], size), e[1]>>]
    <3> HIDE DEF E
    <3> QED BY <1>6, <2>2
  <2> QED BY <2>1, <2>2, <2>3
<1> QED BY <1>7, <1>9

\* A block of the tree and its parent, or the root and null.
Placed(f, r, T, n, m) ==
  n \in T /\ ((m = 0 /\ n = r) \/ (m \in T /\ \E s \in Sides : f[m][s] = n))

\* A block of that size with its parent, or two nulls.
Result(f, r, T, size, e) ==
  \/ e = <<0, 0>>
  \/ \E n, m : e = <<n, m>> /\ Placed(f, r, T, n, m) /\ f[n].size = size

\* Where the search goes on is a block of the tree again, with its parent.
LEMMA OnwardPlaced ==
  ASSUME NEW f, Heads(f), NEW R \in Nat, NEW rank, Down(f, R, rank),
         NEW r, NEW T, NEW up, Ways(f, r, T, up), NEW size,
         NEW n \in T, M!Onward(f, n, size) # 0
  PROVE  LET o == M!Onward(f, n, size) IN
         Placed(f, r, T, o, n) /\ rank[o] < rank[n] /\ rank[o] \in Nat
<1>1. PICK s \in Sides : M!Onward(f, n, size) = f[n][s]
  BY OnwardIs
<1>2. n \in DOMAIN f
  BY DEF Ways
<1>3. f[n][s] \in T /\ rank[f[n][s]] < rank[n] /\ f[n][s] \in DOMAIN f
  BY <1>1, <1>2 DEF Ways, Down
<1>4. rank[f[n][s]] \in Nat
  BY <1>3 DEF Down
<1> QED BY <1>1, <1>3, <1>4 DEF Placed

\* findAvail() finds a block of the size asked for and its parent, if it finds one.
LEMMA SearchSound ==
  ASSUME NEW f, Heads(f), NEW R \in Nat, NEW rank, Down(f, R, rank),
         NEW r, NEW T, NEW up, Ways(f, r, T, up), NEW size,
         NEW x, NEW y, Placed(f, r, T, x, y)
  PROVE  Result(f, r, T, size, M!Search(f, size)[<<x, y>>])
<1> DEFINE S == M!Search(f, size)
           Bad == {n \in T : \E m : Placed(f, r, T, n, m) /\ ~Result(f, r, T, size, S[<<n, m>>])}
           K == {rank[n] : n \in Bad}
<1>1. T \subseteq DOMAIN f /\ \A n \in T : rank[n] \in Nat
  BY DEF Ways, Down
<1>2. SUFFICES ASSUME x \in Bad PROVE FALSE
  BY DEF Placed
<1>3. PICK n \in Bad : \A z \in Bad : rank[n] <= rank[z]
  <2>1. K \subseteq Nat /\ K # {}
    BY <1>1, <1>2
  <2>2. PICK k \in K : \A j \in K : k <= j
    <3> HIDE DEF K
    <3> QED BY <2>1, LeastNat
  <2> QED BY <2>2
<1>4. PICK m : Placed(f, r, T, n, m) /\ ~Result(f, r, T, size, S[<<n, m>>])
  BY <1>3
<1>5. n \in T /\ n \in DOMAIN f /\ m \in DOMAIN f \cup {0}
  BY <1>1, <1>3, <1>4 DEF Placed
<1>6. S[<<n, m>>] = IF f[n].size = size THEN <<n, m>>
                    ELSE IF M!Onward(f, n, size) = 0 THEN <<0, 0>>
                    ELSE S[<<M!Onward(f, n, size), n>>]
  BY <1>5, SearchIs
<1> HIDE DEF S
<1>7. f[n].size # size /\ M!Onward(f, n, size) # 0
  BY <1>4, <1>6 DEF Result
<1>8. PICK o : o = M!Onward(f, n, size)
  OBVIOUS
<1>9. Placed(f, r, T, o, n) /\ rank[o] < rank[n] /\ rank[o] \in Nat
  BY <1>5, <1>7, <1>8, OnwardPlaced
<1>10. o \in Bad
  BY <1>4, <1>6, <1>7, <1>8, <1>9 DEF Placed
<1>11. rank[n] <= rank[o] /\ rank[n] \in Nat
  <2> HIDE DEF Bad
  <2> QED BY <1>1, <1>3, <1>5, <1>10
<1> QED BY <1>9, <1>11

\* It finds one if there is one further on.
LEMMA SearchFinds ==
  ASSUME NEW f, Heads(f), NEW R \in Nat, NEW rank, Down(f, R, rank),
         NEW r, NEW T, NEW up, Ways(f, r, T, up),
         NEW b \in T, NEW x \in up[b], NEW y, Placed(f, r, T, x, y)
  PROVE  M!Search(f, f[b].size)[<<x, y>>] # <<0, 0>>
<1> DEFINE S == M!Search(f, f[b].size)
           Bad == {n \in up[b] : \E m : Placed(f, r, T, n, m) /\ S[<<n, m>>] = <<0, 0>>}
           K == {rank[n] : n \in Bad}
<1>1. /\ T \subseteq DOMAIN f /\ up[b] \subseteq T /\ 0 \notin DOMAIN f
      /\ \A n \in T : rank[n] \in Nat
  BY DEF Ways, Down, Heads
<1>2. SUFFICES ASSUME x \in Bad PROVE FALSE
  OBVIOUS
<1>3. PICK n \in Bad : \A z \in Bad : rank[n] <= rank[z]
  <2>1. K \subseteq Nat /\ K # {}
    BY <1>1, <1>2
  <2>2. PICK k \in K : \A j \in K : k <= j
    <3> HIDE DEF K
    <3> QED BY <2>1, LeastNat
  <2> QED BY <2>2
<1>4. PICK m : Placed(f, r, T, n, m) /\ S[<<n, m>>] = <<0, 0>>
  BY <1>3
<1>5. n \in up[b] /\ n \in T /\ n \in DOMAIN f /\ m \in DOMAIN f \cup {0} /\ n # 0
  BY <1>1, <1>3, <1>4 DEF Placed
<1>6. S[<<n, m>>] = IF f[n].size = f[b].size THEN <<n, m>>
                    ELSE IF M!Onward(f, n, f[b].size) = 0 THEN <<0, 0>>
                    ELSE S[<<M!Onward(f, n, f[b].size), n>>]
  BY <1>5, SearchIs
<1> HIDE DEF S
<1>7. f[n].size # f[b].size
  BY <1>4, <1>5, <1>6
<1>8. PICK o : o = M!Child(f, n, f[b].size)
  OBVIOUS
<1>9. o \in up[b] /\ o # 0
  BY <1>1, <1>5, <1>7, <1>8 DEF Ways
<1>10. M!Onward(f, n, f[b].size) = o
  BY <1>8, <1>9, OnwardIs
<1>11. Placed(f, r, T, o, n) /\ rank[o] < rank[n] /\ rank[o] \in Nat
  <2>1. Placed(f, r, T, M!Onward(f, n, f[b].size), n)
    BY <1>5, <1>9, <1>10, OnwardPlaced
  <2>2. rank[M!Onward(f, n, f[b].size)] < rank[n] /\ rank[M!Onward(f, n, f[b].size)] \in Nat
    BY <1>5, <1>9, <1>10, OnwardPlaced
  <2> QED BY <1>10, <2>1, <2>2
<1>12. o \in Bad
  BY <1>4, <1>6, <1>7, <1>9, <1>10, <1>11
<1>13. rank[n] <= rank[o] /\ rank[n] \in Nat
  <2> HIDE DEF Bad
  <2> QED BY <1>1, <1>3, <1>5, <1>12
<1> QED BY <1>11, <1>13

\* findAvail() on the whole tree.
LEMMA FindIs ==
  ASSUME NEW f, Heads(f), NEW X, NEW r, NEW T, Sorted(f, X, r, T), NEW size
  PROVE  /\ Result(f, r, T, size, M!Find([info |-> f, root |-> r], size))
         /\ \A b \in T : f[b].size = size => M!Find([info |-> f, root |-> r], size)[1] # 0
<1>1. PICK up : Ways(f, r, T, up)
  BY DEF Sorted
<1>2. PICK R, rank : R \in Nat /\ Down(f, R, rank)
  BY DEF Sorted
<1>3. CASE r = 0
  <2>1. M!Find([info |-> f, root |-> r], size) = <<0, 0>> /\ T = {}
    BY <1>1, <1>3 DEF M!Find, M!Null, Ways
  <2> QED BY <2>1 DEF Result
<1>4. CASE r # 0
  <2>1. M!Find([info |-> f, root |-> r], size) = M!Search(f, size)[<<r, 0>>]
    BY <1>4 DEF M!Find, M!Null
  <2>2. Placed(f, r, T, r, 0)
    BY <1>1, <1>4 DEF Placed, Ways
  <2>3. Result(f, r, T, size, M!Search(f, size)[<<r, 0>>])
    BY <1>1, <1>2, <2>2, SearchSound
  <2>4. ASSUME NEW b \in T, f[b].size = size PROVE M!Search(f, size)[<<r, 0>>][1] # 0
    <3>2. r \in up[b]
      BY <1>1 DEF Ways
    <3>3. M!Search(f, size)[<<r, 0>>] # <<0, 0>>
      BY <1>1, <1>2, <2>2, <2>4, <3>2, SearchFinds
    <3>4. T \subseteq Nat \ {0}
      BY <1>1 DEF Ways, Heads
    <3> QED BY <2>3, <3>3, <3>4 DEF Result, Placed
  <2> QED BY <2>1, <2>3, <2>4
<1> QED BY <1>3, <1>4

\* What releaseFree() of the block p makes of the headers f: it is in no tree any more.
Taken(f, p, g, q, S) ==
  /\ Heads(g) /\ DOMAIN g = DOMAIN f
  /\ \A n \in DOMAIN f : g[n].size = f[n].size /\ g[n].state = f[n].state
  /\ Sorted(g, {}, q, S) /\ p \notin S /\ Unpointed(g, {}, p)
  /\ \A s \in Sides : g[p][s] = 0

\* In the end the pointers of the block taken out are cleared.
LEMMA Detached ==
  ASSUME NEW f, Heads(f), NEW p \in DOMAIN f, NEW q, NEW S, Sorted(f, {p}, q, S)
  PROVE  Taken(f, p, M!Unlinked(f, p), q, S)
<1>1. PICK h : h = M!Unlinked(f, p)
  OBVIOUS
<1>2. /\ DOMAIN h = DOMAIN f /\ Heads(h)
      /\ h[p] = [prev |-> 0, next |-> 0, size |-> f[p].size, state |-> f[p].state]
      /\ \A n \in DOMAIN f : n # p => h[n] = f[n]
  BY <1>1, UnlinkedIs
<1>3. p \notin S
  BY DEF Sorted
<1>4. Sorted(h, {p}, q, S)
  BY <1>1, <1>3, UnlinkSorted
<1>5. \A s \in Sides : h[p][s] = 0
  BY <1>2 DEF Sides
<1>6. Knit(h, {}, q)
  <2>1. Knit(h, {p}, q)
    BY <1>4 DEF Sorted
  <2>2. \A n \in DOMAIN h, s \in Sides : h[n][s] # 0 => n \in DOMAIN h \ {p}
    BY <1>5
  <2> QED BY <2>1, <2>2 DEF Knit
<1>7. Unpointed(h, {}, p)
  <2>1. Knit(h, {p}, q) /\ p # 0
    BY <1>4 DEF Sorted, Heads
  <2>2. \A n \in DOMAIN h, s \in Sides : h[n][s] # 0 => n \in DOMAIN h \ {p}
    BY <1>5
  <2> QED BY <2>1, <2>2 DEF Knit, Unpointed
<1>8. Sorted(h, {}, q, S)
  BY <1>4, <1>6 DEF Sorted
<1>9. \A n \in DOMAIN f : h[n].size = f[n].size /\ h[n].state = f[n].state
  BY <1>2
<1>10. Taken(f, p, h, q, S)
  BY <1>2, <1>3, <1>5, <1>7, <1>8, <1>9 DEF Taken
<1> QED BY <1>1, <1>10

\* A child of the root becomes the root; what is below the other one is left out.
LEMMA RootTaken ==
  ASSUME NEW f, Heads(f), NEW p, p # 0, NEW T, Sorted(f, {}, p, T),
         NEW s \in Sides, f[p][s] # 0
  PROVE  \E S : /\ Sorted(f, {p}, f[p][s], S) /\ p \notin S
                /\ \A u \in Sides : u # s /\ f[p][u] # 0 => f[p][u] \notin S
<1>1. PICK z : z = f[p][s]
  OBVIOUS
<1>2. PICK up : Ways(f, p, T, up)
  BY DEF Sorted
<1>3. Knit(f, {}, p) /\ p \in T /\ p \in DOMAIN f /\ T \subseteq DOMAIN f
  BY <1>2 DEF Sorted, Ways
<1>4. /\ z \in DOMAIN f /\ z # p /\ f[z].state = "Freed" /\ z # 0 /\ z \in T
      /\ \A m \in DOMAIN f, u \in Sides : f[m][u] = z => m = p /\ u = s
  BY <1>1, <1>2, <1>3 DEF Knit, Ways
<1>5. up[p] = {p} /\ up[z] = {p, z}
  BY <1>1, <1>2, <1>3 DEF Ways
<1> DEFINE S == {b \in T : z \in up[b] /\ \A n \in up[b] : n # p => z \in up[n]}
           vp == [b \in S |-> up[b] \ {p}]
<1>6. p \notin S
  BY <1>4, <1>5
<1>7. Knit(f, {p}, z)
  <2>1. z \in DOMAIN f \ {p} /\ f[z].state = "Freed"
    BY <1>4
  <2>2. ASSUME NEW n \in DOMAIN f \ {p}, NEW u \in Sides, f[n][u] # 0
        PROVE  /\ f[n][u] \in DOMAIN f \ {p} /\ f[n][u] # z
               /\ f[n].state = "Freed" /\ f[f[n][u]].state = "Freed"
               /\ \A m \in DOMAIN f \ {p}, o \in Sides : f[m][o] = f[n][u] => m = n /\ o = u
    <3>1. f[n][u] # z
      BY <1>4, <2>2
    <3> QED BY <1>3, <2>2, <3>1 DEF Knit
  <2> QED BY <2>1, <2>2 DEF Knit
<1>8. Ways(f, z, S, vp)
  <2>1. S \subseteq DOMAIN f
    BY <1>3
  <2>2. \A b \in S : vp[b] \subseteq S /\ vp[b] = up[b] \ {p}
    <3> SUFFICES ASSUME NEW b \in S, NEW n \in up[b], n # p PROVE n \in S
      OBVIOUS
    <3>1. b \in T /\ n \in T /\ z \in up[n] /\ up[n] \subseteq up[b]
      BY <1>2 DEF Ways
    <3> QED BY <3>1
  <2>3. z \in S /\ vp[z] = {z}
    BY <1>4, <1>5
  <2>4. \A n \in S : f[n].state = "Freed" /\ n \in vp[n] /\ z \in vp[n]
    BY <1>2, <1>4, <1>6 DEF Ways
  <2>5. ASSUME NEW n \in S, NEW u \in Sides, f[n][u] # 0
        PROVE  f[n][u] \in S /\ vp[f[n][u]] = vp[n] \cup {f[n][u]}
    <3>1. PICK c : c = f[n][u]
      OBVIOUS
    <3>2. n \in T /\ c \in T /\ up[c] = up[n] \cup {c}
      BY <1>2, <2>5, <3>1 DEF Ways
    <3>3. c # p
      BY <1>3, <2>5, <3>1, <3>2 DEF Knit
    <3>4. z \in up[c] /\ \A k \in up[c] : k # p => z \in up[k]
      BY <3>2
    <3>5. c \in S
      BY <3>2, <3>4
    <3>6. vp[c] = vp[n] \cup {c}
      BY <3>2, <3>3, <3>5
    <3> QED BY <3>1, <3>5, <3>6
  <2>6. ASSUME NEW b \in S, NEW n \in vp[b]
        PROVE  /\ vp[n] \subseteq vp[b]
               /\ n # b => M!Child(f, n, f[b].size) \in vp[b]
    <3>1. b \in T /\ n \in up[b] /\ n # p /\ n \in S /\ n \in T
      BY <2>2, <2>6
    <3>2. up[n] \subseteq up[b] /\ (n # b => M!Child(f, n, f[b].size) \in up[b])
      BY <1>2, <3>1 DEF Ways
    <3>3. \A u \in Sides : f[n][u] # p
      BY <1>3, <1>4, <3>1 DEF Knit
    <3>4. M!Child(f, n, f[b].size) # p
      BY <3>3, SideIs
    <3> QED BY <2>2, <3>1, <3>2, <3>4
  <2>7. vp \in [S -> SUBSET S]
    BY <2>2
  <2> HIDE DEF S, vp
  <2> QED BY <1>4, <2>1, <2>3, <2>4, <2>5, <2>6, <2>7 DEF Ways
<1>9. \A u \in Sides : u # s /\ f[p][u] # 0 => f[p][u] \notin S
  <2> SUFFICES ASSUME NEW u \in Sides, u # s, f[p][u] # 0 PROVE z \notin up[f[p][u]]
    OBVIOUS
  <2>1. up[f[p][u]] = {p} \cup {f[p][u]}
    BY <1>2, <1>3, <1>5 DEF Ways
  <2>2. f[p][u] # z
    BY <1>3, <1>4
  <2> QED BY <1>4, <2>1, <2>2
<1>10. Sorted(f, {p}, z, S)
  <2>1. \E R \in Nat : \E rank : Down(f, R, rank)
    BY DEF Sorted
  <2>2. S \cap {p} = {}
    BY <1>6
  <2> HIDE DEF S, vp
  <2> QED BY <1>7, <1>8, <2>1, <2>2 DEF Sorted
<1> HIDE DEF S
<1> QED BY <1>1, <1>6, <1>9, <1>10

\* A block that its parent does not point to any more.
LEMMA ChildCut ==
  ASSUME NEW f, Heads(f), NEW r, r # 0, NEW T, Sorted(f, {}, r, T),
         NEW m \in T, NEW s \in Sides, NEW p \in T, f[m][s] = p,
         NEW c, Linked(f, m, s, 0, c)
  PROVE  \E S : /\ Sorted(c, {p}, r, S) /\ p \notin S
                /\ \A u \in Sides : f[p][u] # 0 => f[p][u] \notin S
<1>1. PICK up : Ways(f, r, T, up)
  BY DEF Sorted
<1>2. Knit(f, {}, r) /\ T \subseteq DOMAIN f /\ 0 \notin DOMAIN f
  BY <1>1 DEF Sorted, Ways, Heads
<1>3. /\ p # 0 /\ p # r /\ m \in DOMAIN f /\ p \in DOMAIN f
      /\ \A n \in DOMAIN f, u \in Sides : f[n][u] = p => n = m /\ u = s
  BY <1>2 DEF Knit
<1>4. /\ DOMAIN c = DOMAIN f /\ c[m][s] = 0
      /\ \A n \in DOMAIN f : c[n].size = f[n].size /\ c[n].state = f[n].state
      /\ \A n \in DOMAIN f, u \in Sides : n # m \/ u # s => c[n][u] = f[n][u]
  BY DEF Linked
<1>5. \A n \in DOMAIN f, u \in Sides : c[n][u] # 0 => c[n][u] = f[n][u] /\ f[n][u] # p
  BY <1>3, <1>4
<1> DEFINE S == {b \in T : p \notin up[b]}
           vp == [b \in S |-> up[b]]
<1>6. p \notin S
  BY <1>1 DEF Ways
<1>7. Knit(c, {p}, r)
  <2>1. r \in DOMAIN c \ {p} /\ c[r].state = "Freed"
    BY <1>2, <1>3, <1>4 DEF Knit
  <2>2. ASSUME NEW n \in DOMAIN c \ {p}, NEW u \in Sides, c[n][u] # 0
        PROVE  /\ c[n][u] \in DOMAIN c \ {p} /\ c[n][u] # r
               /\ c[n].state = "Freed" /\ c[c[n][u]].state = "Freed"
               /\ \A k \in DOMAIN c \ {p}, o \in Sides : c[k][o] = c[n][u] => k = n /\ o = u
    <3>1. c[n][u] = f[n][u] /\ f[n][u] # p /\ f[n][u] # 0
      BY <1>4, <1>5, <2>2
    <3>2. /\ f[n][u] \in DOMAIN f /\ f[n][u] # r
          /\ f[n].state = "Freed" /\ f[f[n][u]].state = "Freed"
          /\ \A k \in DOMAIN f, o \in Sides : f[k][o] = f[n][u] => k = n /\ o = u
      BY <1>2, <1>4, <3>1 DEF Knit
    <3>3. ASSUME NEW k \in DOMAIN c \ {p}, NEW o \in Sides, c[k][o] = c[n][u]
          PROVE  k = n /\ o = u
      <4>1. f[k][o] = f[n][u]
        BY <1>4, <1>5, <2>2, <3>1, <3>3
      <4> QED BY <1>4, <3>2, <4>1
    <3> QED BY <1>4, <3>1, <3>2, <3>3
  <2> QED BY <2>1, <2>2 DEF Knit
<1>8. Ways(c, r, S, vp)
  <2>1. S \subseteq DOMAIN c
    BY <1>2, <1>4
  <2>2. \A b \in S : vp[b] \subseteq S /\ vp[b] = up[b]
    <3> SUFFICES ASSUME NEW b \in S, NEW n \in up[b] PROVE n \in S
      OBVIOUS
    <3>1. b \in T /\ n \in T /\ up[n] \subseteq up[b]
      BY <1>1 DEF Ways
    <3> QED BY <3>1
  <2>3. r \in S /\ vp[r] = {r}
    BY <1>1, <1>3 DEF Ways
  <2>4. \A n \in S : c[n].state = "Freed" /\ n \in vp[n] /\ r \in vp[n]
    BY <1>1, <1>2, <1>4 DEF Ways
  <2>5. ASSUME NEW n \in S, NEW u \in Sides, c[n][u] # 0
        PROVE  c[n][u] \in S /\ vp[c[n][u]] = vp[n] \cup {c[n][u]}
    <3>1. PICK k : k = f[n][u]
      OBVIOUS
    <3>2. n \in T /\ c[n][u] = k /\ k # p /\ k # 0
      BY <1>2, <1>5, <2>5, <3>1
    <3>3. k \in T /\ up[k] = up[n] \cup {k}
      BY <1>1, <3>1, <3>2 DEF Ways
    <3>4. k \in S
      BY <3>2, <3>3
    <3> QED BY <3>2, <3>3, <3>4
  <2>6. ASSUME NEW n \in T, NEW size, M!Child(f, n, size) # p, M!Child(f, n, size) # 0
        PROVE  M!Child(c, n, size) = M!Child(f, n, size)
    <3>1. PICK u \in Sides : u = M!Side(f, n, size)
      BY SideIs
    <3>2. M!Side(c, n, size) = u
      BY <1>2, <1>4, <3>1 DEF M!Side
    <3>3. M!Child(f, n, size) = f[n][u] /\ M!Child(c, n, size) = c[n][u]
      BY <3>1, <3>2, SideIs
    <3> QED BY <1>2, <1>4, <2>6, <3>3
  <2>7. ASSUME NEW b \in S, NEW n \in vp[b]
        PROVE  /\ vp[n] \subseteq vp[b]
               /\ n # b => M!Child(c, n, c[b].size) \in vp[b]
    <3>1. b \in T /\ n \in up[b] /\ n \in S /\ n \in T /\ p \notin up[b] /\ up[b] \subseteq T
      BY <1>1, <2>2, <2>7 DEF Ways
    <3>2. up[n] \subseteq up[b] /\ (n # b => M!Child(f, n, f[b].size) \in up[b])
      BY <1>1, <3>1 DEF Ways
    <3>3. n # b => M!Child(f, n, f[b].size) # p /\ M!Child(f, n, f[b].size) # 0
      BY <1>2, <3>1, <3>2
    <3>4. c[b].size = f[b].size
      BY <1>2, <1>4, <3>1
    <3> QED BY <2>2, <2>6, <3>1, <3>2, <3>3, <3>4
  <2>8. vp \in [S -> SUBSET S]
    BY <2>2
  <2> HIDE DEF S, vp
  <2> QED BY <2>1, <2>3, <2>4, <2>5, <2>7, <2>8 DEF Ways
<1>9. \A u \in Sides : f[p][u] # 0 => f[p][u] \notin S
  BY <1>1 DEF Ways
<1>10. Sorted(c, {p}, r, S)
  <2>1. PICK R, rank : R \in Nat /\ Down(f, R, rank)
    BY DEF Sorted
  <2>2. Down(c, R, rank)
    BY <1>4, <1>5, <2>1 DEF Down
  <2>3. S \cap {p} = {}
    BY <1>6
  <2> HIDE DEF S, vp
  <2> QED BY <1>7, <1>8, <2>1, <2>2, <2>3 DEF Sorted
<1> HIDE DEF S
<1> QED BY <1>6, <1>9, <1>10

\* What adding the block a, if there is one, makes of the headers f under the root r.
Grown(f, r, X, T, a, g, S) ==
  /\ Heads(g) /\ DOMAIN g = DOMAIN f
  /\ \A n \in DOMAIN f : g[n].size = f[n].size /\ g[n].state = f[n].state
  /\ Sorted(g, X, r, S) /\ S \subseteq T \cup {a}
  /\ \A n \in X : g[n] = f[n]
  /\ \A b \in DOMAIN f \ {a} : Unpointed(f, X, b) => Unpointed(g, X, b)

\* A child that is null is not added.
LEMMA MaybeAdded ==
  ASSUME NEW f, Heads(f), NEW X, NEW T, NEW r, r # 0, Sorted(f, X, r, T), X \subseteq DOMAIN f,
         NEW a, a # 0 => a \in DOMAIN f \ (X \cup T) /\ f[a].state = "Freed" /\ Unpointed(f, X, a)
  PROVE  \E g, S : /\ M!AddIfAny([info |-> f, root |-> r], a) = [info |-> g, root |-> r]
                   /\ Grown(f, r, X, T, a, g, S)
<1>1. CASE a = 0
  <2>1. M!AddIfAny([info |-> f, root |-> r], a) = [info |-> f, root |-> r]
    BY <1>1 DEF M!AddIfAny, M!Null
  <2>2. Grown(f, r, X, T, a, f, T)
    BY DEF Grown
  <2> QED BY <2>1, <2>2
<1>2. CASE a # 0
  <2>1. PICK g, q : /\ M!TreeAdd([info |-> f, root |-> r], a) = [info |-> g, root |-> q]
                    /\ Added(f, r, X, T, a, g, q)
    BY <1>2, TreeAdded
  <2>2. q = r
    BY <2>1 DEF Added
  <2>3. M!AddIfAny([info |-> f, root |-> r], a) = [info |-> g, root |-> r]
    BY <1>2, <2>1, <2>2 DEF M!AddIfAny, M!Null
  <2>4. Grown(f, r, X, T, a, g, T \cup {a})
    BY <2>1, <2>2 DEF Added, Grown
  <2> QED BY <2>3, <2>4
<1> QED BY <1>1, <1>2

\* The children of a block of the tree: freed, each pointed to by that block alone.
LEMMA Children ==
  ASSUME NEW f, Heads(f), NEW r, NEW T, Sorted(f, {}, r, T), NEW p \in T,
         NEW s \in Sides, f[p][s] # 0
  PROVE  /\ f[p][s] \in DOMAIN f \ {p} /\ f[f[p][s]].state = "Freed" /\ f[p][s] # r
         /\ \A n \in DOMAIN f, u \in Sides : f[n][u] = f[p][s] => n = p /\ u = s
<1>1. PICK up : Ways(f, r, T, up)
  BY DEF Sorted
<1>2. PICK R, rank : R \in Nat /\ Down(f, R, rank)
  BY DEF Sorted
<1>3. p \in DOMAIN f
  BY <1>1 DEF Ways
<1>4. f[p][s] # p
  <2>1. rank[f[p][s]] < rank[p] /\ rank[p] \in Nat
    BY <1>2, <1>3 DEF Down
  <2> QED BY <2>1
<1>5. Knit(f, {}, r)
  BY DEF Sorted
<1> QED BY <1>3, <1>4, <1>5 DEF Knit

\* releaseFree() of the root.
LEMMA ReleasedRoot ==
  ASSUME NEW f, Heads(f), NEW p, p # 0, NEW T, Sorted(f, {}, p, T)
  PROVE  \E g, q, S : /\ M!ReleaseFree([info |-> f, root |-> p], p, 0) = [info |-> g, root |-> q]
                      /\ Taken(f, p, g, q, S)
<1>1. PICK l, r : l = f[p].prev /\ r = f[p].next
  OBVIOUS
<1>2. p \in T /\ p \in DOMAIN f
  BY DEF Sorted, Ways
<1>3. Knit(f, {}, p) /\ "prev" \in Sides /\ "next" \in Sides
  BY DEF Sorted, Sides
<1>4. f[p]["prev"] = l /\ f[p]["next"] = r
  BY <1>1
<1>5. CASE l # 0 /\ r # 0
  <2>1. PICK S : Sorted(f, {p}, r, S) /\ p \notin S /\ l \notin S
    <3>1. \E S : /\ Sorted(f, {p}, f[p]["next"], S) /\ p \notin S
                 /\ \A u \in Sides : u # "next" /\ f[p][u] # 0 => f[p][u] \notin S
      BY <1>3, <1>4, <1>5, RootTaken
    <3> QED BY <1>3, <1>4, <1>5, <3>1
  <2>2. /\ l \in DOMAIN f \ {p} /\ f[l].state = "Freed"
        /\ \A n \in DOMAIN f, u \in Sides : f[n][u] = l => n = p /\ u = "prev"
    BY <1>2, <1>3, <1>4, <1>5, Children
  <2>3. Unpointed(f, {p}, l)
    BY <2>2 DEF Unpointed
  <2>4. PICK g, q : /\ M!TreeAdd([info |-> f, root |-> r], l) = [info |-> g, root |-> q]
                    /\ Added(f, r, {p}, S, l, g, q)
    <3>1. {p} \subseteq DOMAIN f /\ l \in DOMAIN f \ ({p} \cup S)
      BY <1>2, <2>1, <2>2
    <3> QED BY <2>1, <2>2, <2>3, <3>1, TreeAdded
  <2>5. Taken(g, p, M!Unlinked(g, p), q, S \cup {l})
    BY <1>2, <2>4, Detached DEF Added
  <2>6. Taken(f, p, M!Unlinked(g, p), q, S \cup {l})
    BY <2>4, <2>5 DEF Added, Taken
  <2>7. M!ReleaseFree([info |-> f, root |-> p], p, 0) = [info |-> M!Unlinked(g, p), root |-> q]
    <3>1. M!ReleaseFree([info |-> f, root |-> p], p, 0)
            = [M!TreeAdd([[info |-> f, root |-> p] EXCEPT !.root = r], l) EXCEPT !.info = M!Unlinked(@, p)]
      BY <1>1, <1>5 DEF M!ReleaseFree, M!Null
    <3>2. [[info |-> f, root |-> p] EXCEPT !.root = r] = [info |-> f, root |-> r]
      OBVIOUS
    <3>3. [[info |-> g, root |-> q] EXCEPT !.info = M!Unlinked(@, p)] = [info |-> M!Unlinked(g, p), root |-> q]
      OBVIOUS
    <3> QED BY <2>4, <3>1, <3>2, <3>3
  <2> QED BY <2>6, <2>7
<1>6. CASE ~(l # 0 /\ r # 0)
  <2>1. PICK q : q = IF r # 0 THEN r ELSE l
    OBVIOUS
  <2>2. \E S : Sorted(f, {p}, q, S)
    <3>1. CASE r # 0
      BY <1>3, <1>4, <2>1, <3>1, RootTaken
    <3>2. CASE r = 0 /\ l # 0
      BY <1>3, <1>4, <2>1, <3>2, RootTaken
    <3>3. CASE r = 0 /\ l = 0
      <4>1. q = 0 /\ \A s \in Sides : f[p][s] = 0
        BY <1>4, <2>1, <3>3 DEF Sides
      <4>2. Knit(f, {p}, 0)
        <5>1. ASSUME NEW n \in DOMAIN f \ {p}, NEW s \in Sides, f[n][s] # 0
              PROVE  /\ f[n][s] \in DOMAIN f \ {p}
                     /\ f[n].state = "Freed" /\ f[f[n][s]].state = "Freed"
                     /\ \A m \in DOMAIN f \ {p}, u \in Sides : f[m][u] = f[n][s] => m = n /\ u = s
          BY <1>3, <5>1 DEF Knit
        <5> QED BY <5>1 DEF Knit
      <4>3. Ways(f, 0, {}, [b \in {} |-> {}])
        BY DEF Ways
      <4>4. Sorted(f, {p}, 0, {})
        BY <4>2, <4>3 DEF Sorted
      <4> QED BY <4>1, <4>4
    <3> QED BY <3>1, <3>2, <3>3
  <2>3. PICK S : Sorted(f, {p}, q, S)
    BY <2>2
  <2>4. Taken(f, p, M!Unlinked(f, p), q, S)
    BY <1>2, <2>3, Detached
  <2>5. M!ReleaseFree([info |-> f, root |-> p], p, 0) = [info |-> M!Unlinked(f, p), root |-> q]
    <3>1. M!ReleaseFree([info |-> f, root |-> p], p, 0)
            = [[[info |-> f, root |-> p] EXCEPT !.root = q] EXCEPT !.info = M!Unlinked(@, p)]
      BY <1>1, <1>6, <2>1 DEF M!ReleaseFree, M!Null
    <3>2. [[info |-> f, root |-> p] EXCEPT !.root = q] = [info |-> f, root |-> q]
      OBVIOUS
    <3>3. [[info |-> f, root |-> q] EXCEPT !.info = M!Unlinked(@, p)] = [info |-> M!Unlinked(f, p), root |-> q]
      OBVIOUS
    <3> QED BY <3>1, <3>2, <3>3
  <2> QED BY <2>4, <2>5
<1> QED BY <1>5, <1>6

\* releaseFree() of a block with a parent.
LEMMA ReleasedChild ==
  ASSUME NEW f, Heads(f), NEW r, r # 0, NEW T, Sorted(f, {}, r, T),
         NEW p \in T, NEW m \in T, NEW s \in Sides, f[m][s] = p
  PROVE  \E g, q, S : /\ M!ReleaseFree([info |-> f, root |-> r], p, m) = [info |-> g, root |-> q]
                      /\ Taken(f, p, g, q, S)
<1>1. PICK lc, rc : lc = f[p].prev /\ rc = f[p].next
  OBVIOUS
<1>2. T \subseteq DOMAIN f /\ p \in DOMAIN f /\ m \in DOMAIN f /\ p # 0 /\ m # 0
  BY DEF Sorted, Ways, Heads
<1>3. Knit(f, {}, r) /\ "prev" \in Sides /\ "next" \in Sides
  BY DEF Sorted, Sides
<1>4. f[p]["prev"] = lc /\ f[p]["next"] = rc
  BY <1>1
<1>5. p # m /\ p # r /\ \A n \in DOMAIN f, u \in Sides : f[n][u] = p => n = m /\ u = s
  <2>1. m \in T /\ f[m][s] # 0
    BY <1>2
  <2> QED BY <2>1, Children
<1>6. PICK c : c = [f EXCEPT ![m][s] = 0]
  OBVIOUS
<1>7. Linked(f, m, s, 0, c)
  <2>1. m \in DOMAIN f /\ 0 \in Nat
    BY <1>2
  <2> QED BY <1>6, <2>1, LinkedIs
<1>8. PICK S : /\ Sorted(c, {p}, r, S) /\ p \notin S
               /\ \A u \in Sides : f[p][u] # 0 => f[p][u] \notin S
  BY <1>7, ChildCut
<1>9. /\ DOMAIN c = DOMAIN f /\ Heads(c) /\ c[p] = f[p]
      /\ \A n \in DOMAIN f : c[n].size = f[n].size /\ c[n].state = f[n].state
      /\ \A n \in DOMAIN f, u \in Sides : c[n][u] # 0 => c[n][u] = f[n][u]
  BY <1>2, <1>5, <1>7 DEF Linked
<1>10. ASSUME NEW u \in Sides, f[p][u] # 0
       PROVE  f[p][u] \in DOMAIN c \ ({p} \cup S) /\ c[f[p][u]].state = "Freed" /\ Unpointed(c, {p}, f[p][u])
  <2>1. /\ f[p][u] \in DOMAIN f \ {p} /\ f[f[p][u]].state = "Freed"
        /\ \A n \in DOMAIN f, o \in Sides : f[n][o] = f[p][u] => n = p /\ o = u
    BY <1>10, Children
  <2>2. Unpointed(c, {p}, f[p][u])
    BY <1>9, <1>10, <2>1 DEF Unpointed
  <2> QED BY <1>8, <1>9, <1>10, <2>1, <2>2
<1>11. PICK g1, S1 : /\ M!AddIfAny([info |-> c, root |-> r], lc) = [info |-> g1, root |-> r]
                     /\ Grown(c, r, {p}, S, lc, g1, S1)
  <2>1. lc # 0 => lc \in DOMAIN c \ ({p} \cup S) /\ c[lc].state = "Freed" /\ Unpointed(c, {p}, lc)
    BY <1>3, <1>4, <1>10
  <2>2. {p} \subseteq DOMAIN c /\ Heads(c) /\ Sorted(c, {p}, r, S)
    BY <1>2, <1>8, <1>9
  <2> QED BY <2>1, <2>2, MaybeAdded
<1>12. PICK g2, S2 : /\ M!AddIfAny([info |-> g1, root |-> r], rc) = [info |-> g2, root |-> r]
                     /\ Grown(g1, r, {p}, S1, rc, g2, S2)
  <2>1. rc # 0 => rc \in DOMAIN g1 \ ({p} \cup S1) /\ g1[rc].state = "Freed" /\ Unpointed(g1, {p}, rc)
    <3> SUFFICES ASSUME rc # 0
                 PROVE  rc \in DOMAIN g1 \ ({p} \cup S1) /\ g1[rc].state = "Freed" /\ Unpointed(g1, {p}, rc)
      OBVIOUS
    <3>1. rc \in DOMAIN c \ ({p} \cup S) /\ c[rc].state = "Freed" /\ Unpointed(c, {p}, rc)
      BY <1>3, <1>4, <1>10
    <3>2. rc # lc
      <4>1. \A n \in DOMAIN f, o \in Sides : f[n][o] = f[p]["next"] => n = p /\ o = "next"
        BY <1>3, <1>4, Children
      <4>2. f[p]["prev"] # f[p]["next"]
        BY <1>2, <1>3, <4>1
      <4> QED BY <1>4, <4>2
    <3> QED BY <1>11, <3>1, <3>2 DEF Grown
  <2>2. {p} \subseteq DOMAIN g1 /\ Heads(g1) /\ Sorted(g1, {p}, r, S1)
    BY <1>2, <1>9, <1>11 DEF Grown
  <2> QED BY <2>1, <2>2, MaybeAdded
<1>13. p \in DOMAIN g2 /\ Heads(g2) /\ Sorted(g2, {p}, r, S2)
  BY <1>2, <1>9, <1>11, <1>12 DEF Grown
<1>14. Taken(g2, p, M!Unlinked(g2, p), r, S2)
  BY <1>13, Detached
<1>15. Taken(f, p, M!Unlinked(g2, p), r, S2)
  <2>1. DOMAIN g2 = DOMAIN f
    BY <1>9, <1>11, <1>12 DEF Grown
  <2>2. \A n \in DOMAIN f : g2[n].size = f[n].size /\ g2[n].state = f[n].state
    BY <1>9, <1>11, <1>12 DEF Grown
  <2> QED BY <1>14, <2>1, <2>2 DEF Taken
<1>16. M!ReleaseFree([info |-> f, root |-> r], p, m) = [info |-> M!Unlinked(g2, p), root |-> r]
  <2> DEFINE cut == [[info |-> f, root |-> r] EXCEPT !.info[m] =
                IF @.prev = p THEN [@ EXCEPT !.prev = 0]
                ELSE IF @.next = p THEN [@ EXCEPT !.next = 0] ELSE @]
             h == IF f[m].prev = p THEN [f[m] EXCEPT !.prev = 0]
                  ELSE IF f[m].next = p THEN [f[m] EXCEPT !.next = 0] ELSE f[m]
  <2>1. M!ReleaseFree([info |-> f, root |-> r], p, m)
          = [M!AddIfAny(M!AddIfAny(cut, lc), rc) EXCEPT !.info = M!Unlinked(@, p)]
    BY <1>1, <1>2 DEF M!ReleaseFree, M!Null
  <2>2. cut = [info |-> [f EXCEPT ![m] = h], root |-> r]
    OBVIOUS
  <2>3. [f EXCEPT ![m] = h] = c
    <3>1. CASE s = "prev"
      <4>1. h = [f[m] EXCEPT !.prev = 0]
        BY <3>1
      <4>2. c = [f EXCEPT ![m].prev = 0]
        BY <1>6, <3>1
      <4> HIDE DEF h
      <4> QED BY <4>1, <4>2
    <3>2. CASE s = "next"
      <4>1. f[m].prev # p
        <5>1. f[m]["prev"] = p => "prev" = s
          BY <1>2, <1>3, <1>5
        <5> QED BY <3>2, <5>1
      <4>2. h = [f[m] EXCEPT !.next = 0]
        BY <3>2, <4>1
      <4>3. c = [f EXCEPT ![m].next = 0]
        BY <1>6, <3>2
      <4> HIDE DEF h
      <4> QED BY <4>2, <4>3
    <3> QED BY <3>1, <3>2 DEF Sides
  <2>4. [[info |-> g2, root |-> r] EXCEPT !.info = M!Unlinked(@, p)] = [info |-> M!Unlinked(g2, p), root |-> r]
    OBVIOUS
  <2>5. cut = [info |-> c, root |-> r]
    <3> HIDE DEF cut, h
    <3> QED BY <2>2, <2>3
  <2> HIDE DEF cut, h
  <2> QED BY <1>11, <1>12, <2>1, <2>4, <2>5
<1> QED BY <1>15, <1>16

\* releaseFree() of a block that findAvail() has found.
LEMMA Released ==
  ASSUME NEW f, Heads(f), NEW r, NEW T, Sorted(f, {}, r, T), NEW p, NEW m, Placed(f, r, T, p, m)
  PROVE  \E g, q, S : /\ M!ReleaseFree([info |-> f, root |-> r], p, m) = [info |-> g, root |-> q]
                      /\ Taken(f, p, g, q, S)
<1>1. T \subseteq DOMAIN f /\ 0 \notin T /\ (r = 0 => T = {})
  BY DEF Sorted, Ways, Heads
<1>2. p \in T /\ p # 0 /\ r # 0
  BY <1>1 DEF Placed
<1>3. CASE m = 0 /\ p = r
  BY <1>2, <1>3, ReleasedRoot
<1>4. CASE m \in T /\ \E s \in Sides : f[m][s] = p
  BY <1>2, <1>4, ReleasedChild
<1> QED BY <1>3, <1>4 DEF Placed

-----------------------------------------------------------------------------
(* What is reachable from the root, and the freed blocks as a whole.         *)

\* A block and those that its pointers lead to.
LEMMA BelowIs ==
  ASSUME NEW f, Heads(f), NEW R \in Nat, NEW rank, Down(f, R, rank)
  PROVE  \A n \in DOMAIN f :
           M!Below(f)[n] = {n} \cup (IF f[n].prev = 0 THEN {} ELSE M!Below(f)[f[n].prev])
                               \cup (IF f[n].next = 0 THEN {} ELSE M!Below(f)[f[n].next])
<1> DEFINE D == DOMAIN f
           V == SUBSET D
           F(b) == [n \in D |-> {n} \cup (IF f[n].prev = 0 THEN {} ELSE b[f[n].prev])
                                    \cup (IF f[n].next = 0 THEN {} ELSE b[f[n].next])]
           G == [b \in [D -> V] |-> F(b)]
<1>1. \A n \in D : /\ f[n].prev # 0 => f[n].prev \in D /\ rank[f[n].prev] < rank[n]
                   /\ f[n].next # 0 => f[n].next \in D /\ rank[f[n].next] < rank[n]
  BY DEF Down, Sides
<1>2. \A b \in [D -> V] : F(b) \in [D -> V]
  BY <1>1
<1>3. G \in [[D -> V] -> [D -> V]]
  BY <1>2
<1>4. \A b, c \in [D -> V] : \A n \in D :
        (\A m \in D : rank[m] < rank[n] => b[m] = c[m]) => G[b][n] = G[c][n]
  BY <1>1
<1>5. rank \in [D -> 0..R] /\ [n \in D |-> {}] \in [D -> V]
  BY DEF Down
<1>6. \E b \in [D -> V] : b = G[b]
  <2>1. Lowers(D, V, R, rank, G)
    <3> HIDE DEF G, D, V
    <3> QED BY <1>3, <1>4, <1>5 DEF Lowers
  <2> HIDE DEF F, G, D, V
  <2> QED BY <2>1, Recursion
<1>7. \E b : b = F(b)
  BY <1>6
<1>8. PICK c : c = CHOOSE b : b = F(b)
  OBVIOUS
<1>9. c = F(c)
  <2> HIDE DEF F
  <2> QED BY <1>7, <1>8
<1>10. M!Below(f) = c
  BY <1>8, SMT DEF M!Below, M!Null
<1> QED BY <1>9, <1>10

\* Pointers of blocks of the tree lead to blocks of the tree.
LEMMA BelowStays ==
  ASSUME NEW f, Heads(f), NEW R \in Nat, NEW rank, Down(f, R, rank),
         NEW r, NEW T, NEW up, Ways(f, r, T, up), NEW x \in T
  PROVE  M!Below(f)[x] \subseteq T
<1> DEFINE B == M!Below(f)
           Bad == {n \in T : ~(B[n] \subseteq T)}
           K == {rank[n] : n \in Bad}
<1>1. T \subseteq DOMAIN f /\ \A n \in T : rank[n] \in Nat
  BY DEF Ways, Down
<1>2. SUFFICES ASSUME x \in Bad PROVE FALSE
  OBVIOUS
<1>3. PICK n \in Bad : \A z \in Bad : rank[n] <= rank[z]
  <2>1. K \subseteq Nat /\ K # {}
    BY <1>1, <1>2
  <2>2. PICK k \in K : \A j \in K : k <= j
    <3> HIDE DEF K
    <3> QED BY <2>1, LeastNat
  <2> QED BY <2>2
<1>4. B[n] = {n} \cup (IF f[n].prev = 0 THEN {} ELSE B[f[n].prev])
                 \cup (IF f[n].next = 0 THEN {} ELSE B[f[n].next])
  BY <1>1, <1>3, BelowIs
<1> HIDE DEF B
<1>5. ASSUME NEW s \in Sides, f[n][s] # 0 PROVE B[f[n][s]] \subseteq T
  <2>1. n \in DOMAIN f /\ f[n][s] \in T /\ rank[f[n][s]] < rank[n]
    BY <1>1, <1>3, <1>5 DEF Ways, Down
  <2>2. f[n][s] \notin Bad
    BY <1>1, <1>3, <2>1
  <2> QED BY <2>1, <2>2
<1> QED BY <1>3, <1>4, <1>5 DEF Sides

\* The headers f hold a sorted tree under the root r.
TreeInv(f, r) == Heads(f) /\ \E T : Sorted(f, {}, r, T)

\* A header without pointers.
Blank(h) == h \in M!Header /\ \A s \in Sides : h[s] = 0

Address(a) == a \in Nat \ {0}

Placing(f, r, T, p, h, g) ==
  /\ Heads(f) /\ Sorted(f, {}, r, T)
  /\ Address(p) /\ p \notin T /\ Unpointed(f, {}, p)
  /\ Blank(h) /\ g = M!Put(f, p, h)

\* The headers g are f with the header h at p.
Holding(f, p, h, g) ==
  /\ DOMAIN g = DOMAIN f \cup {p} /\ g[p] = h
  /\ \A n \in DOMAIN f \ {p} : g[n] = f[n]

\* A header with null pointers, new or in the place of one that is in no tree.
LEMMA PutIs ==
  ASSUME NEW f, NEW r, NEW T, NEW p, NEW h, NEW g, Placing(f, r, T, p, h, g)
  PROVE  Holding(f, p, h, g) /\ Heads(g) /\ Sorted(g, {}, r, T) /\ Unpointed(g, {}, p)
<1> USE DEF Placing, Blank, Address
<1>2. DOMAIN g = DOMAIN f \cup {p} /\ g[p] = h /\ \A n \in DOMAIN f \ {p} : g[n] = f[n]
  BY DEF M!Put
<1>3. Heads(g)
  BY <1>2 DEF Heads
<1>4. \A n \in DOMAIN g, s \in Sides : g[n][s] # 0 => n \in DOMAIN f \ {p} /\ g[n][s] = f[n][s] /\ f[n][s] # p
  BY <1>2 DEF Unpointed
<1>5. Unpointed(g, {}, p)
  BY <1>4 DEF Unpointed
<1>6. PICK up : Ways(f, r, T, up)
  BY DEF Sorted
<1>7. r # p /\ T \subseteq DOMAIN f \ {p}
  BY <1>6 DEF Ways
<1>8. Knit(g, {}, r)
  <2>1. Knit(f, {}, r)
    BY DEF Sorted
  <2>2. r # 0 => r \in DOMAIN g /\ g[r].state = "Freed"
    BY <1>2, <1>7, <2>1 DEF Knit
  <2>3. ASSUME NEW n \in DOMAIN g, NEW s \in Sides, g[n][s] # 0
        PROVE  /\ g[n][s] \in DOMAIN g /\ g[n][s] # r
               /\ g[n].state = "Freed" /\ g[g[n][s]].state = "Freed"
               /\ \A m \in DOMAIN g, u \in Sides : g[m][u] = g[n][s] => m = n /\ u = s
    <3>1. n \in DOMAIN f \ {p} /\ g[n][s] = f[n][s] /\ f[n][s] # p /\ f[n][s] # 0
      BY <1>4, <2>3
    <3>2. /\ f[n][s] \in DOMAIN f /\ f[n][s] # r
          /\ f[n].state = "Freed" /\ f[f[n][s]].state = "Freed"
          /\ \A m \in DOMAIN f, u \in Sides : f[m][u] = f[n][s] => m = n /\ u = s
      BY <2>1, <3>1 DEF Knit
    <3>3. \A m \in DOMAIN g, u \in Sides : g[m][u] = g[n][s] => m = n /\ u = s
      BY <1>4, <2>3, <3>1, <3>2
    <3> QED BY <1>2, <3>1, <3>2, <3>3
  <2> QED BY <2>2, <2>3 DEF Knit
<1>9. Ways(g, r, T, up)
  <2>1. \A n \in T : g[n] = f[n]
    BY <1>2, <1>7
  <2>2. \A size : \A n \in T : M!Child(g, n, size) = M!Child(f, n, size)
    BY <2>1 DEF M!Child, M!Side
  <2>3. up \in [T -> SUBSET T]
    BY <1>6 DEF Ways
  <2> QED BY <1>2, <1>6, <1>7, <2>1, <2>2, <2>3 DEF Ways
<1>10. \E R \in Nat : \E rank : Down(g, R, rank)
  <2>1. PICK R, rank : R \in Nat /\ Down(f, R, rank)
    BY DEF Sorted
  <2> DEFINE more == [n \in DOMAIN g |-> IF n = p THEN 0 ELSE rank[n]]
  <2>2. more \in [DOMAIN g -> 0..R]
    BY <1>2, <2>1 DEF Down
  <2>3. \A n \in DOMAIN g, s \in Sides :
          g[n][s] # 0 => g[n][s] \in DOMAIN g /\ more[g[n][s]] < more[n]
    BY <1>2, <1>4, <2>1 DEF Down
  <2> HIDE DEF more
  <2>4. Down(g, R, more)
    BY <2>2, <2>3 DEF Down
  <2> QED BY <2>1, <2>4
<1>11. Sorted(g, {}, r, T)
  BY <1>8, <1>9, <1>10 DEF Sorted
<1> QED BY <1>2, <1>3, <1>5, <1>11 DEF Holding

\* A block whose state becomes freed is in no tree yet.
LEMMA MarkedFreed ==
  ASSUME NEW f, Heads(f), NEW r, NEW T, Sorted(f, {}, r, T), NEW a \in DOMAIN f, f[a].state = "Used"
  PROVE  LET g == [f EXCEPT ![a].state = "Freed"] IN
         /\ DOMAIN g = DOMAIN f /\ Heads(g) /\ g[a].state = "Freed" /\ g[a].size = f[a].size
         /\ \A n \in DOMAIN f \ {a} : g[n] = f[n]
         /\ Sorted(g, {}, r, T) /\ a \notin T /\ Unpointed(g, {}, a)
<1>1. PICK g : g = [f EXCEPT ![a].state = "Freed"]
  OBVIOUS
<1>2. PICK p \in Nat, x \in Nat, z \in Nat :
        f[a] = [prev |-> p, next |-> x, size |-> z, state |-> "Used"]
  <2>1. f[a] \in [prev: Nat, next: Nat, size: Nat, state: {"Used", "Freed"}]
    BY DEF Heads, M!Header
  <2>2. PICK p \in Nat, x \in Nat, z \in Nat, t \in {"Used", "Freed"} :
          f[a] = [prev |-> p, next |-> x, size |-> z, state |-> t]
    BY <2>1
  <2> QED BY <2>2
<1>3. g[a] = [prev |-> p, next |-> x, size |-> z, state |-> "Freed"]
  <2>1. PICK v : v = f[a]
    OBVIOUS
  <2>2. g[a] = [v EXCEPT !.state = "Freed"]
    BY <1>1, <2>1
  <2>3. v = [prev |-> p, next |-> x, size |-> z, state |-> "Used"]
    BY <1>2, <2>1
  <2> QED BY <2>2, <2>3
<1>4. DOMAIN g = DOMAIN f /\ \A n \in DOMAIN f \ {a} : g[n] = f[n]
  BY <1>1
<1>5. Heads(g)
  BY <1>3, <1>4 DEF Heads, M!Header
<1>6. \A s \in Sides : g[a][s] = f[a][s]
  BY <1>2, <1>3 DEF Sides
<1>7. \A n \in DOMAIN f, s \in Sides : g[n][s] = f[n][s] /\ g[n].size = f[n].size
  BY <1>2, <1>3, <1>4, <1>6
<1>8. \A n \in DOMAIN f : f[n].state = "Freed" => g[n].state = "Freed"
  BY <1>3, <1>4
<1>9. Knit(f, {}, r) /\ a # 0
  BY DEF Sorted, Heads
<1>10. Unpointed(f, {}, a)
  BY <1>9 DEF Knit, Unpointed
<1>11. Unpointed(g, {}, a)
  BY <1>4, <1>7, <1>10 DEF Unpointed
<1>12. PICK up : Ways(f, r, T, up)
  BY DEF Sorted
<1>13. a \notin T
  BY <1>12 DEF Ways
<1>14. Knit(g, {}, r)
  <2>1. r # 0 => r \in DOMAIN g /\ g[r].state = "Freed"
    BY <1>4, <1>8, <1>9 DEF Knit
  <2>2. ASSUME NEW n \in DOMAIN g, NEW s \in Sides, g[n][s] # 0
        PROVE  /\ g[n][s] \in DOMAIN g /\ g[n][s] # r
               /\ g[n].state = "Freed" /\ g[g[n][s]].state = "Freed"
               /\ \A m \in DOMAIN g, u \in Sides : g[m][u] = g[n][s] => m = n /\ u = s
    <3>1. n \in DOMAIN f /\ g[n][s] = f[n][s] /\ f[n][s] # 0
      BY <1>4, <1>7, <2>2
    <3>2. /\ f[n][s] \in DOMAIN f /\ f[n][s] # r
          /\ f[n].state = "Freed" /\ f[f[n][s]].state = "Freed"
          /\ \A m \in DOMAIN f, u \in Sides : f[m][u] = f[n][s] => m = n /\ u = s
      BY <1>9, <3>1 DEF Knit
    <3> QED BY <1>4, <1>7, <1>8, <3>1, <3>2
  <2> QED BY <2>1, <2>2 DEF Knit
<1>15. Ways(g, r, T, up)
  <2>1. \A n \in T : g[n] = f[n]
    BY <1>4, <1>12, <1>13 DEF Ways
  <2>2. \A size : \A n \in T : M!Child(g, n, size) = M!Child(f, n, size)
    BY <2>1 DEF M!Child, M!Side
  <2>3. up \in [T -> SUBSET T]
    BY <1>12 DEF Ways
  <2> QED BY <1>4, <1>12, <2>1, <2>2, <2>3 DEF Ways
<1>16. \E R \in Nat : \E rank : Down(g, R, rank)
  <2>1. PICK R, rank : R \in Nat /\ Down(f, R, rank)
    BY DEF Sorted
  <2>2. Down(g, R, rank)
    BY <1>4, <1>7, <2>1 DEF Down
  <2> QED BY <2>1, <2>2
<1>17. Sorted(g, {}, r, T)
  BY <1>14, <1>15, <1>16 DEF Sorted
<1> QED BY <1>1, <1>2, <1>3, <1>4, <1>5, <1>11, <1>13, <1>17

-----------------------------------------------------------------------------
(* The blocks and the space they lie in.                                     *)

Used(f) == {a \in DOMAIN f : f[a].state = "Used"}

\* The headers g have those of f, their sizes and states.
Keeps(f, g) == \A n \in DOMAIN f : n \in DOMAIN g /\ g[n].size = f[n].size /\ g[n].state = f[n].state

\* Where the heap ends that has k pages.
End(k) == (k + 1) * MmPage

Ends(f, e) == \A a \in DOMAIN f : a + f[a].size + Hdr <= e

\* No two blocks overlap, and none reaches into the space from lo to hi.
Apart(f, lo, hi) ==
  \A a \in DOMAIN f :
    /\ \A b \in DOMAIN f : a < b => a + f[a].size + Hdr <= b
    /\ a + f[a].size + Hdr <= lo \/ a >= hi

\* A realloc() has a block in use to free, no two of them the same.
Sources ==
  /\ \A c \in Callers : source[c] # 0 => source[c] \in Used(info)
  /\ \A c, d \in Callers : source[c] = source[d] /\ source[c] # 0 => c = d

\* The headers, the tree and the bounds of the space.
HeapInv ==
  /\ DOMAIN info \subseteq 1..Top /\ TreeInv(info, root)
  /\ {root, lastPage, freeTop, freeMax, pages} \subseteq Nat /\ freeTop <= freeMax
  /\ pages <= MaxPages /\ freeMax <= End(pages) /\ Ends(info, End(pages))

CutInv == Apart(info, freeTop, freeMax)

BlocksInv ==
  /\ HeapInv /\ (~torn => CutInv)
  /\ source \in [Callers -> Nat] /\ torn \in BOOLEAN /\ Sources

\* No request is so large that an address in the heap and its length wrap around.
RequestsFit == \A n \in Sizes : (MaxPages + 1) * MmPage + n + Hdr < Top

LEMMA Endings ==
  /\ \A k \in Nat : End(k) \in Nat /\ End(k) > 0
  /\ \A j, k \in Nat : End(j) + (k * MmPage) = End(j + k) /\ End(j) <= End(j + k)
<1> USE MemoryAssumption DEF M!MmAssumption, End
<1>1. ASSUME NEW k \in Nat PROVE End(k) \in Nat /\ End(k) > 0
  <2>1. (k + 1) * MmPage = (k * MmPage) + MmPage /\ k * MmPage \in Nat
    OBVIOUS
  <2> QED BY <2>1
<1>2. ASSUME NEW j \in Nat, NEW k \in Nat
      PROVE  End(j) + (k * MmPage) = End(j + k) /\ End(j) <= End(j + k)
  <2>1. k * MmPage \in Nat
    OBVIOUS
  <2>2. (j + k + 1) * MmPage = ((j + 1) * MmPage) + (k * MmPage)
    OBVIOUS
  <2>3. (j + 1) * MmPage \in Nat
    OBVIOUS
  <2> QED BY <2>1, <2>2, <2>3
<1> QED BY <1>1, <1>2

\* The pages of a request hold it.
LEMMA PagesHold ==
  ASSUME NEW n \in Nat
  PROVE  M!PagesFor(n) \in Nat /\ n <= M!PagesFor(n) * MmPage
<1>1. MmPage \in Nat \ {0}
  BY MemoryAssumption DEF M!MmAssumption
<1>2. PICK q, m : q = n \div MmPage /\ m = n % MmPage
  OBVIOUS
<1>3. q \in Nat /\ m \in 0..(MmPage - 1) /\ n = (MmPage * q) + m
  BY <1>1, <1>2
<1>4. MmPage * q = q * MmPage /\ (q + 1) * MmPage = (q * MmPage) + MmPage
  BY <1>1, <1>3
<1>5. CASE m = 0
  <2>1. M!PagesFor(n) = q
    BY <1>2, <1>3, <1>5 DEF M!PagesFor
  <2>2. n <= q * MmPage
    BY <1>1, <1>3, <1>4, <1>5
  <2> QED BY <1>3, <2>1, <2>2
<1>6. CASE m # 0
  <2>1. M!PagesFor(n) = q + 1
    BY <1>2, <1>6 DEF M!PagesFor
  <2>2. n <= (q + 1) * MmPage
    BY <1>1, <1>3, <1>4
  <2> QED BY <1>3, <2>1, <2>2
<1> QED BY <1>5, <1>6

\* What the invariant says of the numbers.
LEMMA Untyped ==
  ASSUME HeapInv
  PROVE  /\ {root, lastPage, freeTop, freeMax, pages} \subseteq Nat /\ freeTop <= freeMax
         /\ DOMAIN info \subseteq 1..Top /\ Heads(info)
         /\ \A a \in DOMAIN info : info[a].size \in Nat /\ a \in Nat \ {0}
         /\ Hdr \in Nat \ {0} /\ Word \in Nat /\ Top \in Nat /\ MaxPages \in Nat /\ Sizes \subseteq Nat
         /\ End(pages) <= End(MaxPages) /\ End(MaxPages) <= Top /\ End(pages) \in Nat /\ End(MaxPages) \in Nat
<1>1. /\ {root, lastPage, freeTop, freeMax, pages} \subseteq Nat /\ freeTop <= freeMax
      /\ DOMAIN info \subseteq 1..Top /\ Heads(info) /\ pages <= MaxPages
  BY DEF HeapInv, TreeInv
<1>2. \A a \in DOMAIN info : info[a].size \in Nat /\ a \in Nat \ {0}
  BY <1>1, PointerIs DEF Heads, Sides
<1>3. Hdr \in Nat \ {0} /\ Word \in Nat /\ Top \in Nat /\ MaxPages \in Nat /\ Sizes \subseteq Nat /\ MmPage \in Nat
  BY MemoryAssumption DEF M!MmAssumption
<1>4. End(MaxPages) <= Top
  <2>1. MmPage * (MaxPages + 1) <= Top
    BY MemoryAssumption DEF M!MmAssumption
  <2>2. MmPage * (MaxPages + 1) = (MaxPages + 1) * MmPage
    BY <1>3
  <2> QED BY <2>1, <2>2 DEF End
<1>5. End(pages) <= End(MaxPages)
  <2>1. MaxPages - pages \in Nat /\ pages + (MaxPages - pages) = MaxPages
    BY <1>1, <1>3
  <2>2. End(pages) <= End(pages + (MaxPages - pages))
    BY <1>1, <2>1, Endings
  <2> QED BY <2>1, <2>2
<1>6. End(pages) \in Nat /\ End(MaxPages) \in Nat
  BY <1>1, <1>3, Endings
<1> QED BY <1>1, <1>2, <1>3, <1>4, <1>5, <1>6

\* The headers g are f with a block p in use of that size, which was not in use before.
Gives(f, g, p, size) ==
  /\ p \notin Used(f) /\ Used(g) = Used(f) \cup {p}
  /\ g[p].size = size /\ \A n \in Used(f) : g[n].size = f[n].size

\* A new block in use.
LEMMA NewBlock ==
  ASSUME NEW f, NEW r, TreeInv(f, r), NEW p, Address(p), p \notin DOMAIN f, NEW size \in Nat,
         NEW g, g = M!Put(f, p, M!UsedBlock(size))
  PROVE  TreeInv(g, r) /\ Holding(f, p, M!UsedBlock(size), g)
<1>1. PICK T : Sorted(f, {}, r, T)
  BY DEF TreeInv
<1>2. Heads(f)
  BY DEF TreeInv
<1>3. p \notin T /\ Unpointed(f, {}, p)
  <2>1. T \subseteq DOMAIN f
    BY <1>1 DEF Sorted, Ways
  <2>2. \A n \in DOMAIN f, s \in Sides : f[n][s] # 0 => f[n][s] \in DOMAIN f
    BY <1>1 DEF Sorted, Knit
  <2> QED BY <2>1, <2>2 DEF Unpointed, Address
<1>4. PICK h : h = M!UsedBlock(size)
  OBVIOUS
<1>5. h = [prev |-> 0, next |-> 0, size |-> size, state |-> "Used"]
  BY <1>4 DEF M!UsedBlock, M!Null
<1>6. Blank(h) /\ h.size = size /\ h.state = "Used"
  BY <1>5 DEF M!Header, Sides, Blank
<1>7. g = M!Put(f, p, h)
  BY <1>4
<1>8. /\ DOMAIN g = DOMAIN f \cup {p} /\ g[p] = h
      /\ \A n \in DOMAIN f \ {p} : g[n] = f[n]
      /\ Heads(g) /\ Sorted(g, {}, r, T)
  <2>1. Placing(f, r, T, p, h, g)
    BY <1>1, <1>2, <1>3, <1>6, <1>7 DEF Placing
  <2>2. Holding(f, p, h, g) /\ Heads(g) /\ Sorted(g, {}, r, T)
    BY <2>1, PutIs
  <2> QED BY <2>2 DEF Holding
<1> QED BY <1>4, <1>8 DEF TreeInv, Holding

\* allocMem() with a block of the tree.
LEMMA ReuseStep ==
  ASSUME HeapInv, CutInv, NEW size \in Nat, M!Reuse(size)
  PROVE  HeapInv' /\ CutInv' /\ \E p \in DOMAIN info' : Gives(info, info', p, size)
<1>1. PICK e : e = M!Find(M!Tree, size)
  OBVIOUS
<1>2. PICK T : Sorted(info, {}, root, T)
  BY DEF HeapInv, TreeInv
<1>3. Heads(info) /\ M!Tree = [info |-> info, root |-> root]
  BY DEF HeapInv, TreeInv, M!Tree
<1>4. e[1] # 0
  BY <1>1 DEF M!Reuse, M!Null
<1>5. Result(info, root, T, size, e)
  BY <1>1, <1>2, <1>3, FindIs
<1>6. PICK p, m : e = <<p, m>> /\ Placed(info, root, T, p, m) /\ info[p].size = size
  BY <1>4, <1>5 DEF Result
<1>7. p \in T /\ p \in DOMAIN info /\ info[p].state = "Freed" /\ Address(p)
  BY <1>2, <1>3, <1>6 DEF Placed, Sorted, Ways, Heads, Address
<1>8. PICK g, q, S : /\ M!ReleaseFree(M!Tree, p, m) = [info |-> g, root |-> q]
                     /\ Taken(info, p, g, q, S)
  BY <1>2, <1>3, <1>6, Released
<1>9. PICK h : h = M!UsedBlock(size)
  OBVIOUS
<1>10. Blank(h) /\ h.size = size /\ h.state = "Used"
  <2>1. h = [prev |-> 0, next |-> 0, size |-> size, state |-> "Used"]
    BY <1>9 DEF M!UsedBlock, M!Null
  <2> QED BY <2>1 DEF M!Header, Sides, Blank
<1>11. /\ info' = M!Put(g, p, h) /\ root' = q
       /\ UNCHANGED <<lastPage, freeTop, freeMax, pages>>
  BY <1>1, <1>6, <1>8, <1>9 DEF M!Reuse
<1>12. /\ DOMAIN g = DOMAIN info /\ Heads(g)
       /\ \A n \in DOMAIN info : g[n].size = info[n].size /\ g[n].state = info[n].state
       /\ Sorted(g, {}, q, S) /\ p \notin S /\ Unpointed(g, {}, p)
  BY <1>8 DEF Taken
<1>13. PICK k : k = M!Put(g, p, h)
  OBVIOUS
<1>14. /\ DOMAIN k = DOMAIN g \cup {p} /\ k[p] = h
       /\ \A n \in DOMAIN g \ {p} : k[n] = g[n]
       /\ Heads(k) /\ Sorted(k, {}, q, S)
  <2>1. Placing(g, q, S, p, h, k)
    BY <1>7, <1>10, <1>12, <1>13 DEF Placing
  <2>2. Holding(g, p, h, k) /\ Heads(k) /\ Sorted(k, {}, q, S)
    BY <2>1, PutIs
  <2> QED BY <2>2 DEF Holding
<1>15. info' = k /\ DOMAIN k = DOMAIN info /\ \A n \in DOMAIN info : k[n].size = info[n].size
  BY <1>6, <1>7, <1>10, <1>11, <1>12, <1>13, <1>14
<1>16. HeapInv'
  <2>1. TreeInv(info', root')
    BY <1>11, <1>14, <1>15 DEF TreeInv
  <2>2. root' \in Nat
    BY <1>11, <1>12 DEF Sorted, Knit, Heads
  <2>3. Ends(info', End(pages)')
    BY <1>11, <1>15 DEF HeapInv, Ends, End
  <2>4. DOMAIN info' \subseteq 1..Top
    BY <1>15 DEF HeapInv
  <2> QED BY <1>11, <2>1, <2>2, <2>3, <2>4 DEF HeapInv, End
<1>17. CutInv'
  BY <1>11, <1>15 DEF CutInv, Apart
<1>18. Gives(info, info', p, size)
  <2>1. p \notin Used(info)
    BY <1>7 DEF Used
  <2>2. Used(k) = Used(info) \cup {p}
    BY <1>7, <1>10, <1>12, <1>14, <1>15 DEF Used
  <2>3. k[p].size = size /\ \A n \in Used(info) : k[n].size = info[n].size
    BY <1>6, <1>7, <1>15 DEF Used
  <2> QED BY <1>15, <2>1, <2>2, <2>3 DEF Gives
<1> QED BY <1>7, <1>15, <1>16, <1>17, <1>18

\* allocMem() with the space behind the last block.
LEMMA BumpStep ==
  ASSUME HeapInv, CutInv, RequestsFit, NEW size \in Sizes, M!Bump(size)
  PROVE  HeapInv' /\ CutInv' /\ \E p \in DOMAIN info' : Gives(info, info', p, size)
<1>1. size \in Nat
  BY Untyped
<1>2. /\ freeTop # 0 /\ (freeTop + (size + Hdr)) % Top < freeMax
      /\ info' = M!Put(info, freeTop, M!UsedBlock(size))
      /\ freeTop' = (freeTop + (size + Hdr)) % Top
      /\ UNCHANGED <<root, lastPage, freeMax, pages>>
  <2>1. (freeTop + (size + Hdr)) % Top \in Nat
    BY <1>1, Untyped, MemoryAssumption DEF M!MmAssumption
  <2> QED BY <2>1, Untyped DEF M!Bump, M!Full, M!Null, M!Length
<1>3. (freeTop + (size + Hdr)) % Top = freeTop + (size + Hdr)
  <2>1. End(MaxPages) + size + Hdr < Top
    BY DEF RequestsFit, End
  <2>2. freeTop + (size + Hdr) < Top
    BY <1>1, <2>1, Untyped DEF HeapInv
  <2>3. freeTop + (size + Hdr) \in 0..(Top - 1) /\ Top \in Nat \ {0}
    BY <1>1, <2>2, Untyped
  <2> QED BY <2>3
<1>4. freeTop + size + Hdr < freeMax /\ freeTop' = freeTop + size + Hdr /\ freeTop \in Nat \ {0}
  BY <1>1, <1>2, <1>3, Untyped
<1>5. freeTop \notin DOMAIN info
  BY <1>1, <1>4, Untyped DEF CutInv, Apart
<1>6. PICK k : k = M!Put(info, freeTop, M!UsedBlock(size))
  OBVIOUS
<1>7. /\ TreeInv(k, root) /\ DOMAIN k = DOMAIN info \cup {freeTop}
      /\ k[freeTop].size = size /\ k[freeTop].state = "Used"
      /\ \A n \in DOMAIN info : k[n] = info[n]
  <2>1. TreeInv(info, root) /\ Address(freeTop)
    BY <1>4 DEF HeapInv, Address
  <2>2. TreeInv(k, root) /\ Holding(info, freeTop, M!UsedBlock(size), k)
    BY <1>1, <1>5, <1>6, <2>1, NewBlock
  <2>3. M!UsedBlock(size).size = size /\ M!UsedBlock(size).state = "Used"
    BY DEF M!UsedBlock
  <2> QED BY <1>5, <2>2, <2>3 DEF Holding
<1>8. info' = k
  BY <1>2, <1>6
<1>9. HeapInv'
  <2>1. Ends(k, End(pages))
    BY <1>1, <1>4, <1>7, Untyped DEF HeapInv, Ends
  <2>2. DOMAIN k \subseteq 1..Top
    BY <1>1, <1>4, <1>7, Untyped DEF HeapInv
  <2> QED BY <1>1, <1>2, <1>4, <1>7, <1>8, <2>1, <2>2, Untyped DEF HeapInv, End
<1>10. CutInv'
  <2>1. Apart(k, freeTop + size + Hdr, freeMax)
    <3> SUFFICES ASSUME NEW a \in DOMAIN k
                 PROVE  /\ \A b \in DOMAIN k : a < b => a + k[a].size + Hdr <= b
                        /\ a + k[a].size + Hdr <= freeTop + size + Hdr \/ a >= freeMax
      BY DEF Apart
    <3>1. CASE a = freeTop
      BY <1>1, <1>4, <1>5, <1>7, <3>1, Untyped DEF CutInv, Apart
    <3>2. CASE a \in DOMAIN info
      BY <1>1, <1>4, <1>5, <1>7, <3>2, Untyped DEF CutInv, Apart
    <3> QED BY <1>7, <3>1, <3>2
  <2> QED BY <1>2, <1>4, <1>8, <2>1 DEF CutInv
<1>11. Gives(info, info', freeTop, size)
  BY <1>5, <1>7, <1>8 DEF Gives, Used
<1> QED BY <1>7, <1>8, <1>9, <1>10, <1>11

\* What is left of the last page becomes a block of the tree.
LEMMA TailIs ==
  ASSUME HeapInv, CutInv
  PROVE  \E g, q : /\ M!TailFreed = [info |-> g, root |-> q] /\ TreeInv(g, q)
                   /\ DOMAIN g \subseteq 1..Top /\ Ends(g, End(pages)) /\ Apart(g, End(pages), End(pages))
                   /\ Used(g) = Used(info) /\ \A n \in Used(info) : g[n].size = info[n].size
<1> DEFINE room == freeMax - freeTop - Hdr
<1>1. CASE freeTop # 0 /\ freeMax # 0 /\ lastPage # 0 /\ freeTop + Hdr + Word < freeMax
  <2>1. room \in Nat /\ freeTop + room + Hdr = freeMax /\ freeTop \in 1..Top /\ freeTop < freeMax
        /\ Address(freeTop)
    BY <1>1, Untyped DEF HeapInv, Address
  <2>2. freeTop \notin DOMAIN info
    BY <2>1, Untyped DEF CutInv, Apart
  <2>3. PICK h : h = M!FreedBlock(room)
    OBVIOUS
  <2>4. h = [prev |-> 0, next |-> 0, size |-> room, state |-> "Freed"]
    BY <2>3 DEF M!FreedBlock, M!UsedBlock, M!Null
  <2> HIDE DEF room
  <2>5. Blank(h) /\ h.size = room /\ h.state = "Freed"
    BY <2>1, <2>4 DEF Blank, M!Header, Sides
  <2>6. PICK T : Sorted(info, {}, root, T)
    BY DEF HeapInv, TreeInv
  <2>7. PICK k : k = M!Put(info, freeTop, h)
    OBVIOUS
  <2>8. freeTop \notin T
    BY <2>2, <2>6 DEF Sorted, Ways
  <2>9. Holding(info, freeTop, h, k) /\ Heads(k) /\ Sorted(k, {}, root, T) /\ Unpointed(k, {}, freeTop)
    <3>1. Unpointed(info, {}, freeTop)
      <4>1. \A n \in DOMAIN info, s \in Sides : info[n][s] # 0 => info[n][s] \in DOMAIN info
        BY <2>6 DEF Sorted, Knit
      <4> QED BY <2>1, <2>2, <4>1 DEF Unpointed, Address
    <3>2. Heads(info)
      BY DEF HeapInv, TreeInv
    <3>3. Placing(info, root, T, freeTop, h, k)
      BY <2>1, <2>5, <2>6, <2>7, <2>8, <3>1, <3>2 DEF Placing
    <3> QED BY <3>3, PutIs
  <2>10. PICK g, q : /\ M!TreeAdd([info |-> k, root |-> root], freeTop) = [info |-> g, root |-> q]
                     /\ Added(k, root, {}, T, freeTop, g, q)
    <3>1. freeTop \in DOMAIN k \ ({} \cup T) /\ k[freeTop].state = "Freed" /\ {} \subseteq DOMAIN k
      BY <2>5, <2>8, <2>9 DEF Holding
    <3> QED BY <2>9, <3>1, TreeAdded
  <2>11. M!TailFreed = [info |-> g, root |-> q]
    <3>1. M!TailFreed = M!TreeAdd([M!Tree EXCEPT !.info = M!Put(@, freeTop, h)], freeTop)
      BY <1>1, <2>3 DEF M!TailFreed, M!Null, room
    <3>2. [M!Tree EXCEPT !.info = M!Put(@, freeTop, h)] = [info |-> k, root |-> root]
      BY <2>7 DEF M!Tree
    <3> QED BY <2>10, <3>1, <3>2
  <2>12. /\ DOMAIN g = DOMAIN info \cup {freeTop} /\ Heads(g) /\ Sorted(g, {}, q, T \cup {freeTop})
         /\ g[freeTop].size = room /\ g[freeTop].state = "Freed"
         /\ \A n \in DOMAIN info : g[n].size = info[n].size /\ g[n].state = info[n].state
    <3>1. DOMAIN k = DOMAIN info \cup {freeTop} /\ k[freeTop] = h /\ \A n \in DOMAIN info : k[n] = info[n]
      BY <2>2, <2>9 DEF Holding
    <3>2. DOMAIN g = DOMAIN k /\ Heads(g) /\ Sorted(g, {}, q, T \cup {freeTop})
      BY <2>10 DEF Added
    <3>3. \A n \in DOMAIN k : g[n].size = k[n].size /\ g[n].state = k[n].state
      BY <2>10 DEF Added
    <3> QED BY <2>5, <3>1, <3>2, <3>3
  <2>13. TreeInv(g, q) /\ DOMAIN g \subseteq 1..Top
    BY <2>1, <2>12, Untyped DEF TreeInv
  <2>14. Ends(g, End(pages))
    <3> SUFFICES ASSUME NEW a \in DOMAIN g PROVE a + g[a].size + Hdr <= End(pages)
      BY DEF Ends
    <3>1. CASE a = freeTop
      BY <2>1, <2>12, <3>1, Untyped DEF HeapInv
    <3>2. CASE a \in DOMAIN info
      BY <2>12, <3>2 DEF HeapInv, Ends
    <3> QED BY <2>12, <3>1, <3>2
  <2>15. Apart(g, End(pages), End(pages))
    <3> SUFFICES ASSUME NEW a \in DOMAIN g, NEW b \in DOMAIN g, a < b PROVE a + g[a].size + Hdr <= b
      BY <2>14 DEF Apart, Ends
    <3>1. CASE a = freeTop
      BY <2>1, <2>12, <3>1, Untyped DEF CutInv, Apart
    <3>2. CASE a # freeTop
      BY <2>1, <2>12, <3>2, Untyped DEF CutInv, Apart
    <3> QED BY <3>1, <3>2
  <2>16. Used(g) = Used(info) /\ \A n \in Used(info) : g[n].size = info[n].size
    BY <2>12 DEF Used
  <2> QED BY <2>11, <2>13, <2>14, <2>15, <2>16
<1>2. CASE ~(freeTop # 0 /\ freeMax # 0 /\ lastPage # 0 /\ freeTop + Hdr + Word < freeMax)
  <2>1. M!TailFreed = [info |-> info, root |-> root]
    BY <1>2 DEF M!TailFreed, M!Null, M!Tree
  <2>2. TreeInv(info, root) /\ DOMAIN info \subseteq 1..Top /\ Ends(info, End(pages))
    BY DEF HeapInv
  <2>3. Apart(info, End(pages), End(pages))
    BY <2>2 DEF CutInv, Apart, Ends
  <2> QED BY <2>1, <2>2, <2>3
<1> QED BY <1>1, <1>2

\* allocMem() with the first of new pages.
LEMMA NewPagesStep ==
  ASSUME HeapInv, CutInv, NEW size \in Sizes, M!NewPages(size)
  PROVE  HeapInv' /\ CutInv' /\ \E p \in DOMAIN info' : Gives(info, info', p, size)
<1>1. PICK g, q : /\ M!TailFreed = [info |-> g, root |-> q] /\ TreeInv(g, q)
                  /\ DOMAIN g \subseteq 1..Top /\ Ends(g, End(pages)) /\ Apart(g, End(pages), End(pages))
                  /\ Used(g) = Used(info) /\ \A n \in Used(info) : g[n].size = info[n].size
  BY TailIs
<1>2. size \in Nat /\ size + Hdr \in Nat
  BY Untyped
<1>3. PICK cnt : cnt = M!PagesFor(size + Hdr)
  OBVIOUS
<1>4. cnt \in Nat /\ size + Hdr <= cnt * MmPage
  BY <1>2, <1>3, PagesHold
<1>5. PICK p : p = End(pages)
  OBVIOUS
<1>6. /\ pages + cnt <= MaxPages /\ pages' = pages + cnt
      /\ info' = M!Put(g, p, M!UsedBlock(size)) /\ root' = q
      /\ lastPage' = p /\ freeTop' = p + (size + Hdr) /\ freeMax' = p + cnt * MmPage
  BY <1>1, <1>3, <1>5 DEF M!NewPages, M!Length, End
<1>7. p \in Nat /\ p > 0 /\ p + cnt * MmPage = End(pages + cnt) /\ End(pages + cnt) \in Nat
  <2>1. pages \in Nat /\ pages + cnt \in Nat
    BY <1>4, Untyped
  <2>2. End(pages) \in Nat /\ End(pages) > 0 /\ End(pages + cnt) \in Nat
    BY <2>1, Endings
  <2>3. End(pages) + (cnt * MmPage) = End(pages + cnt)
    BY <1>4, <2>1, Endings
  <2> QED BY <1>5, <2>2, <2>3
<1>8. \A a \in DOMAIN g : a \in Nat \ {0} /\ g[a].size \in Nat /\ a + g[a].size + Hdr <= p /\ a < p
  <2>1. \A a \in DOMAIN g : a \in Nat \ {0} /\ g[a].size \in Nat
    BY <1>1, PointerIs DEF TreeInv, Heads, Sides
  <2>2. \A a \in DOMAIN g : a + g[a].size + Hdr <= p
    BY <1>1, <1>5 DEF Ends
  <2> QED BY <2>1, <2>2, <1>7, Untyped
<1>9. PICK k : k = M!Put(g, p, M!UsedBlock(size))
  OBVIOUS
<1>10. /\ TreeInv(k, q) /\ DOMAIN k = DOMAIN g \cup {p}
       /\ k[p].size = size /\ k[p].state = "Used"
       /\ \A n \in DOMAIN g : k[n] = g[n]
  <2>1. Address(p) /\ p \notin DOMAIN g
    BY <1>7, <1>8 DEF Address
  <2>2. TreeInv(k, q) /\ Holding(g, p, M!UsedBlock(size), k)
    BY <1>1, <1>2, <1>9, <2>1, NewBlock
  <2>3. M!UsedBlock(size).size = size /\ M!UsedBlock(size).state = "Used"
    BY DEF M!UsedBlock
  <2> QED BY <2>1, <2>2, <2>3 DEF Holding
<1>11. info' = k /\ freeMax' = End(pages') /\ freeTop' <= freeMax'
       /\ freeTop' \in Nat /\ freeMax' \in Nat /\ pages' \in Nat /\ pages' <= MaxPages
  <2>1. info' = k /\ freeMax' = End(pages') /\ freeMax' \in Nat
    BY <1>6, <1>7, <1>9
  <2>2. pages' \in Nat /\ pages' <= MaxPages
    BY <1>4, <1>6, Untyped
  <2>3. PICK w : w = cnt * MmPage
    OBVIOUS
  <2>4. w \in Nat
    BY <1>4, <2>3, MemoryAssumption DEF M!MmAssumption
  <2>5. freeTop' \in Nat /\ freeTop' <= freeMax'
    BY <1>2, <1>4, <1>6, <1>7, <2>3, <2>4
  <2> QED BY <2>1, <2>2, <2>5
<1>12. Ends(k, End(pages'))
  <2> SUFFICES ASSUME NEW a \in DOMAIN k PROVE a + k[a].size + Hdr <= End(pages')
    BY DEF Ends
  <2>1. p + size + Hdr <= End(pages')
    BY <1>2, <1>6, <1>7, <1>11, Untyped
  <2>2. CASE a = p
    BY <1>10, <2>1, <2>2
  <2>3. CASE a \in DOMAIN g
    BY <1>2, <1>7, <1>8, <1>10, <1>11, <2>1, <2>3, Untyped
  <2> QED BY <1>10, <2>2, <2>3
<1>13. DOMAIN k \subseteq 1..Top
  <2>1. p \in 1..Top
    BY <1>5, <1>7, Untyped
  <2> QED BY <1>1, <1>10, <2>1
<1>14. HeapInv'
  <2>1. root' \in Nat
    <3>1. PICK T : Sorted(g, {}, q, T)
      BY <1>1 DEF TreeInv
    <3> QED BY <1>1, <1>6, <3>1 DEF TreeInv, Sorted, Knit, Heads
  <2>2. Ends(info', End(pages)')
    BY <1>11, <1>12 DEF End
  <2>3. freeMax' <= End(pages)'
    BY <1>11 DEF End
  <2> QED BY <1>6, <1>7, <1>10, <1>11, <1>13, <2>1, <2>2, <2>3 DEF HeapInv
<1>15. CutInv'
  <2>1. Apart(k, p + (size + Hdr), freeMax')
    <3> SUFFICES ASSUME NEW a \in DOMAIN k
                 PROVE  /\ \A b \in DOMAIN k : a < b => a + k[a].size + Hdr <= b
                        /\ a + k[a].size + Hdr <= p + (size + Hdr)
      BY DEF Apart
    <3>1. CASE a = p
      BY <1>2, <1>7, <1>8, <1>10, <3>1, Untyped
    <3>2. CASE a \in DOMAIN g
      <4>1. \A b \in DOMAIN g : a < b => a + g[a].size + Hdr <= b
        BY <1>1, <3>2 DEF Apart
      <4> QED BY <1>2, <1>7, <1>8, <1>10, <3>2, <4>1, Untyped
    <3> QED BY <1>10, <3>1, <3>2
  <2> QED BY <1>6, <1>11, <2>1 DEF CutInv
<1>16. Gives(info, info', p, size)
  <2>1. p \notin Used(info)
    BY <1>1, <1>8 DEF Used
  <2>2. Used(k) = Used(g) \cup {p} /\ \A n \in Used(g) : k[n].size = g[n].size
    BY <1>8, <1>10 DEF Used
  <2> QED BY <1>1, <1>10, <1>11, <2>1, <2>2 DEF Gives
<1> QED BY <1>10, <1>11, <1>14, <1>15, <1>16

\* malloc() without pages for its block.
LEMMA NoPagesStep ==
  ASSUME HeapInv, CutInv, NEW size, M!NoPages(size)
  PROVE  /\ HeapInv' /\ (~torn' => CutInv') /\ torn' \in BOOLEAN
         /\ Used(info') = Used(info) /\ \A n \in Used(info) : info'[n].size = info[n].size
<1>1. PICK g, q : /\ M!TailFreed = [info |-> g, root |-> q] /\ TreeInv(g, q)
                  /\ DOMAIN g \subseteq 1..Top /\ Ends(g, End(pages)) /\ Apart(g, End(pages), End(pages))
                  /\ Used(g) = Used(info) /\ \A n \in Used(info) : g[n].size = info[n].size
  BY TailIs
<1>2. /\ info' = g /\ root' = q /\ torn' = ([info |-> g, root |-> q] # [info |-> info, root |-> root])
      /\ UNCHANGED <<lastPage, freeTop, freeMax, pages>>
  BY <1>1 DEF M!NoPages, M!SetTree, M!Tree
<1>3. HeapInv'
  <2>1. q \in Nat
    <3>1. PICK T : Sorted(g, {}, q, T)
      BY <1>1 DEF TreeInv
    <3> QED BY <1>1, <3>1 DEF TreeInv, Sorted, Knit, Heads
  <2> QED BY <1>1, <1>2, <2>1 DEF HeapInv, End, Ends
<1>4. ~torn' => CutInv'
  <2> SUFFICES ASSUME ~torn' PROVE CutInv'
    OBVIOUS
  <2>1. [info |-> g, root |-> q].info = [info |-> info, root |-> root].info
    BY <1>2
  <2>2. g = info
    BY <2>1
  <2> QED BY <1>2, <2>2 DEF CutInv
<1> QED BY <1>1, <1>2, <1>3, <1>4

\* free() of a block in use.
LEMMA FreeStep ==
  ASSUME HeapInv, CutInv, NEW a \in Used(info), M!FreeNoLock(a),
         UNCHANGED <<lastPage, freeTop, freeMax, pages>>
  PROVE  /\ HeapInv' /\ CutInv' /\ Used(info') = Used(info) \ {a}
         /\ \A n \in Used(info) : info'[n].size = info[n].size
<1>1. PICK T : Sorted(info, {}, root, T)
  BY DEF HeapInv, TreeInv
<1>2. Heads(info) /\ a \in DOMAIN info /\ info[a].state = "Used"
  BY DEF HeapInv, TreeInv, Used
<1>3. PICK k : k = [info EXCEPT ![a].state = "Freed"]
  OBVIOUS
<1>4. /\ DOMAIN k = DOMAIN info /\ Heads(k) /\ k[a].state = "Freed" /\ k[a].size = info[a].size
      /\ \A n \in DOMAIN info \ {a} : k[n] = info[n]
      /\ Sorted(k, {}, root, T) /\ a \notin T /\ Unpointed(k, {}, a)
  BY <1>1, <1>2, <1>3, MarkedFreed
<1>5. PICK g, q : /\ M!TreeAdd([info |-> k, root |-> root], a) = [info |-> g, root |-> q]
                  /\ Added(k, root, {}, T, a, g, q)
  <2>1. a \in DOMAIN k \ ({} \cup T) /\ {} \subseteq DOMAIN k
    BY <1>2, <1>4
  <2> QED BY <1>4, <2>1, TreeAdded
<1>6. info' = g /\ root' = q
  <2>1. [M!Tree EXCEPT !.info[a].state = "Freed"] = [info |-> k, root |-> root]
    BY <1>3 DEF M!Tree
  <2> QED BY <1>5, <2>1 DEF M!FreeNoLock, M!SetTree
<1>7. /\ DOMAIN g = DOMAIN info /\ Heads(g) /\ Sorted(g, {}, q, T \cup {a})
      /\ \A n \in DOMAIN info : g[n].size = info[n].size
      /\ \A n \in DOMAIN info : g[n].state = IF n = a THEN "Freed" ELSE info[n].state
  <2>1. DOMAIN g = DOMAIN k /\ Heads(g) /\ Sorted(g, {}, q, T \cup {a})
    BY <1>5 DEF Added
  <2>2. \A n \in DOMAIN k : g[n].size = k[n].size /\ g[n].state = k[n].state
    BY <1>5 DEF Added
  <2> QED BY <1>4, <2>1, <2>2
<1>8. HeapInv'
  <2>1. TreeInv(g, q)
    BY <1>7 DEF TreeInv
  <2>2. q \in Nat
    BY <1>7 DEF Sorted, Knit, Heads
  <2> QED BY <1>6, <1>7, <2>1, <2>2 DEF HeapInv, Ends, End
<1>9. CutInv'
  BY <1>6, <1>7 DEF CutInv, Apart
<1>10. Used(g) = Used(info) \ {a} /\ \A n \in Used(info) : g[n].size = info[n].size
  BY <1>7 DEF Used
<1> QED BY <1>6, <1>8, <1>9, <1>10

\* allocMem() and its fast form.
LEMMA AllocStep ==
  ASSUME HeapInv, CutInv, RequestsFit, NEW size \in Sizes, M!AllocMem(size) \/ M!AllocFast(size)
  PROVE  HeapInv' /\ CutInv' /\ \E p \in DOMAIN info' : Gives(info, info', p, size)
<1>1. size \in Nat
  BY Untyped
<1>2. M!Reuse(size) \/ M!Bump(size) \/ M!NewPages(size)
  BY DEF M!AllocMem, M!AllocFast
<1> QED BY <1>1, <1>2, ReuseStep, BumpStep, NewPagesStep

\* What a step makes of the blocks in use: nothing, one more, or one less.
Stays == Used(info') = Used(info) /\ \A n \in Used(info) : info'[n].size = info[n].size
Grows == \E size \in Sizes : \E p \in DOMAIN info' : CutInv' /\ Gives(info, info', p, size)
Shrinks == \E a \in Used(info) : /\ Used(info') = Used(info) \ {a}
                                 /\ \A n \in Used(info) : info'[n].size = info[n].size

LEMMA BlocksStep ==
  ASSUME BlocksInv, RequestsFit, [MemoryNext]_<<part, vars, blocks>>
  PROVE  BlocksInv' /\ (Stays \/ Grows \/ Shrinks)
<1>1. HeapInv /\ (~torn => CutInv) /\ source \in [Callers -> Nat] /\ torn \in BOOLEAN /\ Sources
  BY DEF BlocksInv
<1>2. M!Live = Used(info) /\ \A a \in Used(info) : a # 0
  BY <1>1, Untyped DEF M!Live, Used
<1>3. CASE UNCHANGED blocks
  <2>1. UNCHANGED <<info, root, lastPage, freeTop, freeMax, pages, source, torn>>
    BY <1>3 DEF blocks
  <2>2. HeapInv' /\ (~torn => CutInv)' /\ Sources'
    BY <1>1, <2>1 DEF HeapInv, CutInv, Sources, Ends, End
  <2>3. Stays
    BY <2>1 DEF Stays
  <2> QED BY <1>1, <2>1, <2>2, <2>3 DEF BlocksInv
<1>4. ASSUME Stays, UNCHANGED source PROVE Sources' /\ source' \in [Callers -> Nat]
  BY <1>1, <1>4 DEF Stays, Sources
<1>5. ASSUME NEW size \in Sizes, ~torn, M!Malloc(size) PROVE BlocksInv' /\ Grows
  <2>1. HeapInv' /\ CutInv' /\ (\E p \in DOMAIN info' : Gives(info, info', p, size)) /\ UNCHANGED <<source, torn>>
    BY <1>1, <1>5, AllocStep DEF M!Malloc
  <2>2. Used(info) \subseteq Used(info')
    BY <2>1 DEF Gives
  <2>3. Sources'
    BY <1>1, <2>1, <2>2 DEF Sources
  <2> QED BY <1>1, <2>1, <2>3 DEF BlocksInv, Grows
<1>6. ASSUME NEW size \in Sizes, ~torn, M!MallocFails(size) PROVE BlocksInv' /\ Stays
  <2>1. M!NoPages(size) /\ UNCHANGED source
    BY <1>6 DEF M!MallocFails
  <2>2. /\ HeapInv' /\ (~torn' => CutInv') /\ torn' \in BOOLEAN
        /\ Used(info') = Used(info) /\ \A n \in Used(info) : info'[n].size = info[n].size
    BY <1>1, <1>6, <2>1, NoPagesStep
  <2>3. Stays
    BY <2>2 DEF Stays
  <2> QED BY <1>4, <2>1, <2>2, <2>3 DEF BlocksInv
<1>7. ASSUME ~torn, M!AllocPage(1) PROVE BlocksInv' /\ Stays
  <2>1. /\ pages + 1 <= MaxPages /\ pages' = pages + 1
        /\ UNCHANGED <<info, root, lastPage, freeTop, freeMax, source, torn>>
    BY <1>7 DEF M!AllocPage
  <2>2. Stays
    BY <2>1 DEF Stays
  <2>3. pages \in Nat /\ pages + 1 \in Nat /\ End(pages) <= End(pages + 1) /\ End(pages) \in Nat /\ End(pages + 1) \in Nat
    <3>1. pages \in Nat /\ pages + 1 \in Nat
      BY <1>1, Untyped
    <3> QED BY <3>1, Endings
  <2>4. Ends(info, End(pages + 1))
    <3> SUFFICES ASSUME NEW a \in DOMAIN info PROVE a + info[a].size + Hdr <= End(pages + 1)
      BY DEF Ends
    <3>1. a + info[a].size + Hdr <= End(pages)
      BY <1>1 DEF HeapInv, Ends
    <3> QED BY <1>1, <2>3, <3>1, Untyped
  <2>5. freeMax <= End(pages + 1)
    BY <1>1, <2>3, Untyped DEF HeapInv
  <2>6. HeapInv'
    BY <1>1, <2>1, <2>3, <2>4, <2>5 DEF HeapInv, Ends, End
  <2>7. CutInv'
    BY <1>1, <1>7, <2>1 DEF CutInv
  <2> QED BY <1>1, <1>4, <2>1, <2>2, <2>6, <2>7 DEF BlocksInv
<1>8. ASSUME NEW a \in Used(info), ~torn, M!FreeNoLock(a),
             UNCHANGED <<lastPage, freeTop, freeMax, pages>>
      PROVE  HeapInv' /\ CutInv' /\ Shrinks /\ Used(info') = Used(info) \ {a}
  BY <1>1, <1>8, FreeStep DEF Shrinks
<1>9. ASSUME NEW a \in DOMAIN info, ~torn, M!FreeBlock(a) PROVE BlocksInv' /\ (Stays \/ Shrinks)
  <2>1. CASE /\ a \in M!Live /\ M!FreeNoLock(a)
             /\ UNCHANGED <<lastPage, freeTop, freeMax, pages, source, torn>>
    <3>1. HeapInv' /\ CutInv' /\ Shrinks /\ Used(info') = Used(info) \ {a}
      BY <1>2, <1>8, <1>9, <2>1
    <3>2. \A c \in Callers : source[c] # a
      BY <1>9 DEF M!FreeBlock, M!Busy
    <3>3. Sources'
      BY <1>1, <2>1, <3>1, <3>2 DEF Sources
    <3> QED BY <1>1, <2>1, <3>1, <3>3 DEF BlocksInv
  <2>2. CASE UNCHANGED M!vars
    <3>1. UNCHANGED blocks
      BY <2>2 DEF M!vars, blocks
    <3>2. BlocksInv' /\ Stays
      <4>1. UNCHANGED <<info, root, lastPage, freeTop, freeMax, pages, source, torn>>
        BY <3>1 DEF blocks
      <4>2. HeapInv' /\ (~torn => CutInv)' /\ Sources'
        BY <1>1, <4>1 DEF HeapInv, CutInv, Sources, Ends, End
      <4>3. Stays
        BY <4>1 DEF Stays
      <4> QED BY <1>1, <4>1, <4>2, <4>3 DEF BlocksInv
    <3> QED BY <3>2
  <2> QED BY <1>9, <2>1, <2>2 DEF M!FreeBlock
<1>10. ASSUME NEW c \in Callers, NEW a \in DOMAIN info, NEW size \in Sizes, ~torn, M!ReallocAlloc(c, a, size)
       PROVE  BlocksInv' /\ Grows
  <2>1. /\ HeapInv' /\ CutInv' /\ (\E p \in DOMAIN info' : Gives(info, info', p, size))
        /\ source' = [source EXCEPT ![c] = IF a \in Used(info) THEN a ELSE 0] /\ torn' = torn
    BY <1>1, <1>2, <1>10, AllocStep DEF M!ReallocAlloc, M!Null
  <2>2. Used(info) \subseteq Used(info')
    BY <2>1 DEF Gives
  <2>3. \A d \in Callers : source[d] # a
    BY <1>10 DEF M!ReallocAlloc, M!Busy
  <2>4. PICK v : v = IF a \in Used(info) THEN a ELSE 0
    OBVIOUS
  <2>5. v \in Nat /\ (v # 0 => v \in Used(info) /\ \A d \in Callers : source[d] # v)
    BY <1>1, <2>3, <2>4, Untyped
  <2>6. /\ source' \in [Callers -> Nat] /\ source'[c] = v
        /\ \A d \in Callers : d # c => source'[d] = source[d]
    BY <1>1, <2>1, <2>4, <2>5
  <2>7. Sources'
    BY <1>1, <2>2, <2>5, <2>6 DEF Sources
  <2> QED BY <1>1, <2>1, <2>6, <2>7 DEF BlocksInv, Grows
<1>11. ASSUME NEW c \in Callers, ~torn, M!ReallocFree(c) PROVE BlocksInv' /\ Shrinks
  <2>1. /\ source[c] # 0 /\ M!FreeNoLock(source[c]) /\ source' = [source EXCEPT ![c] = 0]
        /\ UNCHANGED <<lastPage, freeTop, freeMax, pages, torn>>
    BY <1>11 DEF M!ReallocFree, M!Null
  <2>2. PICK a : a = source[c]
    OBVIOUS
  <2>3. a \in Used(info) /\ \A d \in Callers : d # c => source[d] # a
    BY <1>1, <2>1, <2>2 DEF Sources
  <2>4. HeapInv' /\ CutInv' /\ Shrinks /\ Used(info') = Used(info) \ {a}
    BY <1>8, <1>11, <2>1, <2>2, <2>3
  <2>5. /\ source' \in [Callers -> Nat] /\ source'[c] = 0
        /\ \A d \in Callers : d # c => source'[d] = source[d]
    BY <1>1, <2>1
  <2>6. Sources'
    BY <1>1, <2>3, <2>4, <2>5 DEF Sources
  <2> QED BY <1>1, <2>1, <2>4, <2>5, <2>6 DEF BlocksInv
<1>12. CASE UNCHANGED M!vars
  <2>1. UNCHANGED blocks
    BY <1>12 DEF M!vars, blocks
  <2> QED BY <1>3, <2>1
<1>13. CASE M!Next
  BY <1>5, <1>6, <1>7, <1>9, <1>10, <1>11, <1>12, <1>13 DEF M!Next, M!Torn
<1>14. MemoryNext \/ UNCHANGED <<part, vars, blocks>>
  OBVIOUS
<1> QED BY <1>3, <1>13, <1>14 DEF MemoryNext

\* There are no blocks at first.
LEMMA InitBlocks ==
  ASSUME MemoryInit
  PROVE  BlocksInv /\ Used(info) = {}
<1>1. /\ info = [a \in {} |-> 0] /\ root = 0 /\ lastPage = 0 /\ freeTop = 0 /\ freeMax = 0 /\ pages = 0
      /\ source = [c \in Callers |-> 0] /\ torn = FALSE
  BY DEF MemoryInit, M!Init, M!Null
<1>2. DOMAIN info = {}
  BY <1>1
<1>3. TreeInv(info, root)
  <2>1. Heads(info) /\ Knit(info, {}, root)
    BY <1>1, <1>2 DEF Heads, Knit
  <2>2. Ways(info, root, {}, [b \in {} |-> {}])
    BY <1>1, <1>2 DEF Ways
  <2>3. Down(info, 0, [b \in {} |-> 0])
    BY <1>2 DEF Down
  <2>4. Sorted(info, {}, root, {})
    BY <2>1, <2>2, <2>3 DEF Sorted
  <2> QED BY <2>1, <2>4 DEF TreeInv
<1>4. HeapInv
  <2>1. 0 <= MaxPages /\ End(0) \in Nat
    BY MemoryAssumption, Endings DEF M!MmAssumption
  <2> QED BY <1>1, <1>2, <1>3, <2>1 DEF HeapInv, Ends
<1>5. CutInv /\ Used(info) = {}
  BY <1>2 DEF CutInv, Apart, Used
<1> QED BY <1>1, <1>4, <1>5 DEF BlocksInv, Sources

\* Whatever the sizes asked for, as long as no address and length wrap around: two
\* blocks never overlap, the space not cut yet is nobody's, and a realloc() keeps its block.
THEOREM BlocksHaveOwners ==
  ASSUME RequestsFit
  PROVE  MemorySpec => []BlocksOwned
<1>1. MemoryInit => BlocksInv
  BY InitBlocks
<1>2. BlocksInv /\ [MemoryNext]_<<part, vars, blocks>> => BlocksInv'
  BY BlocksStep
<1>3. BlocksInv => BlocksOwned
  <2> SUFFICES ASSUME BlocksInv PROVE M!TypeOK /\ M!BlocksDisjoint /\ M!SourceKept
    BY DEF BlocksOwned, M!BlocksOwned
  <2>1. HeapInv /\ (~torn => CutInv) /\ source \in [Callers -> Nat] /\ torn \in BOOLEAN /\ Sources
    BY DEF BlocksInv
  <2>2. M!TypeOK
    BY <2>1, Untyped DEF M!TypeOK, Heads
  <2>3. M!BlocksDisjoint
    <3> SUFFICES ASSUME ~torn, NEW a \in DOMAIN info
                 PROVE  /\ \A b \in DOMAIN info : a < b => a + (info[a].size + Hdr) <= b
                        /\ a + (info[a].size + Hdr) <= freeTop \/ a >= freeMax
      BY <2>2 DEF M!BlocksDisjoint, M!Length
    <3>1. \A n \in DOMAIN info : n \in Nat /\ info[n].size \in Nat
      BY <2>1, Untyped
    <3>2. a + info[a].size + Hdr = a + (info[a].size + Hdr)
      BY <2>1, <3>1, Untyped
    <3> QED BY <2>1, <3>2 DEF CutInv, Apart
  <2>4. M!SourceKept
    BY <2>1 DEF M!SourceKept, Sources, M!Live, M!Null, Used
  <2> QED BY <2>2, <2>3, <2>4
<1> QED BY <1>1, <1>2, <1>3, PTL DEF MemorySpec

\* The freed blocks are a tree whose pointers lead to no block in use, and findAvail()
\* finds a block of the size asked for if the tree holds one, after every removal.
THEOREM TreeIsSearched ==
  ASSUME RequestsFit
  PROVE  MemorySpec => []SearchTree
<1>1. MemoryInit => BlocksInv
  BY InitBlocks
<1>2. BlocksInv /\ [MemoryNext]_<<part, vars, blocks>> => BlocksInv'
  BY BlocksStep
<1>3. BlocksInv => SearchTree
  <2> SUFFICES ASSUME BlocksInv PROVE M!TreeSound /\ M!SearchComplete
    BY DEF SearchTree, M!SearchTree
  <2>1. PICK T : Sorted(info, {}, root, T)
    BY DEF BlocksInv, HeapInv, TreeInv
  <2>2. Heads(info)
    BY DEF BlocksInv, HeapInv, TreeInv
  <2>3. M!TreeSound
    <3>1. Knit(info, {}, root)
      BY <2>1 DEF Sorted
    <3>2. ASSUME NEW a \in DOMAIN info, NEW s \in {"prev", "next"}, info[a][s] # 0
          PROVE  /\ info[a][s] \in DOMAIN info \ M!Live /\ info[a][s] # root /\ a \notin M!Live
                 /\ \A b \in DOMAIN info, u \in {"prev", "next"} :
                      info[b][u] = info[a][s] => b = a /\ u = s
      <4>1. /\ info[a][s] \in DOMAIN info /\ info[a][s] # root
            /\ info[a].state = "Freed" /\ info[info[a][s]].state = "Freed"
            /\ \A b \in DOMAIN info, u \in {"prev", "next"} : info[b][u] = info[a][s] => b = a /\ u = s
        BY <3>1, <3>2 DEF Knit, Sides
      <4> QED BY <4>1 DEF M!Live
    <3>3. root # 0 => root \in DOMAIN info \ M!Live
      BY <3>1 DEF Knit, M!Live
    <3> QED BY <3>2, <3>3 DEF M!TreeSound, M!Null
  <2>4. M!InTree \subseteq T
    <3>1. PICK up : Ways(info, root, T, up)
      BY <2>1 DEF Sorted
    <3>2. PICK R, rank : R \in Nat /\ Down(info, R, rank)
      BY <2>1 DEF Sorted
    <3>3. CASE root = 0
      BY <3>3 DEF M!InTree, M!Null
    <3>4. CASE root # 0
      <4>1. root \in T
        BY <3>1, <3>4 DEF Ways
      <4>2. M!Below(info)[root] \subseteq T
        BY <2>2, <3>1, <3>2, <4>1, BelowStays
      <4> QED BY <3>4, <4>2 DEF M!InTree, M!Null
    <3> QED BY <3>3, <3>4
  <2>5. ASSUME NEW a \in T PROVE M!Find(M!Tree, info[a].size)[1] # 0
    <3>1. M!Tree = [info |-> info, root |-> root]
      BY DEF M!Tree
    <3>2. M!Find([info |-> info, root |-> root], info[a].size)[1] # 0
      BY <2>1, <2>2, FindIs
    <3> QED BY <3>1, <3>2
  <2>6. M!SearchComplete
    BY <2>4, <2>5 DEF M!SearchComplete, M!Null
  <2> QED BY <2>3, <2>6
<1> QED BY <1>1, <1>2, <1>3, PTL DEF MemorySpec

\* The blocks in use as malloc()'s callers see them.
Seen(f) == {[addr |-> a, len |-> M!Length(f[a].size)] : a \in Used(f)}

\* The memory manager implements the abstract heap: a malloc() that gives a block adds
\* memory that nobody has, a free() takes one block away, everything else is a stutter.
THEOREM MemoryIsAHeap ==
  ASSUME RequestsFit
  PROVE  MemorySpec => HeapSpec
<1> DEFINE live == {[addr |-> a, len |-> M!Length(info[a].size)] : a \in M!Live}
<1>1. MemoryInit => BlocksInv /\ M!H!Init
  <2> SUFFICES ASSUME MemoryInit PROVE BlocksInv /\ M!H!Init
    OBVIOUS
  <2>1. BlocksInv /\ Used(info) = {}
    BY InitBlocks
  <2>2. M!Live = {}
    BY <2>1 DEF M!Live, Used
  <2> QED BY <2>1, <2>2 DEF M!H!Init
<1>2. BlocksInv /\ [MemoryNext]_<<part, vars, blocks>> => BlocksInv' /\ [M!H!Next]_live
  <2> SUFFICES ASSUME BlocksInv, [MemoryNext]_<<part, vars, blocks>>
               PROVE  BlocksInv' /\ [M!H!Next]_live
    OBVIOUS
  <2>1. BlocksInv' /\ (Stays \/ Grows \/ Shrinks)
    BY BlocksStep
  <2>2. live = Seen(info) /\ live' = Seen(info')
    BY DEF Seen, M!Live, Used
  <2>3. CASE Stays
    <3>1. Seen(info') = Seen(info)
      BY <2>3 DEF Stays, Seen
    <3> QED BY <2>1, <2>2, <3>1
  <2>4. CASE Grows
    <3>1. PICK size \in Sizes, p \in DOMAIN info' : CutInv' /\ Gives(info, info', p, size)
      BY <2>4 DEF Grows
    <3>2. PICK b : b = [addr |-> p, len |-> M!Length(size)]
      OBVIOUS
    <3>3. Seen(info') = Seen(info) \cup {b}
      BY <3>1, <3>2 DEF Gives, Seen
    <3>4. HeapInv /\ HeapInv'
      BY <2>1 DEF BlocksInv
    <3>5. PICK e : e = (MaxPages + 1) * MmPage
      OBVIOUS
    <3>6. /\ e \in Nat /\ End(pages)' <= e /\ End(pages)' \in Nat /\ Hdr \in Nat \ {0} /\ size \in Nat
          /\ \A a \in DOMAIN info' : info'[a].size \in Nat /\ a \in Nat \ {0}
      <4>1. Heads(info') /\ pages' \in Nat /\ pages' <= MaxPages
        BY <3>4 DEF HeapInv, TreeInv
      <4>2. \A a \in DOMAIN info' : info'[a].size \in Nat /\ a \in Nat \ {0}
        BY <4>1, PointerIs DEF Heads, Sides
      <4>3. MaxPages \in Nat /\ MaxPages - pages' \in Nat /\ pages' + (MaxPages - pages') = MaxPages
        BY <3>4, <4>1, Untyped
      <4>4. End(pages') \in Nat /\ End(MaxPages) \in Nat /\ End(pages') <= End(pages' + (MaxPages - pages'))
        BY <4>1, <4>3, Endings
      <4>5. Hdr \in Nat \ {0} /\ size \in Nat
        BY <3>4, Untyped
      <4> QED BY <3>5, <4>2, <4>3, <4>4, <4>5 DEF End
    <3>7. \A a \in DOMAIN info' : a + info'[a].size + Hdr <= e
      <4>1. \A a \in DOMAIN info' : a + info'[a].size + Hdr <= End(pages)'
        BY <3>4 DEF HeapInv, Ends
      <4> QED BY <3>6, <4>1
    <3>8. info'[p].size = size /\ p \in Nat \ {0} /\ p + size + Hdr <= e
      BY <3>1, <3>6, <3>7 DEF Gives
    <3>9. b \in [addr: 1..e, len: {M!Length(n) : n \in Sizes}]
      <4>1. p \in 1..e
        BY <3>6, <3>8
      <4> QED BY <3>2, <4>1
    <3>10. b.addr + b.len <= e
      BY <3>2, <3>6, <3>8 DEF M!Length
    <3>11. ASSUME NEW c \in Seen(info)
           PROVE  ~(b.addr < c.addr + c.len /\ c.addr < b.addr + b.len)
      <4>1. PICK a \in Used(info) : c = [addr |-> a, len |-> M!Length(info[a].size)]
        BY DEF Seen
      <4>2. a \in DOMAIN info' /\ info'[a].size = info[a].size /\ a # p
        BY <3>1 DEF Gives, Used
      <4>3. /\ a < p => a + info'[a].size + Hdr <= p
            /\ p < a => p + info'[p].size + Hdr <= a
        BY <3>1, <4>2 DEF CutInv, Apart
      <4> QED BY <3>2, <3>6, <3>8, <4>1, <4>2, <4>3 DEF M!Length
    <3> HIDE DEF live
    <3>12. M!H!Alloc
      <4>1. b \in M!H!Blocks
        BY <3>5, <3>9 DEF M!H!Blocks
      <4>2. live' = live \cup {b}
        BY <2>2, <3>3
      <4>3. \A c \in live : ~M!H!Overlap(b, c)
        BY <2>2, <3>11 DEF M!H!Overlap
      <4> QED BY <3>5, <3>10, <4>1, <4>2, <4>3 DEF M!H!Alloc, live
    <3> QED BY <2>1, <3>12 DEF M!H!Next
  <2>5. CASE Shrinks
    <3>1. PICK a \in Used(info) : /\ Used(info') = Used(info) \ {a}
                                  /\ \A n \in Used(info) : info'[n].size = info[n].size
      BY <2>5 DEF Shrinks
    <3>2. PICK b : b = [addr |-> a, len |-> M!Length(info[a].size)]
      OBVIOUS
    <3>3. b \in Seen(info) /\ Seen(info') = Seen(info) \ {b}
      BY <3>1, <3>2 DEF Seen
    <3> HIDE DEF live
    <3>4. b \in live /\ live' = live \ {b}
      BY <2>2, <3>3
    <3>5. M!H!Free
      BY <3>4 DEF M!H!Free, live
    <3> QED BY <2>1, <3>5 DEF M!H!Next
  <2> QED BY <2>1, <2>3, <2>4, <2>5
<1> QED BY <1>1, <1>2, PTL DEF MemorySpec, HeapSpec, M!HeapSpec, M!H!Spec
=============================================================================
