------------------------------ MODULE FilesProofs ------------------------------
(***************************************************************************)
(* Proofs about Files: the table of open files is a sound list whatever the *)
(* tasks open and close (HandlesSound), only stat() leaks (OnlyStatLeaks), *)
(* and the table with the calls on it implements OpenFiles (TableSpec).    *)
(*                                                                         *)
(* The list is described by a sequence of objects (IsList).  Nth() walks it *)
(* with a recursive function; that the walk follows the sequence is shown  *)
(* by its least wrong step (LeastNat, WalkOn).  The calls are described by *)
(* who may work on which handle: a handle is owned by one task, or being   *)
(* closed by one call, or left behind by stat(); an Iterator belongs to one *)
(* open entry or to one call that is about to enter it.                    *)
(*                                                                         *)
(* The second half is about Disk, the driver and the archive under the     *)
(* files, as FilesOnDisk puts them together (StoreHasParts): reads bring   *)
(* the sector asked for, writes arrive and the walk over the archive finds *)
(* the right file.  DiskInv says what the drive and the channel's registers*)
(* can be at each place of the driver; WalkInv says at which header the    *)
(* walk stands.                                                            *)
(***************************************************************************)
EXTENDS FilesOnDisk, FiniteSetTheorems, SequenceTheorems, TLAPS

-----------------------------------------------------------------------------
(* Numbers and sequences                                                     *)

\* A set of natural numbers has a least one: the induction principle of these proofs.
LEMMA LeastNat ==
  ASSUME NEW T \in SUBSET Nat, T # {}
  PROVE  \E n \in T : \A m \in T : n <= m
<1> DEFINE R == OpToRel(<, Nat)
<1>1. IsWellFoundedOn(R, Nat)
  BY NatLessThanWellFounded
<1> HIDE DEF R
<1>2. PICK n \in T : \A m \in T : ~(<<m, n>> \in R)
  BY <1>1, WFMin
<1>3. \A m \in T : <<m, n>> \in R <=> m < n
  BY DEF R, OpToRel
<1>4. n \in Nat /\ \A m \in T : m \in Nat
  OBVIOUS
<1>5. ASSUME NEW m \in T PROVE n <= m
  <2>1. ~(m < n)
    BY <1>2, <1>3
  <2> QED BY <1>4, <2>1
<1> QED BY <1>5

\* No element twice.
Once(c) == \A j, k \in 1..Len(c) : c[j] = c[k] => j = k

\* A sequence without repetition has as many elements as places.
LEMMA CountOnce ==
  ASSUME NEW S, NEW c \in Seq(S), Once(c)
  PROVE  Cardinality(Range(c)) = Len(c)
<1>1. c \in [1..Len(c) -> S] /\ DOMAIN c = 1..Len(c) /\ Len(c) \in Nat
  BY LenProperties
<1>2. c \in [1..Len(c) -> Range(c)]
  BY <1>1 DEF Range
<1>3. c \in Bijection(1..Len(c), Range(c))
  <2>1. IsInjective(c)
    BY <1>1 DEF IsInjective, Once
  <2>2. \A t \in Range(c) : \E s \in 1..Len(c) : c[s] = t
    BY <1>1 DEF Range
  <2> QED BY <1>2, <2>1, <2>2 DEF Bijection, Injection, Surjection
<1>4. ExistsBijection(1..Len(c), Range(c))
  BY <1>3 DEF ExistsBijection
<1> QED BY <1>1, <1>4, FS_CountingElements

-----------------------------------------------------------------------------
(* The walk along the list                                                   *)

\* The objects from f on, along nx, are those of c.
Linked(f, l, nx, c) ==
  /\ c \in Seq(Objects) /\ Once(c)
  /\ Len(c) = 0 => f = Nil /\ l = Nil
  /\ Len(c) > 0 => f = c[1] /\ l = c[Len(c)] /\ nx[c[Len(c)]] = Nil
  /\ \A k \in 1..Len(c) - 1 : nx[c[k]] = c[k + 1]

\* Nth() as a function of the list.
NthOf(f, nx, i) ==
  LET walk[k \in 0..i] == IF k = 0 THEN f ELSE IF walk[k - 1] = Nil THEN Nil ELSE nx[walk[k - 1]]
  IN  walk[i]

\* It is Nth() of the list there is now.
LEMMA NthIs == \A i : Nth(i) = NthOf(first, next, i)
BY DEF Nth, NthOf

\* v is such a walk of i steps, and Reached(c, k) is where k steps along c lead.
Walks(f, nx, i, v) ==
  v = [k \in 0..i |-> IF k = 0 THEN f ELSE IF v[k - 1] = Nil THEN Nil ELSE nx[v[k - 1]]]

Reached(c, k) == IF k < Len(c) THEN c[k + 1] ELSE Nil

\* The recursive function of Nth() finds the objects of c one after the other, and the null
\* pointer behind them: no walk takes a first wrong step.
LEMMA WalkOn ==
  ASSUME NEW f, NEW l, NEW nx, NEW c, Linked(f, l, nx, c), NEW i \in 0..Len(c)
  PROVE  NthOf(f, nx, i) = Reached(c, i)
<1> DEFINE w == [k \in 0..i |-> Reached(c, k)]
           v == CHOOSE x : Walks(f, nx, i, x)
<1>1. Len(c) \in Nat /\ i \in Nat /\ \A k \in 1..Len(c) : c[k] \in Objects /\ c[k] # Nil
  BY LenProperties, FilesAssumption DEF Linked, Objects
<1>2. Walks(f, nx, i, w)
  <2>1. ASSUME NEW k \in 0..i
        PROVE  w[k] = IF k = 0 THEN f ELSE IF w[k - 1] = Nil THEN Nil ELSE nx[w[k - 1]]
    <3>1. CASE k = 0
      BY <1>1, <3>1 DEF Linked, Reached
    <3>2. CASE k # 0
      <4>1. k \in 1..Len(c) /\ k - 1 \in 0..i /\ k - 1 < Len(c) /\ k - 1 + 1 = k
        BY <1>1, <3>2
      <4>2. w[k - 1] = c[k]
        BY <4>1 DEF Reached
      <4>3. nx[c[k]] = Reached(c, k)
        BY <1>1, <4>1 DEF Linked, Reached
      <4> QED BY <1>1, <3>2, <4>1, <4>2, <4>3
    <3> QED BY <3>1, <3>2
  <2> HIDE DEF w
  <2>2. DOMAIN w = 0..i /\ w = [k \in 0..i |-> w[k]]
    BY DEF w
  <2> QED BY <2>1, <2>2 DEF Walks
<1>3. Walks(f, nx, i, v)
  BY <1>2
<1>4. NthOf(f, nx, i) = v[i]
  BY DEF NthOf, Walks
<1> HIDE DEF v, w
<1>5. \A k \in 0..i : v[k] = w[k]
  <2> DEFINE T == {k \in 0..i : v[k] # w[k]}
  <2> SUFFICES ASSUME T # {} PROVE FALSE
    OBVIOUS
  <2>1. PICK n \in T : \A m \in T : n <= m
    <3>1. T \in SUBSET Nat
      BY <1>1
    <3> HIDE DEF T
    <3> QED BY <3>1, LeastNat
  <2>2. n \in 0..i /\ v[n] # w[n]
    OBVIOUS
  <2>3. n # 0
    BY <1>2, <1>3, <2>2 DEF Walks
  <2>4. n - 1 \in 0..i /\ n - 1 \notin T
    BY <1>1, <2>1, <2>2, <2>3
  <2>5. v[n - 1] = w[n - 1]
    BY <2>4
  <2> QED BY <1>2, <1>3, <2>2, <2>3, <2>5 DEF Walks
<1>6. v[i] = w[i] /\ w[i] = Reached(c, i)
  BY <1>1, <1>5 DEF w
<1> QED BY <1>4, <1>6

-----------------------------------------------------------------------------
(* The table                                                                 *)

\* Handles that rise along the list, none above the last one given.
Rising(p, c, top) ==
  /\ \A k \in 1..Len(c) : p[c[k]] \in Handles /\ p[c[k]] <= top
  /\ \A j, k \in 1..Len(c) : j < k => p[c[j]] < p[c[k]]

\* The objects kept for reuse are not in the list.
Spare(s, c) ==
  /\ s \in Seq(Objects) /\ Once(s)
  /\ \A j \in 1..Len(s), k \in 1..Len(c) : s[j] # c[k]

\* The variables of the list describe the sequence c of objects.
IsList(f, l, n, nx, p, s, top, c) ==
  Linked(f, l, nx, c) /\ n = Len(c) /\ Rising(p, c, top) /\ Spare(s, c)

\* Every object that was used got a handle of its own.
Used(p) == {o \in Objects : p[o] # Nil}

\* There is such a sequence.  An object that was ever used has a handle, so that there is a
\* new one for every handle still to be given.
ListInv ==
  /\ next \in [Objects -> Objects \cup {Nil}] /\ ptr \in [Objects -> Handles \cup {Nil}]
  /\ filehandle \in 2..MaxHandles + 2
  /\ Cardinality(Used(ptr)) <= filehandle - 2
  /\ \E c \in Seq(Objects) : IsList(first, last, size, next, ptr, freed, filehandle, c)

\* What the proofs use of the constants.
LEMMA Constants ==
  /\ MaxHandles \in Nat /\ Nil \notin Objects /\ Nil \notin Handles /\ LIST_MAX_FREED \in Nat \ {0}
  /\ IsFiniteSet(Objects) /\ Cardinality(Objects) = MaxHandles
  /\ Objects \subseteq Nat /\ Handles \subseteq Nat
<1>1. MaxHandles \in Nat /\ 1 \in Int /\ MaxHandles \in Int
  BY FilesAssumption
<1>2. IsFiniteSet(1..MaxHandles) /\ Cardinality(1..MaxHandles) = IF 1 > MaxHandles THEN 0 ELSE MaxHandles - 1 + 1
  BY <1>1, FS_Interval, Zenon
<1>3. Cardinality(1..MaxHandles) = MaxHandles
  BY <1>1, <1>2
<1>4. Nil \notin 1..MaxHandles /\ Nil \notin 3..MaxHandles + 2 /\ LIST_MAX_FREED \in Nat \ {0}
  BY FilesAssumption
<1> QED BY <1>1, <1>2, <1>3, <1>4 DEF Objects, Handles

\* The handles of the list.
HandlesOf(p, c) == {p[c[k]] : k \in 1..Len(c)}

\* Where a handle is found: at one place of the list.
LEMMA FoundAt ==
  ASSUME NEW c \in Seq(Objects), IsList(first, last, size, next, ptr, freed, filehandle, c),
         NEW k \in 1..Len(c)
  PROVE  Found(ptr[c[k]]) = {k - 1} /\ Index(ptr[c[k]]) = k - 1
<1>1. Len(c) \in Nat /\ size = Len(c) /\ Linked(first, last, next, c) /\ Rising(ptr, c, filehandle)
  BY LenProperties DEF IsList
<1>2. ASSUME NEW i \in 0..size - 1 PROVE At(i) = ptr[c[i + 1]]
  <2>1. i \in 0..Len(c) /\ i < Len(c) /\ i + 1 \in 1..Len(c)
    BY <1>1
  <2>2. Nth(i) = c[i + 1]
    BY <1>1, <2>1, NthIs, WalkOn DEF Reached
  <2>3. c[i + 1] # Nil
    BY <2>1, Constants
  <2> QED BY <2>2, <2>3 DEF At
<1>3. k - 1 \in 0..size - 1 /\ k - 1 + 1 = k
  BY <1>1
<1>4. ASSUME NEW i \in 0..size - 1, At(i) = ptr[c[k]] PROVE i = k - 1
  <2>1. ptr[c[i + 1]] = ptr[c[k]] /\ i + 1 \in 1..Len(c)
    BY <1>1, <1>2, <1>4
  <2>2. ptr[c[k]] \in Nat /\ ptr[c[i + 1]] \in Nat
    BY <1>1, <2>1, Constants DEF Rising
  <2>3. ~(i + 1 < k) /\ ~(k < i + 1)
    BY <1>1, <2>1, <2>2 DEF Rising
  <2> QED BY <1>1, <2>1, <2>3
<1>5. Found(ptr[c[k]]) = {k - 1}
  BY <1>2, <1>3, <1>4 DEF Found
<1>6. k - 1 \in Int
  BY <1>3
<1>7. Index(ptr[c[k]]) = k - 1
  BY <1>5, <1>6 DEF Index
<1> QED BY <1>5, <1>7

\* A handle that is not in the list is not found.
LEMMA NotFound ==
  ASSUME NEW c \in Seq(Objects), IsList(first, last, size, next, ptr, freed, filehandle, c),
         NEW h, h \notin HandlesOf(ptr, c)
  PROVE  Found(h) = {}
<1>1. Len(c) \in Nat /\ size = Len(c) /\ Linked(first, last, next, c)
  BY LenProperties DEF IsList
<1>2. ASSUME NEW i \in 0..size - 1 PROVE At(i) # h
  <2>1. i \in 0..Len(c) /\ i < Len(c) /\ i + 1 \in 1..Len(c)
    BY <1>1
  <2>2. Nth(i) = c[i + 1]
    BY <1>1, <2>1, NthIs, WalkOn DEF Reached
  <2>3. c[i + 1] # Nil
    BY <2>1, Constants
  <2> QED BY <2>1, <2>2, <2>3 DEF At, HandlesOf
<1> QED BY <1>2 DEF Found

\* The table lists the handles of the list.
LEMMA ListedIs ==
  ASSUME NEW c \in Seq(Objects), IsList(first, last, size, next, ptr, freed, filehandle, c)
  PROVE  Listed = HandlesOf(ptr, c)
<1>1. ASSUME NEW k \in 1..Len(c) PROVE ptr[c[k]] \in Handles /\ Found(ptr[c[k]]) # {}
  BY FoundAt DEF IsList, Rising
<1>2. \A h : h \notin HandlesOf(ptr, c) => Found(h) = {}
  BY NotFound
<1>3. ASSUME NEW h \in HandlesOf(ptr, c) PROVE h \in Handles /\ Found(h) # {}
  BY <1>1 DEF HandlesOf
<1> QED BY <1>2, <1>3 DEF Listed

\* What is listed, in this state and in the next one.
TableIs == \A c \in Seq(Objects) : IsList(first, last, size, next, ptr, freed, filehandle, c)
                                    => Listed = HandlesOf(ptr, c)

\* ListedIs holds in every state, so in the next one too.
LEMMA TableAlways == TableIs /\ TableIs'
<1>1. TableIs
  BY ListedIs DEF TableIs
<1>2. TableIs'
  BY <1>1, PTL
<1> QED BY <1>1, <1>2

\* append() puts the handle at the end of the list.
LEMMA AppendStep ==
  ASSUME ListInv, filehandle < MaxHandles + 2, filehandle' = filehandle + 1, ListAppend(filehandle + 1)
  PROVE  ListInv' /\ Listed' = Listed \cup {filehandle + 1} /\ filehandle + 1 \notin Listed
<1> DEFINE h == filehandle + 1
           obj == GetFree
<1>1. PICK c \in Seq(Objects) : IsList(first, last, size, next, ptr, freed, filehandle, c)
  BY DEF ListInv
<1>2. /\ next \in [Objects -> Objects \cup {Nil}] /\ ptr \in [Objects -> Handles \cup {Nil}]
      /\ filehandle \in 2..MaxHandles + 2 /\ Cardinality(Used(ptr)) <= filehandle - 2
  BY DEF ListInv
<1>3. /\ Linked(first, last, next, c) /\ size = Len(c) /\ Rising(ptr, c, filehandle) /\ Spare(freed, c)
      /\ Len(c) \in Nat /\ freed \in Seq(Objects) /\ Len(freed) \in Nat
  BY <1>1, LenProperties DEF IsList, Spare
<1>4. h \in Handles /\ h \in Nat /\ h # Nil /\ filehandle \in Nat
  BY <1>2, Constants DEF Handles
<1>5. IsFiniteSet(Used(ptr)) /\ Cardinality(Used(ptr)) \in Nat /\ Used(ptr) \subseteq Objects
  <2>1. Used(ptr) \in SUBSET Objects
    BY DEF Used
  <2> QED BY <2>1, Constants, FS_Subset, FS_CardinalityType
<1>6. obj \in Objects /\ \A k \in 1..Len(c) : c[k] # obj
  <2>1. CASE freed = <<>>
    <3>1. Cardinality(Used(ptr)) # Cardinality(Objects)
      BY <1>2, <1>5, Constants
    <3>2. \E o \in Objects : ptr[o] = Nil
      <4>1. Used(ptr) # Objects
        BY <3>1
      <4> QED BY <4>1 DEF Used
    <3>3. obj \in Objects /\ ptr[obj] = Nil
      BY <2>1, <3>2 DEF GetFree, NewObject
    <3> QED BY <1>3, <3>3, Constants DEF Rising
  <2>2. CASE freed # <<>>
    <3>1. Len(freed) \in 1..Len(freed) /\ obj = freed[Len(freed)]
      BY <1>3, <2>2 DEF GetFree
    <3> QED BY <1>3, <3>1 DEF Spare
  <2> QED BY <2>1, <2>2
<1> HIDE DEF obj
<1>7. /\ ptr' = [ptr EXCEPT ![obj] = h]
      /\ next' = [o \in Objects |-> IF o = obj THEN (IF last = Nil THEN first ELSE Nil)
                                    ELSE IF o = last THEN obj ELSE next[o]]
      /\ first' = (IF last = Nil THEN obj ELSE first)
      /\ last' = (IF last = Nil /\ first # Nil THEN last ELSE obj)
      /\ size' = size + 1
      /\ freed' = IF freed = <<>> THEN freed ELSE SubSeq(freed, 1, Len(freed) - 1)
  BY DEF ListAppend, obj
<1> DEFINE d == Append(c, obj)
<1>8. /\ d \in Seq(Objects) /\ Len(d) = Len(c) + 1 /\ d[Len(c) + 1] = obj
      /\ \A k \in 1..Len(c) : d[k] = c[k] /\ c[k] \in Objects
  BY <1>3, <1>6
<1> HIDE DEF d
<1>9. Once(d)
  <2> SUFFICES ASSUME NEW j \in 1..Len(c) + 1, NEW k \in 1..Len(c) + 1, d[j] = d[k] PROVE j = k
    BY <1>8 DEF Once
  <2>1. CASE j \in 1..Len(c) /\ k \in 1..Len(c)
    BY <1>3, <1>8, <2>1 DEF Linked, Once
  <2>2. CASE j = Len(c) + 1 \/ k = Len(c) + 1
    BY <1>3, <1>6, <1>8, <2>2
  <2> QED BY <1>3, <2>1, <2>2
<1>10. /\ last = IF Len(c) = 0 THEN Nil ELSE c[Len(c)]
       /\ first = IF Len(c) = 0 THEN Nil ELSE c[1]
       /\ Len(c) # 0 => c[Len(c)] \in Objects /\ c[1] \in Objects
  BY <1>3, <1>8 DEF Linked
<1>11. Linked(first', last', next', d)
  <2>1. first' = d[1] /\ last' = d[Len(d)]
    BY <1>3, <1>7, <1>8, <1>10, Constants
  <2>2. next'[obj] = Nil
    BY <1>6, <1>7, <1>10, Constants
  <2>3. ASSUME NEW k \in 1..Len(c) PROVE next'[d[k]] = d[k + 1]
    <3>1. d[k] = c[k] /\ c[k] # obj /\ c[k] \in Objects
      BY <1>6, <1>8
    <3>2. CASE k = Len(c)
      BY <1>3, <1>7, <1>8, <1>10, <3>1, <3>2
    <3>3. CASE k # Len(c)
      <4>1. k \in 1..Len(c) - 1 /\ k + 1 \in 1..Len(c) /\ Len(c) \in 1..Len(c)
        BY <1>3, <3>3
      <4>2. c[k] # last
        BY <1>3, <1>10, <3>3, <4>1 DEF Linked, Once
      <4> QED BY <1>3, <1>7, <1>8, <3>1, <4>1, <4>2 DEF Linked
    <3> QED BY <3>2, <3>3
  <2> QED BY <1>3, <1>8, <1>9, <2>1, <2>2, <2>3 DEF Linked
<1>12. Rising(ptr', d, filehandle')
  <2>1. ptr'[obj] = h /\ \A k \in 1..Len(c) : ptr'[c[k]] = ptr[c[k]]
    BY <1>2, <1>6, <1>7, <1>8
  <2>2. \A k \in 1..Len(c) : ptr[c[k]] \in Handles /\ ptr[c[k]] \in Nat /\ ptr[c[k]] <= filehandle
    BY <1>3, Constants DEF Rising
  <2>3. \A k \in 1..Len(d) : ptr'[d[k]] \in Handles /\ ptr'[d[k]] <= filehandle'
    BY <1>3, <1>4, <1>8, <2>1, <2>2
  <2>4. ASSUME NEW j \in 1..Len(d), NEW k \in 1..Len(d), j < k PROVE ptr'[d[j]] < ptr'[d[k]]
    <3>1. j \in 1..Len(c)
      BY <1>3, <1>8, <2>4
    <3>2. CASE k \in 1..Len(c)
      BY <1>3, <1>8, <2>1, <2>4, <3>1, <3>2 DEF Rising
    <3>3. CASE k = Len(c) + 1
      BY <1>4, <1>8, <2>1, <2>2, <3>1, <3>3
    <3> QED BY <1>3, <1>8, <3>2, <3>3
  <2> QED BY <2>3, <2>4 DEF Rising
<1>13. Spare(freed', d)
  <2>1. CASE freed = <<>>
    <3>1. freed' = <<>> /\ Len(<<>>) = 0 /\ <<>> \in Seq(Objects)
      BY <1>7, <2>1
    <3> QED BY <3>1 DEF Spare, Once
  <2>2. CASE freed # <<>>
    <3> DEFINE n == Len(freed)
    <3>1. n \in Nat \ {0}
      BY <1>3, <2>2
    <3>2. /\ freed' \in Seq(Objects) /\ Len(freed') = n - 1
          /\ \A k \in 1..n - 1 : freed'[k] = freed[k]
      <4>1. freed' = SubSeq(freed, 1, n - 1) /\ 1 \in Int /\ n - 1 \in Int
        BY <1>7, <2>2, <3>1
      <4>2. \A k \in 1..n - 1 : freed[k] \in Objects
        BY <1>3, <3>1
      <4> HIDE DEF n
      <4>3. /\ SubSeq(freed, 1, n - 1) \in Seq(Objects)
            /\ Len(SubSeq(freed, 1, n - 1)) = IF 1 <= n - 1 THEN n - 1 - 1 + 1 ELSE 0
            /\ \A k \in 1..n - 1 - 1 + 1 : SubSeq(freed, 1, n - 1)[k] = freed[1 + k - 1]
        BY <4>1, <4>2, SubSeqProperties
      <4>4. n - 1 - 1 + 1 = n - 1 /\ (1 <= n - 1 \/ n - 1 = 0) /\ \A k \in 1..n - 1 : 1 + k - 1 = k
        BY <3>1
      <4> QED BY <4>1, <4>3, <4>4
    <3>3. obj = freed[n]
      BY <2>2 DEF obj, GetFree
    <3>4. Once(freed')
      BY <1>3, <3>1, <3>2 DEF Spare, Once
    <3>5. ASSUME NEW j \in 1..Len(freed'), NEW k \in 1..Len(d) PROVE freed'[j] # d[k]
      <4>1. j \in 1..n /\ n \in 1..n /\ j # n /\ freed'[j] = freed[j]
        BY <3>1, <3>2
      <4>2. CASE k \in 1..Len(c)
        BY <1>3, <1>8, <4>1, <4>2 DEF Spare
      <4>3. CASE k = Len(c) + 1
        BY <1>3, <1>8, <3>3, <4>1, <4>3 DEF Spare, Once
      <4> QED BY <1>3, <1>8, <4>2, <4>3
    <3> QED BY <3>2, <3>4, <3>5 DEF Spare
  <2> QED BY <2>1, <2>2
<1>14. IsList(first', last', size', next', ptr', freed', filehandle', d)
  BY <1>3, <1>7, <1>8, <1>11, <1>12, <1>13 DEF IsList
<1>15. ListInv'
  <2>1. next' \in [Objects -> Objects \cup {Nil}]
    BY <1>2, <1>6, <1>7, <1>10
  <2>2. ptr' \in [Objects -> Handles \cup {Nil}] /\ filehandle' \in 2..MaxHandles + 2
    BY <1>2, <1>4, <1>6, <1>7, Constants
  <2>3. Cardinality(Used(ptr')) <= filehandle' - 2
    <3>1. Used(ptr') = Used(ptr) \cup {obj}
      BY <1>2, <1>4, <1>6, <1>7 DEF Used
    <3>2. Cardinality(Used(ptr')) <= Cardinality(Used(ptr)) + 1 /\ Cardinality(Used(ptr')) \in Nat
      <4>1. Cardinality(Used(ptr) \cup {obj}) =
              IF obj \in Used(ptr) THEN Cardinality(Used(ptr)) ELSE Cardinality(Used(ptr)) + 1
        BY <1>5, FS_AddElement
      <4> QED BY <1>5, <3>1, <4>1
    <3> QED BY <1>2, <1>4, <1>5, <3>2
  <2> QED BY <1>8, <1>14, <2>1, <2>2, <2>3 DEF ListInv
<1>16. Listed = HandlesOf(ptr, c) /\ Listed' = HandlesOf(ptr', d)
  BY <1>1, <1>8, <1>14, TableAlways DEF TableIs
<1>17. HandlesOf(ptr', d) = HandlesOf(ptr, c) \cup {h}
  <2>1. ptr'[d[Len(c) + 1]] = h /\ \A k \in 1..Len(c) : ptr'[d[k]] = ptr[c[k]]
    BY <1>2, <1>6, <1>7, <1>8
  <2>2. 1..Len(d) = (1..Len(c)) \cup {Len(c) + 1}
    BY <1>3, <1>8
  <2> QED BY <2>1, <2>2 DEF HandlesOf
<1>18. h \notin HandlesOf(ptr, c)
  <2>1. \A k \in 1..Len(c) : ptr[c[k]] \in Nat /\ ptr[c[k]] <= filehandle
    BY <1>3, Constants DEF Rising
  <2>2. \A k \in 1..Len(c) : ptr[c[k]] # h
    BY <1>4, <2>1
  <2> QED BY <2>2 DEF HandlesOf
<1> QED BY <1>15, <1>16, <1>17, <1>18

\* The list without its k-th object.
Without(c, k) == [j \in 1..Len(c) - 1 |-> IF j < k THEN c[j] ELSE c[j + 1]]

\* It is a list of one object less, none twice.
LEMMA WithoutIs ==
  ASSUME NEW c \in Seq(Objects), NEW k \in 1..Len(c), Once(c)
  PROVE  /\ Without(c, k) \in Seq(Objects) /\ Len(Without(c, k)) = Len(c) - 1 /\ Len(c) \in Nat
         /\ Once(Without(c, k))
         /\ \A j \in 1..Len(c) - 1 : Without(c, k)[j] = IF j < k THEN c[j] ELSE c[j + 1]
<1>1. Len(c) \in Nat /\ \A j \in 1..Len(c) : c[j] \in Objects
  BY LenProperties
<1>2. Without(c, k) \in [1..Len(c) - 1 -> Objects]
  BY <1>1 DEF Without
<1>3. Len(c) - 1 \in Nat
  BY <1>1
<1>4. Without(c, k) \in Seq(Objects) /\ Len(Without(c, k)) = Len(c) - 1
  BY <1>2, <1>3
<1>5. \A j \in 1..Len(c) - 1 : Without(c, k)[j] = IF j < k THEN c[j] ELSE c[j + 1]
  BY DEF Without
<1>6. ASSUME NEW i \in 1..Len(c) - 1, NEW j \in 1..Len(c) - 1, Without(c, k)[i] = Without(c, k)[j]
      PROVE  i = j
  <2> DEFINE x == IF i < k THEN i ELSE i + 1
             y == IF j < k THEN j ELSE j + 1
  <2>1. c[x] = c[y]
    BY <1>5, <1>6
  <2>2. x \in 1..Len(c) /\ y \in 1..Len(c)
    BY <1>1
  <2>3. x = y
    BY <2>1, <2>2 DEF Once
  <2> QED BY <1>1, <2>3
<1> QED BY <1>1, <1>4, <1>5, <1>6 DEF Once

\* deleteAt() takes one object out of the list.
LEMMA DeleteStep ==
  ASSUME ListInv, NEW h \in Listed, DeleteAt(Index(h)), UNCHANGED filehandle
  PROVE  ListInv' /\ Listed' = Listed \ {h}
<1>1. PICK c \in Seq(Objects) : IsList(first, last, size, next, ptr, freed, filehandle, c)
  BY DEF ListInv
<1>2. /\ next \in [Objects -> Objects \cup {Nil}] /\ ptr \in [Objects -> Handles \cup {Nil}]
      /\ filehandle \in 2..MaxHandles + 2 /\ Cardinality(Used(ptr)) <= filehandle - 2
  BY DEF ListInv
<1>3. /\ Linked(first, last, next, c) /\ size = Len(c) /\ Rising(ptr, c, filehandle) /\ Spare(freed, c)
      /\ Len(c) \in Nat /\ freed \in Seq(Objects) /\ Len(freed) \in Nat /\ Once(c)
      /\ \A j \in 1..Len(c) : c[j] \in Objects /\ c[j] # Nil
  BY <1>1, LenProperties, Constants DEF IsList, Spare, Linked
<1>4. Listed = HandlesOf(ptr, c)
  BY <1>1, TableAlways DEF TableIs
<1>5. PICK k \in 1..Len(c) : h = ptr[c[k]]
  BY <1>4 DEF HandlesOf
<1>6. DeleteAt(k - 1)
  BY <1>1, <1>5, FoundAt
<1> DEFINE d == Without(c, k)
<1>7. /\ d \in Seq(Objects) /\ Len(d) = Len(c) - 1 /\ Once(d)
      /\ \A j \in 1..Len(c) - 1 : d[j] = IF j < k THEN c[j] ELSE c[j + 1]
  BY <1>3, WithoutIs
<1> HIDE DEF d
<1>8. \A j \in 1..Len(c) - 1 : next[c[j]] = c[j + 1]
  BY <1>3 DEF Linked
<1>9. first = c[1] /\ last = c[Len(c)] /\ next[c[Len(c)]] = Nil
  BY <1>3 DEF Linked
<1>10. next[c[k]] = IF k = Len(c) THEN Nil ELSE c[k + 1]
  BY <1>3, <1>8, <1>9
<1>11. UNCHANGED ptr
  BY <1>6 DEF DeleteAt, DeleteFirst, DeleteAfter
<1>12. /\ Linked(first', last', next', d) /\ size' = Len(d) /\ next' \in [Objects -> Objects \cup {Nil}]
       /\ \/ UNCHANGED freed \/ freed' = Append(freed, c[k])
  <2>1. CASE k = 1
    <3>1. /\ first' = next[c[1]] /\ last' = (IF next[c[1]] = Nil THEN Nil ELSE last)
          /\ size' = (IF next[c[1]] = Nil THEN 0 ELSE size - 1) /\ UNCHANGED <<next, freed>>
      BY <1>6, <1>9, <2>1 DEF DeleteAt, DeleteFirst
    <3>2. CASE Len(c) = 1
      <4>1. first' = Nil /\ last' = Nil /\ size' = 0 /\ Len(d) = 0
        BY <1>7, <1>10, <2>1, <3>1, <3>2
      <4>2. ~(Len(d) > 0) /\ \A j \in 1..Len(d) - 1 : FALSE
        BY <4>1
      <4>3. Linked(first', last', next', d)
        <5>1. d \in Seq(Objects) /\ Once(d)
          BY <1>7
        <5> QED BY ONLY <4>1, <4>2, <5>1 DEF Linked
      <4> QED BY <1>2, <3>1, <4>1, <4>3
    <3>3. CASE Len(c) # 1
      <4>1. Len(c) > 1 /\ 2 \in 1..Len(c) /\ next[c[1]] = c[2] /\ c[2] # Nil
        BY <1>3, <1>10, <2>1, <3>3
      <4>2. \A j \in 1..Len(c) - 1 : d[j] = c[j + 1]
        BY <1>7, <2>1
      <4>3. first' = d[1] /\ last' = d[Len(d)] /\ size' = Len(d)
        BY <1>3, <1>7, <1>9, <3>1, <4>1, <4>2
      <4>4. next'[d[Len(d)]] = Nil
        BY <1>3, <1>7, <1>9, <3>1, <4>1, <4>2
      <4>5. ASSUME NEW j \in 1..Len(d) - 1 PROVE next'[d[j]] = d[j + 1]
        <5>1. j \in 1..Len(c) - 1 /\ j + 1 \in 1..Len(c) - 1
          BY <1>3, <1>7
        <5> QED BY <1>8, <3>1, <4>2, <5>1
      <4> QED BY <1>2, <1>7, <3>1, <4>1, <4>3, <4>4, <4>5 DEF Linked
    <3> QED BY <3>2, <3>3
  <2>2. CASE k # 1
    <3>1. k - 1 \in 1..Len(c) /\ k - 1 \in 1..Len(c) - 1 /\ k - 1 + 1 = k /\ k - 1 # 0
          /\ k - 1 - 1 \in 0..Len(c) /\ k - 1 - 1 < Len(c) /\ k - 1 - 1 + 1 = k - 1
      BY <1>3, <2>2
    <3>2. Nth(k - 1 - 1) = c[k - 1]
      BY <1>3, <3>1, NthIs, WalkOn DEF Reached
    <3>3. DeleteAfter(c[k - 1])
      BY <1>6, <3>1, <3>2 DEF DeleteAt
    <3>4. next[c[k - 1]] = c[k] /\ c[k] # Nil
      BY <1>3, <1>8, <3>1
    <3>5. /\ next' = [next EXCEPT ![c[k - 1]] = next[c[k]]]
          /\ last' = (IF next[c[k]] = Nil THEN c[k - 1] ELSE last)
          /\ size' = size - 1 /\ UNCHANGED first /\ ListFree(c[k])
      BY <3>3, <3>4 DEF DeleteAfter
    <3>6. UNCHANGED freed \/ freed' = Append(freed, c[k])
      BY <3>5 DEF ListFree
    <3>7. next' \in [Objects -> Objects \cup {Nil}]
      BY <1>2, <1>3, <3>1, <3>5
    <3>8. first' = d[1] /\ size' = Len(d) /\ Len(d) > 0
      <4>1. 1 \in 1..Len(c) - 1 /\ 1 < k
        BY <1>3, <2>2
      <4>2. d[1] = c[1]
        BY <1>7, <4>1
      <4> QED BY <1>3, <1>7, <1>9, <3>5, <4>1, <4>2
    <3>9. /\ next'[c[k - 1]] = next[c[k]]
          /\ \A j \in 1..Len(c) : j # k - 1 => next'[c[j]] = next[c[j]]
      BY <1>2, <1>3, <3>1, <3>5 DEF Once
    <3>10. last' = d[Len(d)] /\ next'[d[Len(d)]] = Nil
      <4>1. CASE k = Len(c)
        <5>1. d[Len(d)] = c[k - 1] /\ next[c[k]] = Nil
          BY <1>3, <1>7, <1>10, <3>1, <4>1
        <5> QED BY <3>5, <3>9, <5>1
      <4>2. CASE k # Len(c)
        <5>1. Len(c) - 1 \in 1..Len(c) - 1 /\ ~(Len(c) - 1 < k) /\ Len(c) - 1 + 1 = Len(c)
              /\ Len(c) # k - 1 /\ k + 1 \in 1..Len(c) /\ Len(c) \in 1..Len(c)
          BY <1>3, <3>1, <4>2
        <5>2. d[Len(d)] = c[Len(c)]
          BY <1>7, <5>1
        <5>3. next[c[k]] # Nil
          BY <1>3, <1>10, <4>2, <5>1
        <5> QED BY <1>9, <3>5, <3>9, <5>1, <5>2, <5>3
      <4> QED BY <4>1, <4>2
    <3>11. ASSUME NEW j \in 1..Len(d) - 1 PROVE next'[d[j]] = d[j + 1]
      <4>1. j \in 1..Len(c) - 1 /\ j + 1 \in 1..Len(c) - 1 /\ j + 1 \in 1..Len(c) /\ j \in 1..Len(c)
        BY <1>3, <1>7
      <4>2. CASE j < k - 1
        <5>1. d[j] = c[j] /\ d[j + 1] = c[j + 1]
          BY <1>3, <1>7, <3>1, <4>1, <4>2
        <5>2. next'[c[j]] = next[c[j]]
          BY <3>1, <3>9, <4>1, <4>2
        <5> QED BY <1>8, <4>1, <5>1, <5>2
      <4>3. CASE j = k - 1
        <5>1. d[j] = c[k - 1] /\ d[j + 1] = c[k + 1] /\ k # Len(c)
          BY <1>3, <1>7, <3>1, <4>1, <4>3
        <5> QED BY <1>10, <3>9, <5>1
      <4>4. CASE j > k - 1
        <5>1. d[j] = c[j + 1] /\ d[j + 1] = c[j + 1 + 1] /\ j + 1 # k - 1
          BY <1>3, <1>7, <3>1, <4>1, <4>4
        <5>2. next'[c[j + 1]] = next[c[j + 1]]
          BY <3>9, <4>1, <5>1
        <5> QED BY <1>8, <4>1, <5>1, <5>2
      <4> QED BY <3>1, <4>2, <4>3, <4>4
    <3> QED BY <1>7, <3>6, <3>7, <3>8, <3>10, <3>11 DEF Linked
  <2> QED BY <2>1, <2>2
<1> DEFINE place(j) == IF j < k THEN j ELSE j + 1
<1>13. ASSUME NEW j \in 1..Len(d) PROVE place(j) \in 1..Len(c) /\ place(j) # k /\ d[j] = c[place(j)]
  BY <1>3, <1>7
<1>14. Rising(ptr', d, filehandle')
  <2>1. \A j \in 1..Len(d) : ptr'[d[j]] \in Handles /\ ptr'[d[j]] <= filehandle'
    <3> HIDE DEF place
    <3> QED BY <1>3, <1>11, <1>13 DEF Rising
  <2>2. ASSUME NEW i \in 1..Len(d), NEW j \in 1..Len(d), i < j PROVE ptr'[d[i]] < ptr'[d[j]]
    <3>1. place(i) < place(j)
      BY <1>3, <1>7, <2>2
    <3> HIDE DEF place
    <3> QED BY <1>3, <1>11, <1>13, <3>1 DEF Rising
  <2> QED BY <2>1, <2>2 DEF Rising
<1>15. Spare(freed', d)
  <2> HIDE DEF place
  <2>1. \A i \in 1..Len(freed), j \in 1..Len(d) : freed[i] # d[j]
    BY <1>3, <1>13 DEF Spare
  <2>2. Once(freed) /\ \A i \in 1..Len(freed) : freed[i] # c[k]
    BY <1>3 DEF Spare
  <2>3. \A j \in 1..Len(d) : c[k] # d[j]
    BY <1>3, <1>13 DEF Once
  <2>4. CASE UNCHANGED freed
    BY <1>3, <2>1, <2>2, <2>4 DEF Spare
  <2>5. CASE freed' = Append(freed, c[k])
    <3>1. /\ freed' \in Seq(Objects) /\ Len(freed') = Len(freed) + 1 /\ freed'[Len(freed) + 1] = c[k]
          /\ \A i \in 1..Len(freed) : freed'[i] = freed[i]
      BY <1>3, <2>5
    <3>2. Once(freed')
      BY <1>3, <2>2, <3>1 DEF Once
    <3>3. \A i \in 1..Len(freed'), j \in 1..Len(d) : freed'[i] # d[j]
      BY <1>3, <2>1, <2>3, <3>1
    <3> QED BY <3>1, <3>2, <3>3 DEF Spare
  <2> QED BY <1>12, <2>4, <2>5
<1>16. IsList(first', last', size', next', ptr', freed', filehandle', d)
  BY <1>12, <1>14, <1>15 DEF IsList
<1>17. ListInv'
  BY <1>2, <1>7, <1>11, <1>12, <1>16 DEF ListInv
<1>18. Listed' = HandlesOf(ptr, d)
  BY <1>7, <1>11, <1>16, TableAlways DEF TableIs
<1>19. HandlesOf(ptr, d) = HandlesOf(ptr, c) \ {h}
  <2>1. ASSUME NEW j \in 1..Len(c), j # k PROVE ptr[c[j]] # h /\ \E i \in 1..Len(d) : d[i] = c[j]
    <3>1. ptr[c[j]] # ptr[c[k]]
      <4>1. ptr[c[j]] \in Nat /\ ptr[c[k]] \in Nat
        BY <1>3, Constants DEF Rising
      <4>2. j < k \/ k < j
        BY <1>3, <2>1
      <4>3. ptr[c[j]] < ptr[c[k]] \/ ptr[c[k]] < ptr[c[j]]
        BY <1>3, <4>2 DEF Rising
      <4> QED BY <4>1, <4>3
    <3> DEFINE i == IF j < k THEN j ELSE j - 1
    <3>2. i \in 1..Len(d) /\ place(i) = j
      BY <1>3, <1>7, <2>1
    <3>3. d[i] = c[j]
      BY <1>13, <3>2
    <3> QED BY <1>5, <3>1, <3>2, <3>3
  <2> HIDE DEF place
  <2>2. ASSUME NEW x \in HandlesOf(ptr, d) PROVE x \in HandlesOf(ptr, c) \ {h}
    <3>1. PICK i \in 1..Len(d) : x = ptr[d[i]]
      BY <2>2 DEF HandlesOf
    <3>2. place(i) \in 1..Len(c) /\ place(i) # k /\ x = ptr[c[place(i)]]
      BY <1>13, <3>1
    <3>3. x # h
      BY <2>1, <3>2
    <3> QED BY <3>2, <3>3 DEF HandlesOf
  <2>3. ASSUME NEW x \in HandlesOf(ptr, c), x # h PROVE x \in HandlesOf(ptr, d)
    <3>1. PICK j \in 1..Len(c) : x = ptr[c[j]]
      BY <2>3 DEF HandlesOf
    <3>2. j # k
      BY <1>5, <2>3, <3>1
    <3> QED BY <2>1, <3>1, <3>2 DEF HandlesOf
  <2> QED BY <2>2, <2>3
<1> QED BY <1>4, <1>17, <1>18, <1>19

-----------------------------------------------------------------------------
(* The calls                                                                 *)

\* Types of the calls and of what they work on.
Types ==
  /\ data \in [Handles -> [name: Paths \cup {Nil}, custom: Iters \cup {Nil}, fcntl: {0, 1}]]
  /\ iter \in [Iters -> [live: BOOLEAN, path: Files \cup {Nil}, pos: Nat]]
  /\ pc \in [Tasks -> Labels] /\ op \in [Tasks -> Ops]
  /\ arg \in [Tasks -> Paths \cup Handles \cup {Nil}] /\ it \in [Tasks -> Iters \cup {Nil}]
  /\ own \in [Tasks -> SUBSET Handles] /\ leaked \in SUBSET Handles

\* Where a call can be.
Shape ==
  \A t \in Tasks :
    /\ pc[t] = "idle" => op[t] = "none"
    /\ pc[t] = "map" => op[t] \in {"open", "stat"} /\ arg[t] \in Devices \cup Files
    /\ pc[t] = "custom" => op[t] \in {"stat", "read", "fstat", "close"}
    /\ pc[t] = "use" => op[t] \in {"stat", "read", "fstat"}
    /\ pc[t] \in {"delete", "unlink"} => op[t] = "close"
    /\ pc[t] = "flags" => op[t] = "fcntl"

\* A call works on a handle of its task, on one that its task gave up to close it, or on one
\* that stat() opened.
Holds ==
  \A t \in Tasks :
    /\ op[t] \in {"read", "fstat", "fcntl"} => arg[t] \in own[t]
    /\ op[t] = "stat" /\ pc[t] # "map" => arg[t] \in leaked
    /\ op[t] = "close" =>
         /\ arg[t] \in Listed /\ arg[t] \notin leaked
         /\ \A u \in Tasks : arg[t] \notin own[u] /\ (op[u] = "close" /\ u # t => arg[u] # arg[t])

\* Every entry of the table has one of these, and no handle two owners.
Owned ==
  /\ leaked \subseteq Listed
  /\ \A t \in Tasks : own[t] \subseteq Listed /\ own[t] \cap leaked = {}
  /\ \A t, u \in Tasks : t # u => own[t] \cap own[u] = {}
  /\ \A h \in Listed : h \in leaked \/ Closing(h) \/ \E t \in Tasks : h \in own[t]

\* An entry of a plain file has an Iterator of its own.
HasIter(h) ==
  /\ data[h].custom \in Iters /\ iter[data[h].custom].live
  /\ iter[data[h].custom].path = data[h].name /\ iter[data[h].custom].pos <= Size[data[h].name]

\* Open entries are of a device or of a plain file, and no two share an Iterator.
Entries ==
  /\ \A h \in Open : \/ data[h].name \in Devices /\ data[h].custom = Nil
                     \/ data[h].name \in Files /\ HasIter(h)
  /\ \A g, h \in Open : data[g].custom = data[h].custom /\ data[g].custom # Nil => g = h

\* So has a call that is about to enter one.
Mapping ==
  \A t \in Tasks : pc[t] = "map" =>
    \/ arg[t] \in Devices /\ it[t] = Nil
    \/ /\ arg[t] \in Files /\ it[t] \in Iters
       /\ iter[it[t]].live /\ iter[it[t]].path = arg[t] /\ iter[it[t]].pos = 0
       /\ \A h \in Open : data[h].custom # it[t]
       /\ \A u \in Tasks : pc[u] = "map" /\ u # t => it[u] # it[t]

\* A call that uses or deletes an Iterator has that of its handle.
Using ==
  \A t \in Tasks : pc[t] \in {"use", "delete"} => it[t] = data[arg[t]].custom /\ it[t] \in Iters

\* No Iterator is lost.
Reachable ==
  \A i \in Iters : iter[i].live =>
    \/ \E h \in Open : data[h].custom = i
    \/ \E t \in Tasks : pc[t] = "map" /\ it[t] = i

\* There is room for what the calls in progress take.
MapTasks(p) == {t \in Tasks : p[t] = "map"}
\* Iterators that are in use.
LiveIters(its) == {i \in Iters : its[i].live}

\* Handles given and about to be given fit, and no more Iterators are in use than those.
Counted ==
  /\ IsFiniteSet(MapTasks(pc))
  /\ filehandle + Cardinality(MapTasks(pc)) <= MaxHandles + 2
  /\ Cardinality(LiveIters(iter)) <= filehandle - 2 + Cardinality(MapTasks(pc))

\* The invariant of the calls.
CallInv == Types /\ Shape /\ Holds /\ Owned /\ Entries /\ Mapping /\ Using /\ Reachable

\* The inductive invariant: the list, the calls and the room.
FilesInv == ListInv /\ CallInv /\ Counted

\* A step that leaves the list alone.
LEMMA SameList ==
  ASSUME ListInv, UNCHANGED <<listVars, filehandle>>
  PROVE  ListInv' /\ Listed' = Listed
<1>1. UNCHANGED <<first, last, size, next, ptr, freed, filehandle>>
  BY DEF listVars
<1>2. PICK c \in Seq(Objects) : IsList(first, last, size, next, ptr, freed, filehandle, c)
  BY DEF ListInv
<1>3. IsList(first', last', size', next', ptr', freed', filehandle', c)
  BY <1>1, <1>2
<1>4. Listed = HandlesOf(ptr, c) /\ Listed' = HandlesOf(ptr', c)
  BY <1>2, <1>3, TableAlways DEF TableIs
<1> QED BY <1>1, <1>2, <1>3, <1>4 DEF ListInv

\* The other tasks stay where they are.
Others(t) ==
  \A u \in Tasks : u # t => pc'[u] = pc[u] /\ op'[u] = op[u] /\ arg'[u] = arg[u] /\ it'[u] = it[u]

\* Types of where the calls stand.
CallTypes ==
  /\ pc \in [Tasks -> Labels] /\ op \in [Tasks -> Ops]
  /\ arg \in [Tasks -> Paths \cup Handles \cup {Nil}] /\ it \in [Tasks -> Iters \cup {Nil}]

\* One task goes on.
LEMMA Moved ==
  ASSUME Types, NEW t \in Tasks, NEW label \in Labels, NEW o \in Ops,
         NEW a \in Paths \cup Handles \cup {Nil}, NEW i \in Iters \cup {Nil},
         Doing(t, label, o, a, i)
  PROVE  /\ CallTypes' /\ Others(t) /\ pc'[t] = label
         /\ label = "idle" => op'[t] = "none"
         /\ label # "idle" => op'[t] = o /\ arg'[t] = a /\ it'[t] = i
<1>1. "none" \in Ops
  BY DEF Ops
<1>2. pc' \in [Tasks -> Labels] /\ op' \in [Tasks -> Ops]
  BY <1>1 DEF Doing, Types
<1>3. arg' \in [Tasks -> Paths \cup Handles \cup {Nil}] /\ it' \in [Tasks -> Iters \cup {Nil}]
  BY DEF Doing, Types
<1> QED BY <1>2, <1>3 DEF Doing, Types, CallTypes, Others

\* The handles that calls work on are listed.
LEMMA Working ==
  ASSUME CallInv, NEW t \in Tasks, pc[t] \notin {"idle", "map"}
  PROVE  arg[t] \in Listed /\ arg[t] \in Handles /\ Found(arg[t]) # {}
<1>1. op[t] \in {"stat", "read", "fstat", "close", "fcntl"}
  BY DEF CallInv, Shape, Types, Labels
<1>2. arg[t] \in Listed
  BY <1>1 DEF CallInv, Holds, Owned
<1> QED BY <1>2 DEF Listed

\* An entry is open unless a call has taken its Iterator away.
LEMMA StillOpen ==
  ASSUME CallInv, NEW t \in Tasks, pc[t] \notin {"idle", "map", "unlink"}
  PROVE  arg[t] \in Open
<1>1. arg[t] \in Listed
  BY Working
<1>2. ASSUME NEW u \in Tasks, pc[u] = "unlink", arg[u] = arg[t] PROVE FALSE
  <2>1. op[u] = "close"
    BY <1>2 DEF CallInv, Shape
  <2>2. arg[u] \notin leaked /\ arg[u] \notin own[t] /\ (op[t] = "close" => t = u)
    BY <1>2, <2>1 DEF CallInv, Holds
  <2>3. op[t] # "close"
    BY <1>2, <2>2
  <2>4. op[t] \in {"stat", "read", "fstat", "fcntl"}
    BY <2>3 DEF CallInv, Shape, Types, Labels
  <2> QED BY <1>2, <2>2, <2>4 DEF CallInv, Holds
<1> QED BY <1>1, <1>2 DEF Open

\* A step that neither opens a file nor is about to leaves the room as it is.
LEMMA SameRoom ==
  ASSUME Counted, filehandle \in Nat, NEW t \in Tasks, Others(t), pc[t] # "map", pc'[t] # "map",
         UNCHANGED filehandle, \A i \in Iters : iter'[i].live => iter[i].live
  PROVE  Counted'
<1>1. MapTasks(pc') = MapTasks(pc)
  BY DEF MapTasks, Others
<1>2. LiveIters(iter') \subseteq LiveIters(iter) /\ LiveIters(iter) \subseteq Objects
  BY DEF LiveIters, Iters, Objects
<1>3. IsFiniteSet(LiveIters(iter))
  BY <1>2, Constants, FS_Subset
<1>4. /\ Cardinality(LiveIters(iter')) <= Cardinality(LiveIters(iter))
      /\ Cardinality(LiveIters(iter)) \in Nat /\ Cardinality(LiveIters(iter')) \in Nat
  BY <1>2, <1>3, FS_Subset, FS_CardinalityType
<1>5. Cardinality(MapTasks(pc)) \in Nat
  BY FS_CardinalityType DEF Counted
<1> QED BY <1>1, <1>4, <1>5 DEF Counted

-----------------------------------------------------------------------------
(* The steps of the calls                                                    *)

\* A call on a handle begins.
LEMMA CallStep ==
  ASSUME FilesInv, NEW t \in Tasks, NEW h \in own[t], NEW o \in {"read", "fstat", "close", "fcntl"},
         SysCall(t, o, h)
  PROVE  FilesInv' /\ h \in Open /\ (Open' = Open \/ Open' = Open \ {h})
<1> DEFINE L == CASE o = "fcntl" -> "flags"
                  [] o = "close" /\ data[h].custom = Nil -> "unlink"
                  [] OTHER -> "custom"
<1>1. Types /\ Shape /\ Holds /\ Owned /\ Entries /\ Mapping /\ Using /\ Reachable /\ CallInv /\ ListInv
  BY DEF FilesInv, CallInv
<1>2. /\ pc[t] = "idle" /\ Doing(t, L, o, h, Nil) /\ UNCHANGED <<listVars, filehandle, data, iter, leaked>>
      /\ own' = IF o = "close" THEN [own EXCEPT ![t] = @ \ {h}] ELSE own
  BY DEF SysCall
<1>3. /\ L \in Labels /\ o \in Ops /\ L # "idle" /\ L # "map"
      /\ (o = "fcntl" => L = "flags") /\ (o \in {"read", "fstat"} => L = "custom")
      /\ (o = "close" => L \in {"custom", "unlink"}) /\ (L = "unlink" => o = "close" /\ data[h].custom = Nil)
  BY DEF Labels, Ops
<1> HIDE DEF L
<1>4. h \in Handles /\ h \in Listed /\ h \notin leaked
  BY <1>1 DEF Types, Owned
<1>5. CallTypes' /\ Others(t) /\ pc'[t] = L /\ op'[t] = o /\ arg'[t] = h
  BY <1>1, <1>2, <1>3, <1>4, Moved
<1>6. ListInv' /\ Listed' = Listed
  BY <1>1, <1>2, SameList
<1>7. /\ own' \in [Tasks -> SUBSET Handles] /\ \A u \in Tasks : u # t => own'[u] = own[u]
      /\ own'[t] = IF o = "close" THEN own[t] \ {h} ELSE own[t]
  BY <1>1, <1>2 DEF Types
<1>8. Types'
  BY <1>1, <1>2, <1>5, <1>7 DEF Types, CallTypes
<1>9. Shape'
  BY <1>1, <1>3, <1>5 DEF Shape, Others
<1>10. op[t] = "none"
  BY <1>1, <1>2 DEF Shape
<1>11. \A u \in Tasks : op[u] = "close" => arg[u] # h
  BY <1>1 DEF Holds
<1>12. \A u \in Tasks : u # t => h \notin own[u]
  BY <1>1 DEF Owned
<1>13. Holds'
  <2> SUFFICES ASSUME NEW v \in Tasks
               PROVE  /\ op'[v] \in {"read", "fstat", "fcntl"} => arg'[v] \in own'[v]
                      /\ op'[v] = "stat" /\ pc'[v] # "map" => arg'[v] \in leaked'
                      /\ op'[v] = "close" =>
                           /\ arg'[v] \in Listed' /\ arg'[v] \notin leaked'
                           /\ \A u \in Tasks : /\ arg'[v] \notin own'[u]
                                               /\ op'[u] = "close" /\ u # v => arg'[u] # arg'[v]
    BY DEF Holds
  <2>1. CASE v = t
    BY <1>2, <1>4, <1>5, <1>6, <1>7, <1>11, <1>12, <2>1 DEF Others
  <2>2. CASE v # t
    <3>1. /\ op[v] \in {"read", "fstat", "fcntl"} => arg[v] \in own[v]
          /\ op[v] = "stat" /\ pc[v] # "map" => arg[v] \in leaked
          /\ op[v] = "close" =>
               /\ arg[v] \in Listed /\ arg[v] \notin leaked /\ arg[v] # h
               /\ \A u \in Tasks : arg[v] \notin own[u] /\ (op[u] = "close" /\ u # v => arg[u] # arg[v])
      BY <1>1, <1>11 DEF Holds
    <3>2. \A u \in Tasks : own'[u] \subseteq own[u]
      BY <1>7
    <3>3. pc'[v] = pc[v] /\ op'[v] = op[v] /\ arg'[v] = arg[v] /\ own'[v] = own[v]
      BY <1>5, <1>7, <2>2 DEF Others
    <3> QED BY <1>2, <1>5, <1>6, <2>2, <3>1, <3>2, <3>3 DEF Others
  <2> QED BY <2>1, <2>2
<1>14. Owned'
  <2>1. \A u \in Tasks : own'[u] \subseteq own[u]
    BY <1>7
  <2>2. ASSUME NEW g \in Listed PROVE g \in leaked' \/ Closing(g)' \/ \E u \in Tasks : g \in own'[u]
    <3>1. CASE g = h
      BY <1>5, <1>7, <3>1 DEF Closing
    <3>2. CASE g # h
      <4>1. CASE g \in leaked
        BY <1>2, <4>1
      <4>2. CASE Closing(g)
        BY <1>5, <1>10, <4>2 DEF Closing, Others
      <4>3. CASE \E u \in Tasks : g \in own[u]
        BY <1>7, <3>2, <4>3
      <4> QED BY <1>1, <4>1, <4>2, <4>3 DEF Owned
    <3> QED BY <3>1, <3>2
  <2> QED BY <1>1, <1>2, <1>6, <2>1, <2>2 DEF Owned
<1>15. Open' = IF L = "unlink" THEN Open \ {h} ELSE Open
  BY <1>2, <1>5, <1>6 DEF Open, Others
<1>16. Entries'
  BY <1>1, <1>2, <1>15 DEF Entries, HasIter
<1>17. Mapping'
  BY <1>1, <1>2, <1>3, <1>5, <1>15 DEF Mapping, Others
<1>18. Using'
  <2>1. L \notin {"use", "delete"}
    BY DEF L
  <2> QED BY <1>1, <1>2, <1>5, <2>1 DEF Using, Others
<1>19. Reachable'
  <2> SUFFICES ASSUME NEW i \in Iters, iter[i].live
               PROVE  \/ \E g \in Open' : data[g].custom = i
                      \/ \E u \in Tasks : pc'[u] = "map" /\ it'[u] = i
    BY <1>2 DEF Reachable
  <2>1. CASE \E g \in Open : data[g].custom = i
    <3>1. PICK g \in Open : data[g].custom = i
      BY <2>1
    <3>2. i # Nil
      BY FilesAssumption DEF Iters
    <3> QED BY <1>3, <1>15, <3>1, <3>2
  <2>2. CASE \E u \in Tasks : pc[u] = "map" /\ it[u] = i
    BY <1>2, <1>5, <2>2 DEF Others
  <2> QED BY <1>1, <2>1, <2>2 DEF Reachable
<1>20. CallInv'
  BY <1>8, <1>9, <1>13, <1>14, <1>16, <1>17, <1>18, <1>19 DEF CallInv
<1>21. Counted'
  <2>1. Counted /\ filehandle \in Nat
    BY <1>1 DEF FilesInv, ListInv
  <2>2. pc[t] # "map" /\ pc'[t] # "map" /\ UNCHANGED <<filehandle, iter>>
    BY <1>2, <1>3, <1>5
  <2> QED BY <1>5, <2>1, <2>2, SameRoom
<1>22. h \in Open
  <2>1. ASSUME NEW u \in Tasks, pc[u] = "unlink" PROVE arg[u] # h
    BY <1>1, <1>11, <2>1 DEF Shape
  <2> QED BY <1>4, <2>1 DEF Open
<1>23. FilesInv'
  BY <1>6, <1>20, <1>21 DEF FilesInv
<1> QED BY <1>15, <1>22, <1>23

\* A call goes on with its handle, or returns; close() does not return before the handle is
\* taken away.
GoesOn(t, label) ==
  /\ label \in Labels /\ label # "map" /\ pc[t] \notin {"idle", "map", "unlink"}
  /\ label = "custom" => op[t] \in {"stat", "read", "fstat", "close"}
  /\ label = "use" => op[t] \in {"stat", "read", "fstat"}
  /\ label \in {"delete", "unlink"} => op[t] = "close"
  /\ label = "flags" => op[t] = "fcntl"
  /\ label = "idle" => op[t] # "close"

\* What such a step leaves true whatever it does to the Iterators and to the FileData.
LEMMA GoOn ==
  ASSUME FilesInv, NEW t \in Tasks, NEW label, GoesOn(t, label), NEW i \in Iters \cup {Nil},
         Doing(t, label, op[t], arg[t], i), UNCHANGED <<listVars, filehandle, own, leaked>>
  PROVE  /\ ListInv' /\ CallTypes' /\ Shape' /\ Holds' /\ Owned'
         /\ Open' = (IF label = "unlink" THEN Open \ {arg[t]} ELSE Open)
         /\ Others(t) /\ pc'[t] = label /\ (label # "idle" => it'[t] = i /\ arg'[t] = arg[t])
<1>1. Types /\ Shape /\ Holds /\ Owned /\ CallInv /\ ListInv
  BY DEF FilesInv, CallInv
<1>2. op[t] \in Ops /\ arg[t] \in Paths \cup Handles \cup {Nil} /\ label \in Labels
  BY <1>1 DEF Types, GoesOn
<1>3. /\ CallTypes' /\ Others(t) /\ pc'[t] = label
      /\ label = "idle" => op'[t] = "none"
      /\ label # "idle" => op'[t] = op[t] /\ arg'[t] = arg[t] /\ it'[t] = i
  BY <1>1, <1>2, Moved
<1>4. ListInv' /\ Listed' = Listed
  BY <1>1, SameList
<1>5. Shape'
  BY <1>1, <1>3 DEF Shape, Others, GoesOn
<1>6. \A u \in Tasks : op'[u] = "close" => op[u] = "close" /\ arg'[u] = arg[u]
  BY <1>3 DEF Others
<1>7. Holds'
  <2> SUFFICES ASSUME NEW v \in Tasks
               PROVE  /\ op'[v] \in {"read", "fstat", "fcntl"} => arg'[v] \in own[v]
                      /\ op'[v] = "stat" /\ pc'[v] # "map" => arg'[v] \in leaked
                      /\ op'[v] = "close" =>
                           /\ arg'[v] \in Listed /\ arg'[v] \notin leaked
                           /\ \A u \in Tasks : /\ arg'[v] \notin own[u]
                                               /\ op'[u] = "close" /\ u # v => arg'[u] # arg'[v]
    BY <1>4 DEF Holds
  <2>1. /\ op[v] \in {"read", "fstat", "fcntl"} => arg[v] \in own[v]
        /\ op[v] = "stat" /\ pc[v] # "map" => arg[v] \in leaked
        /\ op[v] = "close" =>
             /\ arg[v] \in Listed /\ arg[v] \notin leaked
             /\ \A u \in Tasks : arg[v] \notin own[u] /\ (op[u] = "close" /\ u # v => arg[u] # arg[v])
    BY <1>1 DEF Holds
  <2>2. CASE v = t
    BY <1>3, <1>6, <2>1, <2>2 DEF GoesOn
  <2>3. CASE v # t
    BY <1>3, <1>6, <2>1, <2>3 DEF Others
  <2> QED BY <2>2, <2>3
<1>8. Owned'
  <2>1. ASSUME NEW g, Closing(g) PROVE Closing(g)'
    BY <1>3, <2>1 DEF Closing, Others, GoesOn
  <2> QED BY <1>1, <1>4, <2>1 DEF Owned
<1>9. Open' = IF label = "unlink" THEN Open \ {arg[t]} ELSE Open
  BY <1>3, <1>4 DEF Open, Others, GoesOn
<1> QED BY <1>3, <1>4, <1>5, <1>7, <1>8, <1>9

\* A call looks for the Iterator of its handle.
LEMMA CustomStep ==
  ASSUME FilesInv, NEW t \in Tasks, SysCustom(t)
  PROVE  FilesInv' /\ arg[t] \in Open /\ (Open' = Open \/ Open' = Open \ {arg[t]})
<1> DEFINE custom == data[arg[t]].custom
           L == CASE custom # Nil /\ op[t] = "close" -> "delete"
                  [] custom # Nil /\ op[t] # "close" -> "use"
                  [] custom = Nil /\ op[t] = "close" -> "unlink"
                  [] OTHER -> "idle"
<1>1. Types /\ Shape /\ Holds /\ Owned /\ Entries /\ Mapping /\ Using /\ Reachable /\ CallInv /\ ListInv
  BY DEF FilesInv, CallInv
<1>2. pc[t] = "custom" /\ UNCHANGED <<listVars, filehandle, data, iter, own, leaked>>
  BY DEF SysCustom
<1>3. arg[t] \in Handles /\ Found(arg[t]) # {} /\ arg[t] \in Open
  BY <1>1, <1>2, Working, StillOpen
<1>4. GetCustom(arg[t]) = custom /\ custom \in Iters \cup {Nil}
  BY <1>1, <1>3 DEF GetCustom, Types
<1>5. Doing(t, L, op[t], arg[t], custom)
  BY <1>4 DEF SysCustom
<1>6. op[t] \in {"stat", "read", "fstat", "close"}
  BY <1>1, <1>2 DEF Shape
<1>7. GoesOn(t, L) /\ L \notin {"map", "custom"}
  BY <1>2, <1>6 DEF GoesOn, Labels
<1> HIDE DEF custom
<1>8. (L = "unlink" => custom = Nil) /\ (L \in {"use", "delete"} => custom # Nil)
  <2>1. CASE custom = Nil
    BY <2>1
  <2>2. CASE custom # Nil
    <3>1. L \in {"use", "delete"}
      BY <2>2
    <3> QED BY <2>2, <3>1
  <2> QED BY <2>1, <2>2
<1> HIDE DEF L
<1>9. /\ ListInv' /\ CallTypes' /\ Shape' /\ Holds' /\ Owned'
      /\ Open' = (IF L = "unlink" THEN Open \ {arg[t]} ELSE Open)
      /\ Others(t) /\ pc'[t] = L /\ (L # "idle" => it'[t] = custom /\ arg'[t] = arg[t])
  BY <1>2, <1>4, <1>5, <1>7, GoOn
<1>10. Types'
  BY <1>1, <1>2, <1>9 DEF Types, CallTypes
<1>11. Entries'
  BY <1>1, <1>2, <1>9 DEF Entries, HasIter
<1>12. Mapping'
  BY <1>1, <1>2, <1>7, <1>9 DEF Mapping, Others
<1>13. Using'
  <2> SUFFICES ASSUME NEW u \in Tasks, pc'[u] \in {"use", "delete"}
               PROVE  it'[u] = data[arg'[u]].custom /\ it'[u] \in Iters
    BY <1>2 DEF Using
  <2>1. CASE u = t
    BY <1>4, <1>8, <1>9, <2>1 DEF custom
  <2>2. CASE u # t
    BY <1>1, <1>9, <2>2 DEF Using, Others
  <2> QED BY <2>1, <2>2
<1>14. Reachable'
  <2> SUFFICES ASSUME NEW i \in Iters, iter[i].live
               PROVE  \/ \E g \in Open' : data[g].custom = i
                      \/ \E u \in Tasks : pc'[u] = "map" /\ it'[u] = i
    BY <1>2 DEF Reachable
  <2>1. CASE \E g \in Open : data[g].custom = i
    <3>1. PICK g \in Open : data[g].custom = i
      BY <2>1
    <3>2. i # Nil
      BY FilesAssumption DEF Iters
    <3> QED BY <1>8, <1>9, <3>1, <3>2 DEF custom
  <2>2. CASE \E u \in Tasks : pc[u] = "map" /\ it[u] = i
    BY <1>2, <1>9, <2>2 DEF Others
  <2> QED BY <1>1, <2>1, <2>2 DEF Reachable
<1>15. CallInv'
  BY <1>9, <1>10, <1>11, <1>12, <1>13, <1>14 DEF CallInv
<1>16. Counted'
  <2>1. Counted /\ filehandle \in Nat
    BY <1>1 DEF FilesInv, ListInv
  <2>2. pc[t] # "map" /\ pc'[t] # "map" /\ UNCHANGED <<filehandle, iter>>
    BY <1>2, <1>7, <1>9
  <2> QED BY <1>9, <2>1, <2>2, SameRoom
<1>17. FilesInv'
  BY <1>9, <1>15, <1>16 DEF FilesInv
<1> QED BY <1>3, <1>9, <1>17

\* What a call that uses or deletes an Iterator finds.
LEMMA HasOwnIter ==
  ASSUME CallInv, NEW t \in Tasks, pc[t] \in {"use", "delete"}
  PROVE  /\ arg[t] \in Open /\ arg[t] \in Handles /\ it[t] = data[arg[t]].custom /\ it[t] \in Iters
         /\ it[t] # Nil /\ data[arg[t]].name \in Files /\ HasIter(arg[t])
         /\ \A g \in Open : data[g].custom = it[t] => g = arg[t]
         /\ \A u \in Tasks : pc[u] = "map" => it[u] # it[t]
<1>1. arg[t] \in Open /\ arg[t] \in Handles
  BY Working, StillOpen
<1>2. it[t] = data[arg[t]].custom /\ it[t] \in Iters
  BY DEF CallInv, Using
<1>3. it[t] # Nil
  BY <1>2, FilesAssumption DEF Iters
<1>4. data[arg[t]].name \in Files /\ HasIter(arg[t])
  BY <1>1, <1>2, <1>3 DEF CallInv, Entries
<1>5. \A g \in Open : data[g].custom = it[t] => g = arg[t]
  BY <1>1, <1>2, <1>3 DEF CallInv, Entries
<1>6. \A u \in Tasks : pc[u] = "map" => it[u] # it[t]
  BY <1>1, <1>2, <1>3 DEF CallInv, Mapping
<1> QED BY <1>1, <1>2, <1>3, <1>4, <1>5, <1>6

\* A position never passes the end of its file.
LEMMA Advance ==
  ASSUME NEW x \in Nat, NEW y \in Nat, x <= y, NEW count \in 0..2
  PROVE  Earlier(x + count, y) \in Nat /\ x <= Earlier(x + count, y) /\ Earlier(x + count, y) <= y
BY DEF Earlier

\* What SysUse does to the Iterators.
LEMMA UseIter ==
  ASSUME FilesInv, NEW t \in Tasks, SysUse(t)
  PROVE  /\ iter' \in [Iters -> [live: BOOLEAN, path: Files \cup {Nil}, pos: Nat]]
         /\ \A i \in Iters : /\ iter'[i].live = iter[i].live /\ iter'[i].path = iter[i].path
                             /\ i # it[t] => iter'[i] = iter[i]
         /\ iter[it[t]].pos <= iter'[it[t]].pos /\ iter'[it[t]].pos <= Size[data[arg[t]].name]
         /\ iter[it[t]].pos \in Nat /\ iter'[it[t]].pos \in Nat /\ Size[data[arg[t]].name] \in Nat
<1>1. CallInv /\ pc[t] = "use" /\ iter \in [Iters -> [live: BOOLEAN, path: Files \cup {Nil}, pos: Nat]]
  BY DEF FilesInv, SysUse, CallInv, Types
<1> DEFINE i == it[t]
           end == Size[data[arg[t]].name]
<1>2. /\ i \in Iters /\ data[arg[t]].name \in Files /\ iter[i].path = data[arg[t]].name
      /\ iter[i].pos <= end
  BY <1>1, HasOwnIter DEF HasIter
<1>3. end \in Nat /\ iter[i].pos \in Nat
  BY <1>1, <1>2, FilesAssumption DEF Files
<1> HIDE DEF i, end
<1>4. CASE UNCHANGED iter
  BY <1>1, <1>2, <1>3, <1>4 DEF i, end
<1>5. CASE \E count \in 0..2 : iter' = [iter EXCEPT ![i].pos = Earlier(@ + count, end)]
  <2>1. PICK count \in 0..2 : iter' = [iter EXCEPT ![i].pos = Earlier(@ + count, end)]
    BY <1>5
  <2> DEFINE e == Earlier(iter[i].pos + count, end)
  <2>2. e \in Nat /\ iter[i].pos <= e /\ e <= end
    BY <1>2, <1>3, Advance
  <2> HIDE DEF e
  <2>3. iter' = [iter EXCEPT ![i] = [iter[i] EXCEPT !.pos = e]]
    BY <2>1 DEF e
  <2> QED BY <1>1, <1>2, <1>3, <2>2, <2>3 DEF i, end
<1> QED BY <1>2, <1>4, <1>5 DEF SysUse, i, end

\* A call reads through its Iterator.
LEMMA UseStep ==
  ASSUME FilesInv, NEW t \in Tasks, SysUse(t)
  PROVE  FilesInv' /\ Open' = Open
<1>1. Types /\ Shape /\ Holds /\ Owned /\ Entries /\ Mapping /\ Using /\ Reachable /\ CallInv /\ ListInv
  BY DEF FilesInv, CallInv
<1>2. /\ pc[t] = "use" /\ UNCHANGED <<listVars, filehandle, data, own, leaked>>
      /\ Doing(t, "idle", op[t], arg[t], it[t])
  BY DEF SysUse, Goto
<1>3. GoesOn(t, "idle") /\ it[t] \in Iters \cup {Nil}
  BY <1>1, <1>2 DEF GoesOn, Labels, Shape, Types
<1>4. /\ ListInv' /\ CallTypes' /\ Shape' /\ Holds' /\ Owned' /\ Open' = Open
      /\ Others(t) /\ pc'[t] = "idle"
  BY <1>2, <1>3, GoOn
<1>5. /\ iter' \in [Iters -> [live: BOOLEAN, path: Files \cup {Nil}, pos: Nat]]
      /\ \A i \in Iters : /\ iter'[i].live = iter[i].live /\ iter'[i].path = iter[i].path
                          /\ i # it[t] => iter'[i] = iter[i]
      /\ iter'[it[t]].pos <= Size[data[arg[t]].name]
  BY UseIter
<1>6. /\ \A g \in Open : data[g].custom = it[t] => g = arg[t]
      /\ \A u \in Tasks : pc[u] = "map" => it[u] # it[t]
      /\ arg[t] \in Open /\ it[t] = data[arg[t]].custom
  BY <1>1, <1>2, HasOwnIter
<1>7. Types'
  BY <1>1, <1>2, <1>4, <1>5 DEF Types, CallTypes
<1>8. Entries'
  <2>1. ASSUME NEW h \in Open, HasIter(h) PROVE HasIter(h)'
    <3>1. CASE h = arg[t]
      BY <1>2, <1>5, <1>6, <2>1, <3>1 DEF HasIter
    <3>2. CASE h # arg[t]
      BY <1>2, <1>5, <1>6, <2>1, <3>2 DEF HasIter
    <3> QED BY <3>1, <3>2
  <2> QED BY <1>1, <1>2, <1>4, <2>1 DEF Entries
<1>9. Mapping'
  BY <1>1, <1>2, <1>4, <1>5, <1>6 DEF Mapping, Others
<1>10. Using'
  BY <1>1, <1>2, <1>4 DEF Using, Others
<1>11. Reachable'
  BY <1>1, <1>2, <1>4, <1>5 DEF Reachable, Others
<1>12. CallInv'
  BY <1>4, <1>7, <1>8, <1>9, <1>10, <1>11 DEF CallInv
<1>13. Counted'
  <2>1. Counted /\ filehandle \in Nat
    BY <1>1 DEF FilesInv, ListInv
  <2>2. pc[t] # "map" /\ pc'[t] # "map" /\ UNCHANGED filehandle
    BY <1>2, <1>4
  <2>3. \A i \in Iters : iter'[i].live => iter[i].live
    BY <1>5
  <2> QED BY <1>4, <2>1, <2>2, <2>3, SameRoom
<1> QED BY <1>4, <1>12, <1>13 DEF FilesInv

\* close() deletes the Iterator.
LEMMA DeleteIterStep ==
  ASSUME FilesInv, NEW t \in Tasks, SysDelete(t)
  PROVE  FilesInv' /\ arg[t] \in Open /\ Open' = Open \ {arg[t]}
<1>1. Types /\ Shape /\ Holds /\ Owned /\ Entries /\ Mapping /\ Using /\ Reachable /\ CallInv /\ ListInv
  BY DEF FilesInv, CallInv
<1>2. /\ pc[t] = "delete" /\ UNCHANGED <<listVars, filehandle, data, own, leaked>>
      /\ Doing(t, "unlink", op[t], arg[t], it[t]) /\ iter' = [iter EXCEPT ![it[t]] = NoIter]
  BY DEF SysDelete, Goto
<1>3. GoesOn(t, "unlink") /\ it[t] \in Iters \cup {Nil}
  BY <1>1, <1>2 DEF GoesOn, Labels, Shape, Types
<1>4. /\ ListInv' /\ CallTypes' /\ Shape' /\ Holds' /\ Owned' /\ Open' = Open \ {arg[t]}
      /\ Others(t) /\ pc'[t] = "unlink"
  BY <1>2, <1>3, GoOn
<1>5. /\ \A g \in Open : data[g].custom = it[t] => g = arg[t]
      /\ \A u \in Tasks : pc[u] = "map" => it[u] # it[t]
      /\ arg[t] \in Open /\ it[t] = data[arg[t]].custom /\ it[t] \in Iters
  BY <1>1, <1>2, HasOwnIter
<1>6. /\ iter' \in [Iters -> [live: BOOLEAN, path: Files \cup {Nil}, pos: Nat]]
      /\ ~iter'[it[t]].live /\ \A i \in Iters : i # it[t] => iter'[i] = iter[i]
  BY <1>1, <1>2, <1>5 DEF Types, NoIter
<1>7. Types'
  BY <1>1, <1>2, <1>4, <1>6 DEF Types, CallTypes
<1>8. Entries'
  BY <1>1, <1>2, <1>4, <1>5, <1>6 DEF Entries, HasIter
<1>9. Mapping'
  BY <1>1, <1>2, <1>4, <1>5, <1>6 DEF Mapping, Others
<1>10. Using'
  BY <1>1, <1>2, <1>4 DEF Using, Others
<1>11. Reachable'
  BY <1>1, <1>2, <1>4, <1>5, <1>6 DEF Reachable, Others
<1>12. CallInv'
  BY <1>4, <1>7, <1>8, <1>9, <1>10, <1>11 DEF CallInv
<1>13. Counted'
  <2>1. Counted /\ filehandle \in Nat
    BY <1>1 DEF FilesInv, ListInv
  <2>2. pc[t] # "map" /\ pc'[t] # "map" /\ UNCHANGED filehandle
    BY <1>2, <1>4
  <2>3. \A i \in Iters : iter'[i].live => iter[i].live
    BY <1>6
  <2> QED BY <1>4, <2>1, <2>2, <2>3, SameRoom
<1> QED BY <1>4, <1>5, <1>12, <1>13 DEF FilesInv

\* fcntl() sets the flags of its handle.
LEMMA FlagsStep ==
  ASSUME FilesInv, NEW t \in Tasks, SysFlags(t)
  PROVE  /\ FilesInv' /\ Open' = Open /\ arg[t] \in Open /\ arg[t] \in Handles
         /\ \E f \in {0, 1} : data' = [data EXCEPT ![arg[t]] = [data[arg[t]] EXCEPT !.fcntl = f]]
<1>1. Types /\ Shape /\ Holds /\ Owned /\ Entries /\ Mapping /\ Using /\ Reachable /\ CallInv /\ ListInv
  BY DEF FilesInv, CallInv
<1>2. /\ pc[t] = "flags" /\ UNCHANGED <<listVars, filehandle, iter, own, leaked>>
      /\ Doing(t, "idle", op[t], arg[t], it[t])
  BY DEF SysFlags, Goto
<1>3. GoesOn(t, "idle") /\ it[t] \in Iters \cup {Nil}
  BY <1>1, <1>2 DEF GoesOn, Labels, Shape, Types
<1>4. /\ ListInv' /\ CallTypes' /\ Shape' /\ Holds' /\ Owned' /\ Open' = Open
      /\ Others(t) /\ pc'[t] = "idle"
  BY <1>2, <1>3, GoOn
<1>5. arg[t] \in Open /\ arg[t] \in Handles /\ Found(arg[t]) # {}
  BY <1>1, <1>2, Working, StillOpen
<1>6. PICK f \in {0, 1} : data' = [data EXCEPT ![arg[t]] = [data[arg[t]] EXCEPT !.fcntl = f]]
  BY <1>5 DEF SysFlags
<1>7. /\ data' \in [Handles -> [name: Paths \cup {Nil}, custom: Iters \cup {Nil}, fcntl: {0, 1}]]
      /\ \A h \in Handles : data'[h].name = data[h].name /\ data'[h].custom = data[h].custom
  BY <1>1, <1>5, <1>6 DEF Types
<1>8. Open \subseteq Handles
  BY DEF Open, Listed
<1>9. Types'
  BY <1>1, <1>2, <1>4, <1>7 DEF Types, CallTypes
<1>10. Entries'
  BY <1>1, <1>2, <1>4, <1>7, <1>8 DEF Entries, HasIter
<1>11. Mapping'
  BY <1>1, <1>2, <1>4, <1>7, <1>8 DEF Mapping, Others
<1>12. Using'
  <2> SUFFICES ASSUME NEW u \in Tasks, pc'[u] \in {"use", "delete"}
               PROVE  it'[u] = data'[arg'[u]].custom /\ it'[u] \in Iters
    BY DEF Using
  <2>1. u # t /\ pc[u] \in {"use", "delete"} /\ it'[u] = it[u] /\ arg'[u] = arg[u]
    BY <1>4 DEF Others
  <2>2. arg[u] \in Handles /\ it[u] = data[arg[u]].custom /\ it[u] \in Iters
    BY <1>1, <2>1, HasOwnIter
  <2> QED BY <1>7, <2>1, <2>2
<1>13. Reachable'
  BY <1>1, <1>2, <1>4, <1>7, <1>8 DEF Reachable, Others
<1>14. CallInv'
  BY <1>4, <1>9, <1>10, <1>11, <1>12, <1>13 DEF CallInv
<1>15. Counted'
  <2>1. Counted /\ filehandle \in Nat
    BY <1>1 DEF FilesInv, ListInv
  <2>2. pc[t] # "map" /\ pc'[t] # "map" /\ UNCHANGED <<filehandle, iter>>
    BY <1>2, <1>4
  <2> QED BY <1>4, <2>1, <2>2, SameRoom
<1>16. FilesInv'
  BY <1>4, <1>14, <1>15 DEF FilesInv
<1> QED BY <1>4, <1>5, <1>6, <1>16

\* open() makes an Iterator that nobody has.
LEMMA OpenStep ==
  ASSUME FilesInv, NEW t \in Tasks, NEW path \in Paths, SysOpen(t, path)
  PROVE  /\ FilesInv' /\ Open' = Open /\ UNCHANGED <<data, filehandle>>
         /\ \A h \in Open : data[h].custom # Nil => iter'[data[h].custom] = iter[data[h].custom]
<1> DEFINE i == IF path \in Devices THEN Nil ELSE CHOOSE j \in Iters : ~iter[j].live
<1>1. Types /\ Shape /\ Holds /\ Owned /\ Entries /\ Mapping /\ Using /\ Reachable /\ CallInv /\ ListInv
      /\ Counted /\ filehandle \in Nat
  BY DEF FilesInv, CallInv, ListInv
<1>2. PICK o \in {"open", "stat"} : Doing(t, "map", o, path, i)
  BY DEF SysOpen
<1>3. /\ pc[t] = "idle" /\ path \in Devices \cup Files /\ Room
      /\ iter' = [j \in Iters |-> IF j = i THEN [live |-> TRUE, path |-> path, pos |-> 0] ELSE iter[j]]
      /\ UNCHANGED <<listVars, filehandle, data, own, leaked>>
  BY DEF SysOpen
<1> DEFINE M == MapTasks(pc)
           I == LiveIters(iter)
<1>4. /\ IsFiniteSet(M) /\ Cardinality(M) \in Nat /\ filehandle + Cardinality(M) < MaxHandles + 2
      /\ Cardinality(I) <= filehandle - 2 + Cardinality(M)
  <2>1. filehandle + Cardinality(M) < MaxHandles + 2
    BY <1>3 DEF Room, MapTasks
  <2> QED BY <1>1, <2>1, FS_CardinalityType DEF Counted
<1>5. IsFiniteSet(I) /\ Cardinality(I) \in Nat /\ I \subseteq Objects /\ Iters = Objects
  <2>1. I \subseteq Objects
    BY DEF LiveIters, Iters, Objects
  <2> QED BY <2>1, Constants, FS_Subset, FS_CardinalityType DEF Iters, Objects
<1>6. /\ i \in Iters \cup {Nil} /\ Nil \notin Iters
      /\ (path \in Devices => i = Nil) /\ (path \notin Devices => i \in Iters /\ ~iter[i].live)
  <2>1. Cardinality(I) # Cardinality(Objects)
    BY <1>1, <1>4, <1>5, Constants
  <2>2. I # Objects
    BY <2>1
  <2>3. \E j \in Iters : ~iter[j].live
    BY <1>5, <2>2 DEF LiveIters
  <2>4. Nil \notin Iters
    BY <1>5, Constants
  <2> QED BY <2>3, <2>4
<1> HIDE DEF i
<1>7. "map" \in Labels /\ o \in Ops /\ path \in Paths \cup Handles \cup {Nil} /\ "map" # "idle"
  BY DEF Labels, Ops
<1>8. CallTypes' /\ Others(t) /\ pc'[t] = "map" /\ op'[t] = o /\ arg'[t] = path /\ it'[t] = i
  BY <1>1, <1>2, <1>6, <1>7, Moved
<1>9. ListInv' /\ Listed' = Listed
  BY <1>1, <1>3, SameList
<1>10. Open' = Open
  BY <1>3, <1>8, <1>9 DEF Open, Others
<1>11. /\ \A j \in Iters : j # i => iter'[j] = iter[j]
       /\ i \in Iters => iter'[i] = [live |-> TRUE, path |-> path, pos |-> 0]
  BY <1>3
<1>12. iter' \in [Iters -> [live: BOOLEAN, path: Files \cup {Nil}, pos: Nat]]
  <2>1. ASSUME NEW j \in Iters PROVE iter'[j] \in [live: BOOLEAN, path: Files \cup {Nil}, pos: Nat]
    <3>1. CASE j = i
      <4>1. path \in Files
        BY <1>3, <1>6, <3>1
      <4>2. [live |-> TRUE, path |-> path, pos |-> 0] \in [live: BOOLEAN, path: Files \cup {Nil}, pos: Nat]
        BY <4>1
      <4>3. iter'[j] = [live |-> TRUE, path |-> path, pos |-> 0]
        BY <1>11, <3>1
      <4> QED BY <4>2, <4>3
    <3>2. CASE j # i
      BY <1>1, <1>11, <3>2 DEF Types
    <3> QED BY <3>1, <3>2
  <2>2. iter' = [j \in Iters |-> iter'[j]]
    BY <1>3
  <2> QED BY <2>1, <2>2
<1>13. /\ \A h \in Open : data[h].custom # Nil => data[h].custom # i /\ data[h].custom \in Iters
       /\ \A u \in Tasks : pc[u] = "map" => it[u] \in Iters \cup {Nil} /\ (it[u] # Nil => it[u] # i)
  <2>1. ASSUME NEW h \in Open, data[h].custom # Nil PROVE data[h].custom # i /\ data[h].custom \in Iters
    BY <1>1, <1>6, <2>1 DEF Entries, HasIter
  <2>2. ASSUME NEW u \in Tasks, pc[u] = "map", it[u] # Nil PROVE it[u] # i
    BY <1>1, <1>6, <2>2 DEF Mapping
  <2>3. \A u \in Tasks : it[u] \in Iters \cup {Nil}
    BY <1>1 DEF Types
  <2> QED BY <2>1, <2>2, <2>3
<1>14. Types'
  BY <1>1, <1>3, <1>8, <1>12 DEF Types, CallTypes
<1>15. Shape'
  BY <1>1, <1>3, <1>8 DEF Shape, Others
<1>16. op[t] = "none"
  BY <1>1, <1>3 DEF Shape
<1>17. \A u \in Tasks : op'[u] = "close" => op[u] = "close" /\ arg'[u] = arg[u] /\ u # t
  BY <1>8 DEF Others
<1>18. Holds'
  <2> SUFFICES ASSUME NEW v \in Tasks
               PROVE  /\ op'[v] \in {"read", "fstat", "fcntl"} => arg'[v] \in own[v]
                      /\ op'[v] = "stat" /\ pc'[v] # "map" => arg'[v] \in leaked
                      /\ op'[v] = "close" =>
                           /\ arg'[v] \in Listed /\ arg'[v] \notin leaked
                           /\ \A u \in Tasks : /\ arg'[v] \notin own[u]
                                               /\ op'[u] = "close" /\ u # v => arg'[u] # arg'[v]
    BY <1>3, <1>9 DEF Holds
  <2>1. /\ op[v] \in {"read", "fstat", "fcntl"} => arg[v] \in own[v]
        /\ op[v] = "stat" /\ pc[v] # "map" => arg[v] \in leaked
        /\ op[v] = "close" =>
             /\ arg[v] \in Listed /\ arg[v] \notin leaked
             /\ \A u \in Tasks : arg[v] \notin own[u] /\ (op[u] = "close" /\ u # v => arg[u] # arg[v])
    BY <1>1 DEF Holds
  <2>2. CASE v = t
    BY <1>8, <2>2
  <2>3. CASE v # t
    BY <1>8, <1>17, <2>1, <2>3 DEF Others
  <2> QED BY <2>2, <2>3
<1>19. Owned'
  <2>1. ASSUME NEW g, Closing(g) PROVE Closing(g)'
    BY <1>8, <1>16, <2>1 DEF Closing, Others
  <2> QED BY <1>1, <1>3, <1>9, <2>1 DEF Owned
<1>20. Entries'
  <2>1. ASSUME NEW h \in Open, HasIter(h) PROVE HasIter(h)'
    BY <1>3, <1>6, <1>11, <1>13, <2>1 DEF HasIter
  <2> QED BY <1>1, <1>3, <1>10, <2>1 DEF Entries
<1>21. Mapping'
  <2> SUFFICES ASSUME NEW v \in Tasks, pc'[v] = "map"
               PROVE  \/ arg'[v] \in Devices /\ it'[v] = Nil
                      \/ /\ arg'[v] \in Files /\ it'[v] \in Iters
                         /\ iter'[it'[v]].live /\ iter'[it'[v]].path = arg'[v] /\ iter'[it'[v]].pos = 0
                         /\ \A h \in Open : data[h].custom # it'[v]
                         /\ \A u \in Tasks : pc'[u] = "map" /\ u # v => it'[u] # it'[v]
    BY <1>3, <1>10 DEF Mapping
  <2>1. CASE v = t
    <3>1. CASE path \in Devices
      BY <1>6, <1>8, <2>1, <3>1
    <3>2. CASE path \notin Devices
      <4>1. path \in Files /\ i \in Iters /\ i # Nil
        BY <1>3, <1>6, <3>2
      <4>2. iter'[i].live /\ iter'[i].path = path /\ iter'[i].pos = 0
        BY <1>11, <4>1
      <4>3. \A h \in Open : data[h].custom # i
        BY <1>13, <4>1
      <4>4. \A u \in Tasks : pc'[u] = "map" /\ u # t => it'[u] # i
        BY <1>8, <1>13, <4>1 DEF Others
      <4> QED BY <1>8, <2>1, <4>1, <4>2, <4>3, <4>4
    <3> QED BY <3>1, <3>2
  <2>2. CASE v # t
    <3>1. pc[v] = "map" /\ arg'[v] = arg[v] /\ it'[v] = it[v]
      BY <1>8, <2>2 DEF Others
    <3>2. CASE arg[v] \in Devices /\ it[v] = Nil
      BY <3>1, <3>2
    <3>3. CASE it[v] \in Iters
      <4>1. /\ arg[v] \in Files /\ iter[it[v]].live /\ iter[it[v]].path = arg[v] /\ iter[it[v]].pos = 0
            /\ \A h \in Open : data[h].custom # it[v]
            /\ \A u \in Tasks : pc[u] = "map" /\ u # v => it[u] # it[v]
        BY <1>1, <1>6, <3>1, <3>3 DEF Mapping
      <4>2. it[v] # i /\ iter'[it[v]] = iter[it[v]]
        BY <1>6, <1>11, <1>13, <3>1, <3>3
      <4>3. \A u \in Tasks : pc'[u] = "map" /\ u # v => it'[u] # it[v]
        BY <1>8, <4>1, <4>2 DEF Others
      <4> QED BY <3>1, <3>3, <4>1, <4>2, <4>3
    <3> QED BY <1>1, <3>1, <3>2, <3>3 DEF Mapping
  <2> QED BY <2>1, <2>2
<1>22. Using'
  BY <1>1, <1>3, <1>8 DEF Using, Others
<1>23. Reachable'
  <2> SUFFICES ASSUME NEW j \in Iters, iter'[j].live
               PROVE  \/ \E g \in Open : data[g].custom = j
                      \/ \E u \in Tasks : pc'[u] = "map" /\ it'[u] = j
    BY <1>3, <1>10 DEF Reachable
  <2>1. CASE j = i
    BY <1>8, <2>1
  <2>2. CASE j # i
    <3>1. iter[j].live
      BY <1>11, <2>2
    <3>2. CASE \E u \in Tasks : pc[u] = "map" /\ it[u] = j
      BY <1>3, <1>8, <3>2 DEF Others
    <3> QED BY <1>1, <3>1, <3>2 DEF Reachable
  <2> QED BY <2>1, <2>2
<1>24. Counted'
  <2>1. MapTasks(pc') = M \cup {t} /\ t \notin M
    BY <1>3, <1>8 DEF MapTasks, Others
  <2>2. IsFiniteSet(MapTasks(pc')) /\ Cardinality(MapTasks(pc')) = Cardinality(M) + 1
    BY <1>4, <2>1, FS_AddElement
  <2>3. LiveIters(iter') \subseteq I \cup {i}
    BY <1>11 DEF LiveIters
  <2>4. IsFiniteSet(I \cup {i}) /\ Cardinality(I \cup {i}) <= Cardinality(I) + 1
        /\ Cardinality(I \cup {i}) \in Nat
    <3>1. IsFiniteSet(I \cup {i})
          /\ Cardinality(I \cup {i}) = IF i \in I THEN Cardinality(I) ELSE Cardinality(I) + 1
      BY <1>5, FS_AddElement
    <3> QED BY <1>5, <3>1
  <2>5. Cardinality(LiveIters(iter')) <= Cardinality(I) + 1 /\ Cardinality(LiveIters(iter')) \in Nat
    <3>1. /\ Cardinality(LiveIters(iter')) <= Cardinality(I \cup {i})
          /\ Cardinality(LiveIters(iter')) \in Nat
      BY <2>3, <2>4, FS_Subset, FS_CardinalityType
    <3> QED BY <1>5, <2>4, <3>1
  <2>6. filehandle' = filehandle /\ MaxHandles \in Nat
    BY <1>3, Constants
  <2> HIDE DEF M, I
  <2> QED BY <1>1, <1>4, <1>5, <2>2, <2>5, <2>6 DEF Counted
<1>25. CallInv'
  BY <1>14, <1>15, <1>18, <1>19, <1>20, <1>21, <1>22, <1>23 DEF CallInv
<1>26. FilesInv'
  BY <1>9, <1>24, <1>25 DEF FilesInv
<1> QED BY <1>3, <1>10, <1>11, <1>13, <1>26

\* mapfile() enters the file and its Iterator under a new handle.
LEMMA MapStep ==
  ASSUME FilesInv, NEW t \in Tasks, SysMap(t)
  PROVE  /\ FilesInv' /\ UNCHANGED iter
         /\ filehandle' = filehandle + 1 /\ filehandle + 1 \in Handles
         /\ Open' = Open \cup {filehandle + 1} /\ filehandle + 1 \notin Open
         /\ arg[t] \in Paths /\ it[t] \in Iters \cup {Nil} /\ (it[t] # Nil => iter[it[t]].pos = 0)
         /\ data' = [data EXCEPT ![filehandle + 1] = [name |-> arg[t], custom |-> it[t], fcntl |-> 0]]
<1>0. PICK h : h = filehandle + 1
  OBVIOUS
<1> DEFINE L == IF op[t] = "stat" THEN "custom" ELSE "idle"
           new == [name |-> arg[t], custom |-> it[t], fcntl |-> 0]
           M == MapTasks(pc)
<1>1. Types /\ Shape /\ Holds /\ Owned /\ Entries /\ Mapping /\ Using /\ Reachable /\ CallInv /\ ListInv
      /\ Counted /\ filehandle \in Nat
  BY DEF FilesInv, CallInv, ListInv
<1>2. /\ pc[t] = "map" /\ filehandle' = h /\ data' = [data EXCEPT ![h] = new] /\ ListAppend(h)
      /\ Doing(t, L, op[t], h, Nil) /\ UNCHANGED iter
      /\ own' = (IF op[t] = "stat" THEN own ELSE [own EXCEPT ![t] = @ \cup {h}])
      /\ leaked' = IF op[t] = "stat" THEN leaked \cup {h} ELSE leaked
  BY <1>0 DEF SysMap, MapFile
<1>3. IsFiniteSet(M) /\ t \in M /\ Cardinality(M) \in Nat /\ Cardinality(M) # 0
  <2>1. IsFiniteSet(M) /\ t \in M
    BY <1>1, <1>2 DEF Counted, MapTasks
  <2> QED BY <2>1, FS_CardinalityType, FS_EmptySet
<1>4. filehandle < MaxHandles + 2 /\ MaxHandles \in Nat
  BY <1>1, <1>3, Constants DEF Counted
<1>5. ListInv' /\ Listed' = Listed \cup {h} /\ h \notin Listed
  BY <1>0, <1>1, <1>2, <1>4, AppendStep
<1>6. h \in Handles /\ h \in Paths \cup Handles \cup {Nil}
  <2>1. h \in 3..MaxHandles + 2
    BY <1>0, <1>1, <1>4 DEF ListInv
  <2> QED BY <2>1 DEF Handles
<1>7. /\ arg[t] \in Devices \cup Files /\ op[t] \in {"open", "stat"} /\ L \in Labels /\ op[t] \in Ops
      /\ L \in {"custom", "idle"}
  BY <1>1, <1>2 DEF Shape, Types, Labels
<1>8. arg[t] \in Paths /\ it[t] \in Iters \cup {Nil} /\ Nil \notin Iters
  BY <1>1, <1>7, FilesAssumption, Constants DEF Types, Files, Iters, Objects
<1>9. /\ CallTypes' /\ Others(t) /\ pc'[t] = L /\ (L = "idle" => op'[t] = "none")
      /\ L # "idle" => op'[t] = op[t] /\ arg'[t] = h
  BY <1>1, <1>2, <1>6, <1>7, Moved
<1>10. new \in [name: Paths \cup {Nil}, custom: Iters \cup {Nil}, fcntl: {0, 1}]
  BY <1>8
<1>11. /\ data' \in [Handles -> [name: Paths \cup {Nil}, custom: Iters \cup {Nil}, fcntl: {0, 1}]]
       /\ data'[h] = new /\ \A g \in Handles : g # h => data'[g] = data[g]
  BY <1>1, <1>2, <1>6, <1>10 DEF Types
<1>12. data'[h].name = arg[t] /\ data'[h].custom = it[t]
  BY <1>11
<1> HIDE DEF new
<1>13. /\ own' \in [Tasks -> SUBSET Handles] /\ leaked' \in SUBSET Handles
       /\ leaked \subseteq leaked' /\ leaked' \subseteq leaked \cup {h}
       /\ \A u \in Tasks : own[u] \subseteq own'[u] /\ own'[u] \subseteq own[u] \cup {h}
                           /\ (u # t => own'[u] = own[u])
       /\ op[t] = "stat" => h \in leaked' /\ own' = own
       /\ op[t] # "stat" => leaked' = leaked /\ h \in own'[t]
  <2>1. CASE op[t] = "stat"
    BY <1>1, <1>2, <1>6, <2>1 DEF Types
  <2>2. CASE op[t] # "stat"
    BY <1>1, <1>2, <1>6, <2>2 DEF Types
  <2> QED BY <2>1, <2>2
<1>14. h \notin leaked /\ \A u \in Tasks : h \notin own[u]
  BY <1>1, <1>5 DEF Owned
<1>15. \A u \in Tasks : op[u] = "close" => arg[u] # h
  BY <1>1, <1>5 DEF Holds
<1>16. L = "custom" <=> op[t] = "stat"
  OBVIOUS
<1> HIDE DEF L
<1>17. Types'
  BY <1>1, <1>2, <1>9, <1>11, <1>13 DEF Types, CallTypes
<1>18. Shape'
  BY <1>1, <1>7, <1>9, <1>16 DEF Shape, Others
<1>19. \A u \in Tasks : op'[u] = "close" => op[u] = "close" /\ arg'[u] = arg[u] /\ u # t
  BY <1>7, <1>9 DEF Others
<1>20. Holds'
  <2> SUFFICES ASSUME NEW v \in Tasks
               PROVE  /\ op'[v] \in {"read", "fstat", "fcntl"} => arg'[v] \in own'[v]
                      /\ op'[v] = "stat" /\ pc'[v] # "map" => arg'[v] \in leaked'
                      /\ op'[v] = "close" =>
                           /\ arg'[v] \in Listed' /\ arg'[v] \notin leaked'
                           /\ \A u \in Tasks : /\ arg'[v] \notin own'[u]
                                               /\ op'[u] = "close" /\ u # v => arg'[u] # arg'[v]
    BY DEF Holds
  <2>1. CASE v = t
    BY <1>7, <1>9, <1>13, <1>16, <2>1
  <2>2. CASE v # t
    <3>1. /\ op[v] \in {"read", "fstat", "fcntl"} => arg[v] \in own[v]
          /\ op[v] = "stat" /\ pc[v] # "map" => arg[v] \in leaked
          /\ op[v] = "close" =>
               /\ arg[v] \in Listed /\ arg[v] \notin leaked /\ arg[v] # h
               /\ \A u \in Tasks : arg[v] \notin own[u] /\ (op[u] = "close" /\ u # v => arg[u] # arg[v])
      BY <1>1, <1>15 DEF Holds
    <3>2. pc'[v] = pc[v] /\ op'[v] = op[v] /\ arg'[v] = arg[v] /\ own'[v] = own[v]
      BY <1>9, <1>13, <2>2 DEF Others
    <3> QED BY <1>5, <1>13, <1>19, <3>1, <3>2
  <2> QED BY <2>1, <2>2
<1>21. Owned'
  <2>1. ASSUME NEW g, Closing(g) PROVE Closing(g)'
    BY <1>7, <1>9, <2>1 DEF Closing, Others
  <2>2. ASSUME NEW u \in Tasks PROVE own'[u] \subseteq Listed' /\ own'[u] \cap leaked' = {}
    <3>1. own[u] \subseteq Listed /\ own[u] \cap leaked = {}
      BY <1>1 DEF Owned
    <3>2. own'[u] \subseteq Listed'
      BY <1>5, <1>13, <3>1
    <3>3. ASSUME NEW x \in own'[u], x \in leaked' PROVE FALSE
      <4>1. x \in own[u] \/ x = h
        BY <1>13
      <4>2. x \in leaked \/ x = h
        BY <1>13, <3>3
      <4>3. x # h
        <5>1. CASE op[t] = "stat"
          BY <1>13, <1>14, <3>3, <5>1
        <5>2. CASE op[t] # "stat"
          BY <1>13, <1>14, <3>3, <5>2
        <5> QED BY <5>1, <5>2
      <4> QED BY <3>1, <4>1, <4>2, <4>3
    <3> QED BY <3>2, <3>3
  <2>3. ASSUME NEW u \in Tasks, NEW v \in Tasks, u # v PROVE own'[u] \cap own'[v] = {}
    <3>1. own[u] \cap own[v] = {}
      BY <1>1, <2>3 DEF Owned
    <3>2. CASE u = t
      BY <1>13, <1>14, <2>3, <3>1, <3>2
    <3>3. CASE u # t
      BY <1>13, <1>14, <2>3, <3>1, <3>3
    <3> QED BY <3>2, <3>3
  <2>4. ASSUME NEW g \in Listed' PROVE g \in leaked' \/ Closing(g)' \/ \E u \in Tasks : g \in own'[u]
    <3>1. CASE g = h
      BY <1>13, <3>1
    <3>2. CASE g # h
      <4>1. g \in Listed
        BY <1>5, <3>2
      <4> QED BY <1>1, <1>13, <2>1, <4>1 DEF Owned
    <3> QED BY <3>1, <3>2
  <2>5. leaked' \subseteq Listed'
    BY <1>1, <1>5, <1>13 DEF Owned
  <2> QED BY <2>2, <2>3, <2>4, <2>5 DEF Owned
<1>22. Open' = Open \cup {h} /\ h \notin Open /\ Open \subseteq Handles
  <2>1. \A u \in Tasks : pc[u] = "unlink" => arg[u] # h /\ u # t
    BY <1>1, <1>2, <1>15 DEF Shape
  <2>2. \A u \in Tasks : pc'[u] = "unlink" <=> pc[u] = "unlink"
    BY <1>2, <1>7, <1>9 DEF Others
  <2>3. \A u \in Tasks : pc[u] = "unlink" => arg'[u] = arg[u]
    BY <1>9, <2>1 DEF Others
  <2> QED BY <1>5, <2>1, <2>2, <2>3 DEF Open, Listed
<1>23. \A g \in Open : data'[g] = data[g] /\ g # h /\ g \in Handles
  BY <1>11, <1>22
<1>24. \/ arg[t] \in Devices /\ it[t] = Nil
       \/ /\ arg[t] \in Files /\ it[t] \in Iters
          /\ iter[it[t]].live /\ iter[it[t]].path = arg[t] /\ iter[it[t]].pos = 0
          /\ \A g \in Open : data[g].custom # it[t]
          /\ \A u \in Tasks : pc[u] = "map" /\ u # t => it[u] # it[t]
  BY <1>1, <1>2 DEF Mapping
<1>25. Entries'
  <2>1. ASSUME NEW g \in Open
        PROVE  \/ data'[g].name \in Devices /\ data'[g].custom = Nil
               \/ data'[g].name \in Files /\ HasIter(g)'
    BY <1>1, <1>2, <1>23, <2>1 DEF Entries, HasIter
  <2>2. \/ data'[h].name \in Devices /\ data'[h].custom = Nil
        \/ data'[h].name \in Files /\ HasIter(h)'
    <3>1. CASE arg[t] \in Devices /\ it[t] = Nil
      BY <1>12, <3>1
    <3>2. CASE arg[t] \in Files /\ it[t] \in Iters
      <4>1. iter[it[t]].live /\ iter[it[t]].path = arg[t] /\ iter[it[t]].pos = 0
        BY <1>8, <1>24, <3>2
      <4>2. Size[arg[t]] \in Nat
        BY <3>2, FilesAssumption DEF Files
      <4> QED BY <1>2, <1>12, <3>2, <4>1, <4>2 DEF HasIter
    <3> QED BY <1>24, <3>1, <3>2
  <2>3. \A f, g \in Open : data'[f].custom = data'[g].custom /\ data'[f].custom # Nil => f = g
    BY <1>1, <1>23 DEF Entries
  <2>4. \A g \in Open : data'[g].custom # data'[h].custom \/ data'[h].custom = Nil
    BY <1>12, <1>23, <1>24
  <2> QED BY <1>22, <2>1, <2>2, <2>3, <2>4 DEF Entries
<1>26. Mapping'
  <2> SUFFICES ASSUME NEW v \in Tasks, pc'[v] = "map"
               PROVE  \/ arg'[v] \in Devices /\ it'[v] = Nil
                      \/ /\ arg'[v] \in Files /\ it'[v] \in Iters
                         /\ iter[it'[v]].live /\ iter[it'[v]].path = arg'[v] /\ iter[it'[v]].pos = 0
                         /\ \A g \in Open' : data'[g].custom # it'[v]
                         /\ \A u \in Tasks : pc'[u] = "map" /\ u # v => it'[u] # it'[v]
    BY <1>2 DEF Mapping
  <2>1. v # t /\ pc[v] = "map" /\ arg'[v] = arg[v] /\ it'[v] = it[v]
    BY <1>7, <1>9 DEF Others
  <2>2. CASE arg[v] \in Devices /\ it[v] = Nil
    BY <2>1, <2>2
  <2>3. CASE it[v] \in Iters
    <3>1. /\ arg[v] \in Files /\ iter[it[v]].live /\ iter[it[v]].path = arg[v] /\ iter[it[v]].pos = 0
          /\ \A g \in Open : data[g].custom # it[v]
          /\ \A u \in Tasks : pc[u] = "map" /\ u # v => it[u] # it[v]
      BY <1>1, <1>8, <2>1, <2>3 DEF Mapping
    <3>2. \A g \in Open' : data'[g].custom # it[v]
      BY <1>2, <1>12, <1>22, <1>23, <2>1, <3>1
    <3>3. \A u \in Tasks : pc'[u] = "map" /\ u # v => it'[u] # it[v]
      BY <1>7, <1>9, <3>1 DEF Others
    <3> QED BY <2>1, <2>3, <3>1, <3>2, <3>3
  <2> QED BY <1>1, <2>1, <2>2, <2>3 DEF Mapping
<1>27. Using'
  <2> SUFFICES ASSUME NEW u \in Tasks, pc'[u] \in {"use", "delete"}
               PROVE  it'[u] = data'[arg'[u]].custom /\ it'[u] \in Iters
    BY DEF Using
  <2>1. u # t /\ pc[u] \in {"use", "delete"} /\ it'[u] = it[u] /\ arg'[u] = arg[u]
    BY <1>7, <1>9 DEF Others
  <2>2. arg[u] \in Open /\ it[u] = data[arg[u]].custom /\ it[u] \in Iters
    BY <1>1, <2>1, HasOwnIter
  <2> QED BY <1>23, <2>1, <2>2
<1>28. Reachable'
  <2> SUFFICES ASSUME NEW j \in Iters, iter[j].live
               PROVE  \/ \E g \in Open' : data'[g].custom = j
                      \/ \E u \in Tasks : pc'[u] = "map" /\ it'[u] = j
    BY <1>2 DEF Reachable
  <2>1. CASE \E g \in Open : data[g].custom = j
    BY <1>22, <1>23, <2>1
  <2>2. CASE \E u \in Tasks : pc[u] = "map" /\ it[u] = j
    <3>1. PICK u \in Tasks : pc[u] = "map" /\ it[u] = j
      BY <2>2
    <3>2. CASE u = t
      BY <1>12, <1>22, <3>1, <3>2
    <3>3. CASE u # t
      BY <1>9, <3>1, <3>3 DEF Others
    <3> QED BY <3>2, <3>3
  <2> QED BY <1>1, <2>1, <2>2 DEF Reachable
<1>29. Counted'
  <2>1. MapTasks(pc') = M \ {t}
    BY <1>7, <1>9 DEF MapTasks, Others
  <2>2. IsFiniteSet(MapTasks(pc')) /\ Cardinality(MapTasks(pc')) = Cardinality(M) - 1
    BY <1>3, <2>1, FS_RemoveElement
  <2>3. filehandle' = filehandle + 1 /\ MaxHandles \in Nat
    BY <1>0, <1>2, Constants
  <2>4. Cardinality(LiveIters(iter)) \in Nat
    <3>1. LiveIters(iter) \subseteq Objects
      BY DEF LiveIters, Iters, Objects
    <3> QED BY <3>1, Constants, FS_Subset, FS_CardinalityType
  <2>5. /\ filehandle + Cardinality(M) <= MaxHandles + 2
        /\ Cardinality(LiveIters(iter)) <= filehandle - 2 + Cardinality(M)
    BY <1>1 DEF Counted
  <2> HIDE DEF M
  <2>6. /\ filehandle + 1 + (Cardinality(M) - 1) <= MaxHandles + 2
        /\ Cardinality(LiveIters(iter)) <= filehandle + 1 - 2 + (Cardinality(M) - 1)
    BY <1>1, <1>3, <2>3, <2>4, <2>5
  <2>7. UNCHANGED iter
    BY <1>2
  <2>8. filehandle' + Cardinality(MapTasks(pc')) <= MaxHandles + 2
    BY <2>2, <2>3, <2>6
  <2>9. Cardinality(LiveIters(iter')) <= filehandle' - 2 + Cardinality(MapTasks(pc'))
    <3>1. LiveIters(iter') = LiveIters(iter)
      BY <2>7
    <3>2. Cardinality(LiveIters(iter)) <= filehandle' - 2 + Cardinality(MapTasks(pc'))
      BY <1>1, <1>3, <2>2, <2>3, <2>4, <2>5
    <3> QED BY <3>1, <3>2
  <2> QED BY <2>2, <2>8, <2>9 DEF Counted
<1>30. CallInv'
  BY <1>17, <1>18, <1>20, <1>21, <1>25, <1>26, <1>27, <1>28 DEF CallInv
<1>31. FilesInv'
  BY <1>5, <1>29, <1>30 DEF FilesInv
<1>32. it[t] # Nil => iter[it[t]].pos = 0
  BY <1>24
<1> QED BY <1>2, <1>6, <1>8, <1>22, <1>31, <1>32, <1>0 DEF new

\* close() takes its handle out of the table.
LEMMA UnlinkStep ==
  ASSUME FilesInv, NEW t \in Tasks, SysUnlink(t)
  PROVE  FilesInv' /\ Open' = Open /\ UNCHANGED <<filehandle, iter>> /\ \A g \in Open : data'[g] = data[g]
<1>0. PICK h : h = arg[t]
  OBVIOUS
<1>1. Types /\ Shape /\ Holds /\ Owned /\ Entries /\ Mapping /\ Using /\ Reachable /\ CallInv /\ ListInv
      /\ Counted /\ filehandle \in Nat
  BY DEF FilesInv, CallInv, ListInv
<1>2. /\ pc[t] = "unlink" /\ UNCHANGED <<filehandle, iter, own, leaked>> /\ CloseFile(h)
      /\ Doing(t, "idle", op[t], arg[t], it[t])
  BY <1>0 DEF SysUnlink, Goto
<1>3. h \in Listed /\ h \in Handles /\ Found(h) # {}
  BY <1>0, <1>1, <1>2, Working
<1>4. DeleteAt(Index(h)) /\ data' = [data EXCEPT ![h] = NoFile]
  BY <1>2, <1>3 DEF CloseFile
<1>5. ListInv' /\ Listed' = Listed \ {h}
  BY <1>1, <1>2, <1>3, <1>4, DeleteStep
<1>6. op[t] = "close"
  BY <1>1, <1>2 DEF Shape
<1>7. /\ h \notin leaked
      /\ \A u \in Tasks : h \notin own[u] /\ (op[u] = "close" /\ u # t => arg[u] # h)
  BY <1>0, <1>1, <1>6 DEF Holds
<1>8. CallTypes' /\ Others(t) /\ pc'[t] = "idle" /\ op'[t] = "none"
  <2>1. "idle" \in Labels /\ op[t] \in Ops /\ arg[t] \in Paths \cup Handles \cup {Nil}
        /\ it[t] \in Iters \cup {Nil}
    BY <1>1 DEF Types, Labels
  <2> QED BY <1>1, <1>2, <2>1, Moved
<1>9. Open' = Open /\ Open \subseteq Handles /\ h \notin Open
  <2>1. h \notin Open /\ Open \subseteq Handles
    BY <1>0, <1>2 DEF Open, Listed
  <2>2. \A u \in Tasks : pc'[u] = "unlink" <=> (pc[u] = "unlink" /\ u # t)
    BY <1>8 DEF Others
  <2>3. \A u \in Tasks : u # t => arg'[u] = arg[u]
    BY <1>8 DEF Others
  <2>4. ASSUME NEW g \in Listed, g # h PROVE g \in Open <=> g \in Open'
    BY <1>0, <1>5, <2>2, <2>3, <2>4 DEF Open
  <2>5. Open \subseteq Listed /\ Open' \subseteq Listed' /\ h \notin Open'
    BY <1>5 DEF Open
  <2> QED BY <1>5, <2>1, <2>4, <2>5
<1>10. NoFile \in [name: Paths \cup {Nil}, custom: Iters \cup {Nil}, fcntl: {0, 1}]
  BY DEF NoFile
<1>11. /\ data' \in [Handles -> [name: Paths \cup {Nil}, custom: Iters \cup {Nil}, fcntl: {0, 1}]]
       /\ \A g \in Handles : g # h => data'[g] = data[g]
  BY <1>1, <1>3, <1>4, <1>10 DEF Types
<1>12. \A g \in Open : data'[g] = data[g]
  BY <1>9, <1>11
<1>13. Types'
  BY <1>1, <1>2, <1>8, <1>11 DEF Types, CallTypes
<1>14. Shape'
  BY <1>1, <1>8 DEF Shape, Others
<1>15. \A u \in Tasks : op'[u] = "close" => op[u] = "close" /\ arg'[u] = arg[u] /\ u # t
  BY <1>8 DEF Others
<1>16. Holds'
  <2> SUFFICES ASSUME NEW v \in Tasks
               PROVE  /\ op'[v] \in {"read", "fstat", "fcntl"} => arg'[v] \in own[v]
                      /\ op'[v] = "stat" /\ pc'[v] # "map" => arg'[v] \in leaked
                      /\ op'[v] = "close" =>
                           /\ arg'[v] \in Listed' /\ arg'[v] \notin leaked
                           /\ \A u \in Tasks : /\ arg'[v] \notin own[u]
                                               /\ op'[u] = "close" /\ u # v => arg'[u] # arg'[v]
    BY <1>2 DEF Holds
  <2>1. /\ op[v] \in {"read", "fstat", "fcntl"} => arg[v] \in own[v]
        /\ op[v] = "stat" /\ pc[v] # "map" => arg[v] \in leaked
        /\ op[v] = "close" =>
             /\ arg[v] \in Listed /\ arg[v] \notin leaked
             /\ \A u \in Tasks : arg[v] \notin own[u] /\ (op[u] = "close" /\ u # v => arg[u] # arg[v])
    BY <1>1 DEF Holds
  <2>2. CASE v = t
    BY <1>8, <2>2
  <2>3. CASE v # t
    <3>1. pc'[v] = pc[v] /\ op'[v] = op[v] /\ arg'[v] = arg[v]
      BY <1>8, <2>3 DEF Others
    <3>2. op[v] = "close" => arg[v] # h
      BY <1>7, <2>3
    <3> QED BY <1>5, <1>15, <2>1, <3>1, <3>2
  <2> QED BY <2>2, <2>3
<1>17. Owned'
  <2>1. ASSUME NEW g, Closing(g), g # h PROVE Closing(g)'
    <3>1. PICK u \in Tasks : op[u] = "close" /\ arg[u] = g
      BY <2>1 DEF Closing
    <3>2. u # t
      BY <1>0, <2>1, <3>1
    <3> QED BY <1>8, <3>1, <3>2 DEF Closing, Others
  <2>2. leaked \subseteq Listed' /\ \A u \in Tasks : own[u] \subseteq Listed'
    BY <1>1, <1>5, <1>7 DEF Owned
  <2>3. \A g \in Listed' : g \in Listed /\ g # h
    BY <1>5
  <2>4. \A g \in Listed' : g \in leaked \/ Closing(g)' \/ \E u \in Tasks : g \in own[u]
    BY <1>1, <2>1, <2>3 DEF Owned
  <2> QED BY <1>1, <1>2, <2>2, <2>4 DEF Owned
<1>18. Entries'
  BY <1>1, <1>2, <1>9, <1>12 DEF Entries, HasIter
<1>19. Mapping'
  BY <1>1, <1>2, <1>8, <1>9, <1>12 DEF Mapping, Others
<1>20. Using'
  <2> SUFFICES ASSUME NEW u \in Tasks, pc'[u] \in {"use", "delete"}
               PROVE  it'[u] = data'[arg'[u]].custom /\ it'[u] \in Iters
    BY DEF Using
  <2>1. u # t /\ pc[u] \in {"use", "delete"} /\ it'[u] = it[u] /\ arg'[u] = arg[u]
    BY <1>8 DEF Others
  <2>2. arg[u] \in Open /\ it[u] = data[arg[u]].custom /\ it[u] \in Iters
    BY <1>1, <2>1, HasOwnIter
  <2> QED BY <1>12, <2>1, <2>2
<1>21. Reachable'
  BY <1>1, <1>2, <1>8, <1>9, <1>12 DEF Reachable, Others
<1>22. CallInv'
  BY <1>13, <1>14, <1>16, <1>17, <1>18, <1>19, <1>20, <1>21 DEF CallInv
<1>23. Counted'
  <2>1. pc[t] # "map" /\ pc'[t] # "map" /\ UNCHANGED <<filehandle, iter>>
    BY <1>2, <1>8
  <2> QED BY <1>1, <1>8, <2>1, SameRoom
<1>24. FilesInv'
  BY <1>5, <1>22, <1>23 DEF FilesInv
<1> QED BY <1>2, <1>9, <1>12, <1>24

-----------------------------------------------------------------------------
(* The invariant                                                             *)

\* Nothing happens.
LEMMA Stutter ==
  ASSUME FilesInv, UNCHANGED vars
  PROVE  FilesInv' /\ Open' = Open
<1>1. UNCHANGED <<listVars, filehandle, data, iter, pc, op, arg, it, own, leaked>>
  BY DEF vars, callVars
<1>2. ListInv' /\ Listed' = Listed
  BY <1>1, SameList DEF FilesInv
<1>3. Open' = Open /\ \A h : HasIter(h)' = HasIter(h) /\ Closing(h)' = Closing(h)
  BY <1>1, <1>2 DEF Open, HasIter, Closing
<1>4. CallInv /\ Counted
  BY DEF FilesInv
<1>5. Types' /\ Shape'
  BY <1>1, <1>4 DEF CallInv, Types, Shape
<1>6. Holds' /\ Owned'
  BY <1>1, <1>2, <1>3, <1>4 DEF CallInv, Holds, Owned
<1>7. Entries' /\ Mapping'
  BY <1>1, <1>3, <1>4 DEF CallInv, Entries, Mapping
<1>8. Using' /\ Reachable'
  BY <1>1, <1>3, <1>4 DEF CallInv, Using, Reachable
<1>9. Counted'
  BY <1>1, <1>4 DEF Counted
<1> QED BY <1>2, <1>3, <1>5, <1>6, <1>7, <1>8, <1>9 DEF FilesInv, CallInv

\* Nothing is open at the start.
LEMMA InitInv == Init => FilesInv
<1> SUFFICES ASSUME Init PROVE FilesInv
  OBVIOUS
<1>1. ListInv
  <2> DEFINE c == <<>>
  <2>1. c \in Seq(Objects) /\ Len(c) = 0 /\ freed = c
    BY DEF Init
  <2>2. IsList(first, last, size, next, ptr, freed, filehandle, c)
    BY <2>1 DEF Init, IsList, Linked, Once, Rising, Spare
  <2>3. Used(ptr) = {}
    BY DEF Init, Used
  <2>4. filehandle = 2 /\ Cardinality(Used(ptr)) = 0 /\ MaxHandles \in Nat
    BY <2>3, FS_EmptySet, Constants DEF Init
  <2>5. next \in [Objects -> Objects \cup {Nil}] /\ ptr \in [Objects -> Handles \cup {Nil}]
    BY DEF Init
  <2> HIDE DEF c
  <2>6. \E d \in Seq(Objects) : IsList(first, last, size, next, ptr, freed, filehandle, d)
    BY <2>1, <2>2
  <2>7. filehandle \in 2..MaxHandles + 2 /\ Cardinality(Used(ptr)) <= filehandle - 2
    BY <2>4
  <2> QED BY <2>5, <2>6, <2>7 DEF ListInv
<1>2. Listed = {} /\ Open = {}
  <2>1. size = 0
    BY DEF Init
  <2>2. \A h : Found(h) = {}
    BY <2>1 DEF Found
  <2> QED BY <2>2 DEF Listed, Open
<1>3. Types
  BY DEF Init, Types, NoFile, NoIter, Labels, Ops
<1>4. Shape /\ Mapping /\ Using
  BY DEF Init, Shape, Mapping, Using
<1>5. Holds /\ Owned /\ Entries
  BY <1>2 DEF Init, Holds, Owned, Entries
<1>6. \A i \in Iters : ~iter[i].live
  BY DEF Init, NoIter
<1>7. Reachable
  BY <1>6 DEF Reachable
<1>8. Counted
  <2>1. MapTasks(pc) = {} /\ LiveIters(iter) = {}
    BY <1>6 DEF Init, MapTasks, LiveIters
  <2>2. filehandle = 2 /\ MaxHandles \in Nat
    BY Constants DEF Init
  <2> QED BY <2>1, <2>2, FS_EmptySet DEF Counted
<1> QED BY <1>1, <1>3, <1>4, <1>5, <1>7, <1>8 DEF FilesInv, CallInv

\* Every step of every call keeps the invariant.
LEMMA NextInv == FilesInv /\ [Next]_vars => FilesInv'
<1> SUFFICES ASSUME FilesInv, [Next]_vars PROVE FilesInv'
  OBVIOUS
<1>1. CASE UNCHANGED vars
  BY <1>1, Stutter
<1>2. CASE Next
  <2>1. PICK t \in Tasks :
          \/ \E path \in Paths : SysOpen(t, path) \/ SysOpenFails(t, path)
          \/ SysMap(t)
          \/ \E h \in own[t], o \in {"read", "fstat", "close", "fcntl"} : SysCall(t, o, h)
          \/ SysCustom(t) \/ SysUse(t) \/ SysDelete(t) \/ SysUnlink(t) \/ SysFlags(t)
    BY <1>2 DEF Next
  <2>2. CASE \E path \in Paths : SysOpen(t, path)
    BY <2>2, OpenStep
  <2>3. CASE \E path \in Paths : SysOpenFails(t, path)
    BY <2>3, Stutter DEF SysOpenFails
  <2>4. CASE SysMap(t)
    BY <2>4, MapStep
  <2>5. CASE \E h \in own[t], o \in {"read", "fstat", "close", "fcntl"} : SysCall(t, o, h)
    BY <2>5, CallStep
  <2>6. CASE SysCustom(t)
    BY <2>6, CustomStep
  <2>7. CASE SysUse(t)
    BY <2>7, UseStep
  <2>8. CASE SysDelete(t)
    BY <2>8, DeleteIterStep
  <2>9. CASE SysUnlink(t)
    BY <2>9, UnlinkStep
  <2>10. CASE SysFlags(t)
    BY <2>10, FlagsStep
  <2> QED BY <2>1, <2>2, <2>3, <2>4, <2>5, <2>6, <2>7, <2>8, <2>9, <2>10
<1> QED BY <1>1, <1>2

-----------------------------------------------------------------------------
(* What follows from it                                                      *)

\* The linked list is a list.
LEMMA InvList == FilesInv => ListSound
<1> SUFFICES ASSUME FilesInv PROVE ListSound
  OBVIOUS
<1> DEFINE chain == [i \in 1..size |-> Nth(i - 1)]
<1>1. PICK c \in Seq(Objects) : IsList(first, last, size, next, ptr, freed, filehandle, c)
  BY DEF FilesInv, ListInv
<1>2. /\ Linked(first, last, next, c) /\ size = Len(c) /\ Rising(ptr, c, filehandle) /\ Spare(freed, c)
      /\ Len(c) \in Nat /\ freed \in Seq(Objects) /\ Len(freed) \in Nat /\ Once(c) /\ Once(freed)
      /\ \A j \in 1..Len(c) : c[j] \in Objects /\ c[j] # Nil
      /\ DOMAIN c = 1..Len(c) /\ DOMAIN freed = 1..Len(freed) /\ \A j \in 1..Len(freed) : freed[j] \in Objects
  BY <1>1, LenProperties, Constants DEF IsList, Spare, Linked
<1>3. \A i \in 0..Len(c) : Nth(i) = Reached(c, i)
  BY <1>2, NthIs, WalkOn
<1>4. \A i \in 1..size : chain[i] = c[i] /\ i - 1 \in 0..Len(c)
  BY <1>2, <1>3 DEF Reached
<1>5. Range(chain) = Range(c) /\ Range(c) \subseteq Objects /\ Range(freed) \subseteq Objects
      /\ Range(c) \cap Range(freed) = {}
  <2>1. DOMAIN chain = 1..size
    OBVIOUS
  <2> HIDE DEF chain
  <2>2. Range(chain) = Range(c)
    BY <1>2, <1>4, <2>1 DEF Range
  <2>3. Range(c) \subseteq Objects /\ Range(freed) \subseteq Objects
    BY <1>2 DEF Range
  <2>4. ASSUME NEW x \in Range(c), x \in Range(freed) PROVE FALSE
    <3>1. PICK j \in 1..Len(c) : x = c[j]
      BY <1>2 DEF Range
    <3>2. PICK k \in 1..Len(freed) : x = freed[k]
      BY <1>2, <2>4 DEF Range
    <3> QED BY <1>2, <3>1, <3>2 DEF Spare
  <2> QED BY <2>2, <2>3, <2>4
<1>6. Cardinality(Range(c)) = Len(c) /\ Cardinality(Range(freed)) = Len(freed)
  BY <1>2, CountOnce
<1>7. IsFiniteSet(Range(c)) /\ IsFiniteSet(Range(freed)) /\ Cardinality(Range(c)) <= MaxHandles
  BY <1>5, Constants, FS_Subset
<1>8. Cardinality(Range(c) \cup Range(freed)) = Len(c) + Len(freed)
  <2>1. Cardinality(Range(c) \cup Range(freed)) =
          Cardinality(Range(c)) + Cardinality(Range(freed)) - Cardinality(Range(c) \cap Range(freed))
    BY <1>7, FS_Union
  <2>2. Cardinality(Range(c) \cap Range(freed)) = 0
    BY <1>5, FS_EmptySet
  <2> QED BY <1>2, <1>6, <2>1, <2>2
<1>9. TypeOK
  <2>1. first \in Objects \cup {Nil} /\ last \in Objects \cup {Nil}
    <3>1. CASE Len(c) = 0
      BY <1>2, <3>1 DEF Linked
    <3>2. CASE Len(c) > 0
      <4>1. 1 \in 1..Len(c) /\ Len(c) \in 1..Len(c)
        BY <1>2, <3>2
      <4> QED BY <1>2, <3>2, <4>1 DEF Linked
    <3> QED BY <1>2, <3>1, <3>2
  <2>2. size \in 0..MaxHandles
    BY <1>2, <1>6, <1>7, Constants
  <2> QED BY <1>2, <2>1, <2>2 DEF TypeOK, FilesInv, ListInv, CallInv, Types
<1>10. Nil \notin Range(chain) /\ Nth(size) = Nil
  <2>1. Nil \notin Range(chain)
    BY <1>5, Constants
  <2>2. Nth(size) = Nil
    BY <1>2, <1>3 DEF Reached
  <2> QED BY <2>1, <2>2
<1>11. last = IF size = 0 THEN Nil ELSE chain[size]
  <2>1. CASE size = 0
    BY <1>2, <2>1 DEF Linked
  <2>2. CASE size # 0
    <3>1. size \in 1..size
      BY <1>2, <2>2
    <3> QED BY <1>2, <1>4, <2>2, <3>1 DEF Linked
  <2> QED BY <2>1, <2>2
<1>12. ASSUME NEW i \in 1..size - 1 PROVE At(i - 1) < At(i)
  <2>1. i \in 1..Len(c) /\ i + 1 \in 1..Len(c) /\ i - 1 \in 0..Len(c) /\ i \in 0..Len(c) /\ i - 1 + 1 = i
        /\ i - 1 < Len(c) /\ i < Len(c) /\ i < i + 1
    BY <1>2
  <2>2. Nth(i - 1) = c[i] /\ Nth(i) = c[i + 1]
    BY <1>3, <2>1 DEF Reached
  <2>3. At(i - 1) = ptr[c[i]] /\ At(i) = ptr[c[i + 1]]
    BY <1>2, <2>1, <2>2 DEF At
  <2> QED BY <1>2, <2>1, <2>3 DEF Rising
<1> HIDE DEF chain
<1>13. Cardinality(Range(chain) \cup Range(freed)) = size + Len(freed)
  BY <1>2, <1>5, <1>8
<1> QED BY <1>9, <1>10, <1>11, <1>12, <1>13 DEF ListSound, chain

\* Handles keep what they stand for.
LEMMA InvSound == FilesInv => HandlesKept /\ NoUseAfterFree /\ OnlyStatLeaks
<1> SUFFICES ASSUME FilesInv PROVE HandlesKept /\ NoUseAfterFree /\ OnlyStatLeaks
  OBVIOUS
<1>1. Types /\ Shape /\ Holds /\ Owned /\ Entries /\ Mapping /\ Using /\ Reachable /\ CallInv
  BY DEF FilesInv, CallInv
<1>2. Open \subseteq Listed /\ Nil \notin Iters
  BY Constants DEF Open, Iters, Objects
<1>3. HandlesKept
  <2> SUFFICES ASSUME NEW t \in Tasks, NEW h \in own[t]
               PROVE  /\ h \in Listed
                      /\ data[h].name \in Files =>
                           /\ iter[data[h].custom].live
                           /\ iter[data[h].custom].path = data[h].name
                           /\ \A g \in Listed \ {h} : data[g].custom # data[h].custom
                                \/ \E u \in Tasks : pc[u] = "unlink" /\ arg[u] = g
    BY DEF HandlesKept
  <2>1. h \in Listed
    BY <1>1 DEF Owned
  <2>2. h \in Open
    <3>1. ASSUME NEW u \in Tasks, pc[u] = "unlink" PROVE arg[u] # h
      BY <1>1, <3>1 DEF Shape, Holds
    <3> QED BY <2>1, <3>1 DEF Open
  <2>3. CASE data[h].name \in Files
    <3>1. data[h].name \notin Devices
      BY <2>3, FilesAssumption DEF Files
    <3>2. HasIter(h)
      BY <1>1, <2>2, <3>1 DEF Entries
    <3>3. data[h].custom # Nil
      BY <1>2, <3>2 DEF HasIter
    <3>4. ASSUME NEW g \in Listed \ {h}, ~\E u \in Tasks : pc[u] = "unlink" /\ arg[u] = g
          PROVE  data[g].custom # data[h].custom
      <4>1. g \in Open
        BY <3>4 DEF Open
      <4> QED BY <1>1, <2>2, <3>3, <4>1 DEF Entries
    <3> QED BY <2>1, <3>2, <3>4 DEF HasIter
  <2> QED BY <2>1, <2>3
<1>4. NoUseAfterFree
  BY <1>1, <1>2, HasOwnIter DEF NoUseAfterFree, HasIter
<1>5. OnlyStatLeaks
  BY <1>1, <1>2 DEF OnlyStatLeaks, Owned, Reachable
<1> QED BY <1>3, <1>4, <1>5

\* The invariant holds all the time.
LEMMA InvAlways == Spec => []FilesInv
BY InitInv, NextInv, PTL DEF Spec

\* Whatever the tasks open and close, the table is a list without cycles, shared or lost
\* objects, a handle leads to its own Iterator as long as its owner has it, and no call
\* uses or deletes an Iterator that was deleted: for every number of tasks, files and handles.
THEOREM FilesAreSound == Spec => []HandlesSound
<1>1. FilesInv => HandlesSound
  BY InvList, InvSound DEF HandlesSound
<1> QED BY <1>1, InvAlways, PTL

\* No path through open(), close() and the calls on a handle loses an entry of the table or
\* an Iterator: what nobody can close any more was opened by stat().
THEOREM NothingElseLeaks == Spec => []OnlyStatLeaks
<1>1. FilesInv => OnlyStatLeaks
  BY InvSound
<1> QED BY <1>1, InvAlways, PTL

-----------------------------------------------------------------------------
(* The abstract table                                                        *)

\* What the abstract table shows of a handle.
Entry(h) == [path |-> data[h].name, pos |-> Position(h), flags |-> data[h].fcntl]
\* The function from open handles that implements files, the length of each file, and
\* Put(h, f) of OpenFiles.
Shown == [h \in Open |-> Entry(h)]
Length == [p \in Paths |-> IF p \in Files THEN Size[p] ELSE 0]
With(h, f) == [k \in DOMAIN Shown \cup {h} |-> IF k = h THEN f ELSE Shown[k]]

\* The steps of the abstract table, in these terms.
LEMMA TableOpen ==
  ASSUME NEW path
  PROVE  Table!Open(path) <=> /\ filehandle' = filehandle + 1
                              /\ Shown' = With(filehandle + 1, [path |-> path, pos |-> 0, flags |-> 0])
BY DEF Table!Open, Table!Put, Shown, Entry, With

\* Close of OpenFiles.
LEMMA TableClose ==
  ASSUME NEW h
  PROVE  Table!Close(h) <=> Shown' = [k \in DOMAIN Shown \ {h} |-> Shown[k]] /\ UNCHANGED filehandle
BY DEF Table!Close, Shown, Entry

\* Read of OpenFiles.
LEMMA TableRead ==
  ASSUME NEW h
  PROVE  Table!Read(h) <=>
           /\ \E p \in Shown[h].pos..Length[Shown[h].path] : Shown' = With(h, [Shown[h] EXCEPT !.pos = p])
           /\ UNCHANGED filehandle
BY DEF Table!Read, Table!Put, Shown, Entry, With, Length

\* SetFlags of OpenFiles.
LEMMA TableFlags ==
  ASSUME NEW h
  PROVE  Table!SetFlags(h) <=>
           /\ \E f \in {0, 1} : Shown' = With(h, [Shown[h] EXCEPT !.flags = f])
           /\ UNCHANGED filehandle
BY DEF Table!SetFlags, Table!Put, Shown, Entry, With

\* The steps, the initial states and the whole specification of OpenFiles.
LEMMA TableNext ==
  [Table!Next]_<<Shown, filehandle>> <=>
    \/ \E path \in Paths : Table!Open(path)
    \/ \E h \in Open : Table!Close(h) \/ Table!Read(h) \/ Table!SetFlags(h)
    \/ UNCHANGED <<Shown, filehandle>>
BY DEF Table!Next, Shown, Entry

LEMMA TableInit == Table!Init <=> Shown = <<>> /\ filehandle = 2
BY DEF Table!Init, Shown, Entry

LEMMA TableWhole == Table!Spec <=> Table!Init /\ [][Table!Next]_<<Shown, filehandle>>
BY DEF Table!Spec, Shown, Entry

\* An entry whose FileData and position stay is shown as before.
LEMMA SameEntry ==
  ASSUME NEW h, data'[h] = data[h],
         data[h].custom # Nil => iter'[data[h].custom].pos = iter[data[h].custom].pos
  PROVE  Entry(h)' = Entry(h)
BY DEF Entry, Position

\* A step that takes one handle out, or none, and leaves the others as they are.
LEMMA TableLoses ==
  ASSUME \A g \in Open' : g \in Open /\ Entry(g)' = Entry(g), UNCHANGED filehandle,
         Open' = Open \/ \E h \in Open : Open' = Open \ {h}
  PROVE  [Table!Next]_<<Shown, filehandle>>
<1>1. DOMAIN Shown = Open /\ \A g \in Open : Shown[g] = Entry(g)
  BY DEF Shown
<1>2. Shown' = [g \in Open' |-> Entry(g)']
  BY DEF Shown
<1>3. [g \in Open' |-> Entry(g)'] = [g \in Open' |-> Entry(g)]
  OBVIOUS
<1>4. CASE Open' = Open
  BY <1>2, <1>3, <1>4, TableNext DEF Shown
<1>5. CASE \E h \in Open : Open' = Open \ {h}
  <2>1. PICK h \in Open : Open' = Open \ {h}
    BY <1>5
  <2>2. Shown' = [k \in DOMAIN Shown \ {h} |-> Shown[k]]
    <3>1. [g \in Open \ {h} |-> Entry(g)] = [k \in Open \ {h} |-> Shown[k]]
      BY <1>1
    <3> QED BY <1>1, <1>2, <1>3, <2>1, <3>1
  <2>3. Table!Close(h)
    BY <2>2, TableClose
  <2> QED BY <2>3, TableNext
<1> QED BY <1>4, <1>5

\* A step that changes what is shown of one handle.
LEMMA TablePuts ==
  ASSUME NEW h, NEW f, Open' = Open \cup {h}, \A g \in Open : g # h => Entry(g)' = Entry(g),
         Entry(h)' = f
  PROVE  Shown' = With(h, f)
<1>1. DOMAIN Shown = Open /\ \A g \in Open : Shown[g] = Entry(g)
  BY DEF Shown
<1>2. Shown' = [g \in Open \cup {h} |-> Entry(g)']
  BY DEF Shown
<1>3. \A g \in Open \cup {h} : Entry(g)' = IF g = h THEN f ELSE Shown[g]
  BY <1>1
<1> QED BY <1>1, <1>2, <1>3 DEF With

\* Every step of the calls is one of the abstract table, or changes nothing of it.
LEMMA TableStep ==
  ASSUME FilesInv, [Next]_vars
  PROVE  [Table!Next]_<<Shown, filehandle>>
<1>1. Types /\ Entries /\ CallInv /\ Open \subseteq Handles
  BY DEF FilesInv, CallInv, Open, Listed
<1>2. CASE UNCHANGED vars
  <2>1. Open' = Open /\ UNCHANGED <<data, iter, filehandle>>
    BY <1>2, Stutter DEF vars
  <2>2. \A g \in Open' : g \in Open /\ Entry(g)' = Entry(g)
    BY <2>1, SameEntry
  <2> QED BY <2>1, <2>2, TableLoses
<1>3. ASSUME NEW t \in Tasks, NEW path \in Paths, SysOpen(t, path)
      PROVE  [Table!Next]_<<Shown, filehandle>>
  <2>1. /\ Open' = Open /\ UNCHANGED <<data, filehandle>>
        /\ \A h \in Open : data[h].custom # Nil => iter'[data[h].custom] = iter[data[h].custom]
    BY <1>3, OpenStep
  <2>2. \A g \in Open' : g \in Open /\ Entry(g)' = Entry(g)
    BY <2>1, SameEntry
  <2> QED BY <2>1, <2>2, TableLoses
<1>4. ASSUME NEW t \in Tasks, SysMap(t)
      PROVE  [Table!Next]_<<Shown, filehandle>>
  <2>1. PICK h : h = filehandle + 1
    OBVIOUS
  <2>2. PICK path \in Paths : path = arg[t]
    BY <1>4, MapStep
  <2>3. /\ UNCHANGED iter /\ filehandle' = h /\ h \in Handles /\ Open' = Open \cup {h} /\ h \notin Open
        /\ it[t] \in Iters \cup {Nil} /\ (it[t] # Nil => iter[it[t]].pos = 0)
        /\ data' = [data EXCEPT ![h] = [name |-> path, custom |-> it[t], fcntl |-> 0]]
    BY <1>4, <2>1, <2>2, MapStep
  <2>4. data'[h] = [name |-> path, custom |-> it[t], fcntl |-> 0] /\ \A g \in Open : data'[g] = data[g]
    BY <1>1, <2>3 DEF Types
  <2>5. \A g \in Open : Entry(g)' = Entry(g)
    BY <2>3, <2>4, SameEntry
  <2>6. Entry(h)' = [path |-> path, pos |-> 0, flags |-> 0]
    BY <2>3, <2>4 DEF Entry, Position
  <2>7. Shown' = With(h, [path |-> path, pos |-> 0, flags |-> 0])
    BY <2>3, <2>5, <2>6, TablePuts
  <2>8. Table!Open(path)
    BY <2>1, <2>3, <2>7, TableOpen
  <2> QED BY <2>8, TableNext
<1>5. ASSUME NEW t \in Tasks, NEW h \in own[t], NEW o \in {"read", "fstat", "close", "fcntl"},
             SysCall(t, o, h)
      PROVE  [Table!Next]_<<Shown, filehandle>>
  <2>1. UNCHANGED <<data, iter, filehandle>>
    BY <1>5 DEF SysCall
  <2>2. Open' = Open \/ \E g \in Open : Open' = Open \ {g}
    BY <1>5, CallStep
  <2>3. \A g \in Open' : g \in Open /\ Entry(g)' = Entry(g)
    BY <2>1, <2>2, SameEntry
  <2> QED BY <2>1, <2>2, <2>3, TableLoses
<1>6. ASSUME NEW t \in Tasks, SysCustom(t)
      PROVE  [Table!Next]_<<Shown, filehandle>>
  <2>1. UNCHANGED <<data, iter, filehandle>>
    BY <1>6 DEF SysCustom
  <2>2. Open' = Open \/ \E g \in Open : Open' = Open \ {g}
    BY <1>6, CustomStep
  <2>3. \A g \in Open' : g \in Open /\ Entry(g)' = Entry(g)
    BY <2>1, <2>2, SameEntry
  <2> QED BY <2>1, <2>2, <2>3, TableLoses
<1>7. ASSUME NEW t \in Tasks, SysUse(t)
      PROVE  [Table!Next]_<<Shown, filehandle>>
  <2>1. PICK h : h = arg[t]
    OBVIOUS
  <2>2. /\ Open' = Open /\ UNCHANGED <<data, filehandle>>
    BY <1>7, UseStep DEF SysUse
  <2>3. /\ h \in Open /\ it[t] = data[h].custom /\ it[t] \in Iters /\ it[t] # Nil
        /\ data[h].name \in Files /\ \A g \in Open : data[g].custom = it[t] => g = h
    BY <1>1, <1>7, <2>1, HasOwnIter DEF SysUse
  <2>4. /\ \A i \in Iters : i # it[t] => iter'[i] = iter[i]
        /\ iter[it[t]].pos <= iter'[it[t]].pos /\ iter'[it[t]].pos <= Size[data[h].name]
        /\ iter[it[t]].pos \in Nat /\ iter'[it[t]].pos \in Nat /\ Size[data[h].name] \in Nat
    BY <1>7, <2>1, UseIter
  <2>5. PICK p : p = iter'[it[t]].pos
    OBVIOUS
  <2>6. Entry(h)' = [Entry(h) EXCEPT !.pos = p]
    BY <2>2, <2>3, <2>5 DEF Entry, Position
  <2>7. \A g \in Open : g # h => Entry(g)' = Entry(g)
    <3>1. ASSUME NEW g \in Open, g # h, data[g].custom # Nil
          PROVE  iter'[data[g].custom].pos = iter[data[g].custom].pos
      BY <1>1, <2>3, <2>4, <3>1 DEF Entries, HasIter
    <3> QED BY <2>2, <3>1, SameEntry
  <2>8. Shown[h] = Entry(h) /\ Entry(h).pos = iter[it[t]].pos /\ Entry(h).path = data[h].name
    BY <2>3 DEF Shown, Entry, Position
  <2>9. Length[data[h].name] = Size[data[h].name]
    BY <2>3, FilesAssumption DEF Length, Files
  <2>10. p \in Shown[h].pos..Length[Shown[h].path]
    BY <2>4, <2>5, <2>8, <2>9
  <2>11. Shown' = With(h, [Shown[h] EXCEPT !.pos = p])
    <3>1. Open' = Open \cup {h}
      BY <2>2, <2>3
    <3> QED BY <2>6, <2>7, <2>8, <3>1, TablePuts
  <2>12. Table!Read(h)
    BY <2>2, <2>10, <2>11, TableRead
  <2> QED BY <2>3, <2>12, TableNext
<1>8. ASSUME NEW t \in Tasks, SysDelete(t)
      PROVE  [Table!Next]_<<Shown, filehandle>>
  <2>1. /\ pc[t] = "delete" /\ UNCHANGED <<data, filehandle>> /\ iter' = [iter EXCEPT ![it[t]] = NoIter]
    BY <1>8 DEF SysDelete
  <2>2. arg[t] \in Open /\ Open' = Open \ {arg[t]}
    BY <1>8, DeleteIterStep
  <2>3. \A g \in Open : data[g].custom = it[t] => g = arg[t]
    BY <1>1, <2>1, HasOwnIter
  <2>4. ASSUME NEW g \in Open', data[g].custom # Nil
        PROVE  iter'[data[g].custom].pos = iter[data[g].custom].pos
    BY <1>1, <2>1, <2>2, <2>3, <2>4 DEF Types
  <2>5. \A g \in Open' : g \in Open /\ Entry(g)' = Entry(g)
    BY <2>1, <2>2, <2>4, SameEntry
  <2> QED BY <2>1, <2>2, <2>5, TableLoses
<1>9. ASSUME NEW t \in Tasks, SysUnlink(t)
      PROVE  [Table!Next]_<<Shown, filehandle>>
  <2>1. Open' = Open /\ UNCHANGED <<filehandle, iter>> /\ \A g \in Open : data'[g] = data[g]
    BY <1>9, UnlinkStep
  <2>2. \A g \in Open' : g \in Open /\ Entry(g)' = Entry(g)
    BY <2>1, SameEntry
  <2> QED BY <2>1, <2>2, TableLoses
<1>10. ASSUME NEW t \in Tasks, SysFlags(t)
       PROVE  [Table!Next]_<<Shown, filehandle>>
  <2>1. PICK h : h = arg[t]
    OBVIOUS
  <2>2. /\ Open' = Open /\ h \in Open /\ h \in Handles /\ UNCHANGED <<filehandle, iter>>
        /\ \E f \in {0, 1} : data' = [data EXCEPT ![h] = [data[h] EXCEPT !.fcntl = f]]
    BY <1>10, <2>1, FlagsStep DEF SysFlags
  <2>3. PICK f \in {0, 1} : data' = [data EXCEPT ![h] = [data[h] EXCEPT !.fcntl = f]]
    BY <2>2
  <2>4. /\ \A g \in Open : g # h => data'[g] = data[g]
        /\ data'[h].name = data[h].name /\ data'[h].custom = data[h].custom /\ data'[h].fcntl = f
    BY <1>1, <2>2, <2>3 DEF Types
  <2>5. Entry(h)' = [Entry(h) EXCEPT !.flags = f]
    BY <2>2, <2>4 DEF Entry, Position
  <2>6. \A g \in Open : g # h => Entry(g)' = Entry(g)
    BY <2>2, <2>4, SameEntry
  <2>7. Shown[h] = Entry(h) /\ Open' = Open \cup {h}
    BY <2>2 DEF Shown
  <2>8. Shown' = With(h, [Shown[h] EXCEPT !.flags = f])
    BY <2>5, <2>6, <2>7, TablePuts
  <2>9. Table!SetFlags(h)
    BY <2>2, <2>8, TableFlags
  <2> QED BY <2>2, <2>9, TableNext
<1>11. CASE Next
  <2>1. PICK t \in Tasks :
          \/ \E path \in Paths : SysOpen(t, path) \/ SysOpenFails(t, path)
          \/ SysMap(t)
          \/ \E h \in own[t], o \in {"read", "fstat", "close", "fcntl"} : SysCall(t, o, h)
          \/ SysCustom(t) \/ SysUse(t) \/ SysDelete(t) \/ SysUnlink(t) \/ SysFlags(t)
    BY <1>11 DEF Next
  <2>2. ASSUME NEW path \in Paths, SysOpenFails(t, path) PROVE UNCHANGED vars
    BY <2>2 DEF SysOpenFails
  <2> QED BY <1>2, <1>3, <1>4, <1>5, <1>6, <1>7, <1>8, <1>9, <1>10, <2>1, <2>2
<1> QED BY <1>2, <1>11

\* The linked list, the handles, the Iterators and the calls that work on them one step at a
\* time together behave as the table of open files that OpenFiles describes.
THEOREM TableImplements == Spec => TableSpec
<1>1. Init => Table!Init
  <2> SUFFICES ASSUME Init PROVE Shown = <<>> /\ filehandle = 2
    BY TableInit
  <2>1. size = 0 /\ filehandle = 2
    BY DEF Init
  <2>2. Open = {}
    BY <2>1 DEF Open, Listed, Found
  <2>3. Shown = <<>>
    BY <2>2 DEF Shown
  <2> QED BY <2>1, <2>3
<1>2. FilesInv /\ [Next]_vars => [Table!Next]_<<Shown, filehandle>>
  BY TableStep
<1>3. Table!Spec <=> Table!Init /\ [][Table!Next]_<<Shown, filehandle>>
  BY TableWhole
<1> QED BY <1>1, <1>2, <1>3, InvAlways, PTL DEF Spec, TableSpec

-----------------------------------------------------------------------------
(* The table and the disk                                                    *)

\* A behaviour of files on a disk is one of the table of open files and one of the disk: what
\* is proved of these two holds there.
THEOREM StoreHasParts == StoreSpec => Spec /\ Ata!Spec
<1>1. StoreInit => Init /\ Ata!Init
  BY DEF StoreInit
<1>2. [StoreNext]_all => [Next]_vars /\ [Ata!Next]_(Ata!vars)
  <2>1. UNCHANGED disk => UNCHANGED Ata!vars
    BY DEF disk, Ata!vars, Ata!device, Ata!driver, Ata!reader
  <2>2. UNCHANGED all => UNCHANGED vars /\ UNCHANGED disk
    BY DEF all
  <2>3. StoreNext => [Next]_vars /\ [Ata!Next]_(Ata!vars)
    BY <2>1 DEF StoreNext
  <2> QED BY <2>1, <2>2, <2>3
<1> QED BY <1>1, <1>2, PTL DEF StoreSpec, Spec, Ata!Spec

-----------------------------------------------------------------------------
(* Addresses in registers                                                    *)

\* What the model assumes of the numbers.
LEMMA Numbers ==
  ASSUME Ata!DiskBounds
  PROVE  /\ ByteValues \in Nat \ {0} /\ HeadValues \in Nat \ {0} /\ Wrap \in Nat \ {0}
         /\ Capacity \in Nat \ {0} /\ Cylinders \in Nat \ {0} /\ Heads \in Nat \ {0}
         /\ Sectors \in Nat \ {0} /\ BlockSize \in Nat \ {0}
         /\ Ata!TwoBytes \in Nat \ {0} /\ Ata!ThreeBytes \in Nat \ {0}
         /\ Sectors < ByteValues /\ Cylinders <= Ata!TwoBytes /\ Heads <= HeadValues
         /\ Capacity <= Wrap /\ Wrap <= Ata!ThreeBytes * HeadValues
<1>1. ByteValues \in Nat \ {0} /\ HeadValues \in Nat \ {0} /\ Wrap \in Nat \ {0}
      /\ Capacity \in Nat \ {0} /\ Cylinders \in Nat \ {0} /\ Heads \in Nat \ {0}
      /\ Sectors \in Nat \ {0} /\ BlockSize \in Nat \ {0}
  BY DEF Ata!DiskBounds
<1>2. \A m, n \in Nat \ {0} : m * n \in Nat \ {0}
  OBVIOUS
<1>3. Ata!TwoBytes \in Nat \ {0}
  BY <1>1, <1>2 DEF Ata!TwoBytes
<1>4. Ata!ThreeBytes = Ata!TwoBytes * ByteValues
  BY DEF Ata!TwoBytes, Ata!ThreeBytes
<1>5. Ata!ThreeBytes \in Nat \ {0}
  BY <1>1, <1>2, <1>3, <1>4
<1> QED BY <1>1, <1>3, <1>5 DEF Ata!DiskBounds

\* A number is its quotient and its remainder.
LEMMA DivMod ==
  ASSUME NEW a \in Nat, NEW b \in Nat \ {0}
  PROVE  /\ a \div b \in Nat /\ a % b \in 0..b - 1 /\ a = b * (a \div b) + (a % b)
  OBVIOUS

\* A quotient and a remainder that fit are the ones.
LEMMA DivUnique ==
  ASSUME NEW a \in Nat, NEW b \in Nat \ {0}, NEW q \in Nat, NEW r \in 0..b - 1, a = b * q + r
  PROVE  a \div b = q
<1>1. b * q = q * b
  OBVIOUS
<1> QED BY <1>1

\* Dividing twice.
LEMMA DivDiv ==
  ASSUME NEW a \in Nat, NEW b \in Nat \ {0}, NEW c \in Nat \ {0}
  PROVE  a \div (b * c) = (a \div b) \div c
<1> DEFINE q == a \div b
           r == a % b
           p == q \div c
           s == q % c
<1>1. q \in Nat /\ r \in 0..b - 1 /\ a = b * q + r
  BY DivMod
<1> HIDE DEF q, r
<1>2. p \in Nat /\ s \in 0..c - 1 /\ q = c * p + s
  BY <1>1, DivMod
<1> HIDE DEF p, s
<1>3. b * q = (b * c) * p + b * s
  BY <1>1, <1>2
<1>4. b * s \in Nat /\ b * s <= b * (c - 1) /\ b * (c - 1) = b * c - b
  BY <1>2
<1>5. b * c \in Nat \ {0}
  OBVIOUS
<1> DEFINE m == b * c
           x == b * s
           y == m * p
<1>6. y \in Nat
  BY <1>2, <1>5
<1>7. a = y + (x + r) /\ x + r \in 0..m - 1
  <2>1. m \in Nat /\ x \in Nat /\ x <= m - b /\ b * q = y + x
    BY <1>3, <1>4, <1>5
  <2> HIDE DEF m, x, y
  <2> QED BY <2>1, <1>1, <1>6
<1>8. a \div m = p
  <2>1. m \in Nat \ {0}
    BY <1>5
  <2> HIDE DEF m, x
  <2> QED BY <2>1, <1>2, <1>7, DivUnique
<1> QED BY <1>8 DEF p, q

\* A quotient below a bound.
LEMMA DivBelow ==
  ASSUME NEW a \in Nat, NEW b \in Nat \ {0}, NEW c \in Nat \ {0}, a < b * c
  PROVE  a \div b < c
<1> DEFINE q == a \div b
<1>1. q \in Nat /\ b * q <= a
  BY DivMod
<1> HIDE DEF q
<1>2. q >= c => b * q >= b * c
  BY <1>1
<1>3. b * q \in Nat /\ b * c \in Nat
  BY <1>1
<1>4. ~(q >= c)
  BY <1>1, <1>2, <1>3
<1> QED BY <1>1, <1>4 DEF q

\* The registers for an address, with LBA or without, and the address in them.
IoOf(lba, addr) ==
  IF lba
  THEN <<addr % ByteValues, (addr \div ByteValues) % ByteValues,
         (addr \div Ata!TwoBytes) % ByteValues, (addr \div Ata!ThreeBytes) % HeadValues>>
  ELSE LET sect == (addr % Sectors) + 1
           cyl  == (addr + 1 - sect) \div (Heads * Sectors)
       IN  <<sect, cyl % ByteValues, (cyl \div ByteValues) % ByteValues,
             ((addr + 1 - sect) % (Heads * Sectors)) \div Sectors>>

AddrOf(lba, r, head) ==
  IF lba THEN r[1] + ByteValues * (r[2] + ByteValues * (r[3] + ByteValues * head))
  ELSE ((r[2] + ByteValues * r[3]) * Heads + head) * Sectors + r[1] - 1

\* With LBA.
LEMMA LbaFits ==
  ASSUME Ata!DiskBounds, NEW a \in Nat, a < Wrap
  PROVE  /\ IoOf(TRUE, a)[1] \in 0..ByteValues - 1 /\ IoOf(TRUE, a)[2] \in 0..ByteValues - 1
         /\ IoOf(TRUE, a)[3] \in 0..ByteValues - 1 /\ IoOf(TRUE, a)[4] \in 0..HeadValues - 1
         /\ AddrOf(TRUE, IoOf(TRUE, a), IoOf(TRUE, a)[4]) = a
<1> DEFINE B == ByteValues
           q1 == a \div B
           q2 == q1 \div B
           q3 == q2 \div B
<1>1. B \in Nat \ {0} /\ HeadValues \in Nat \ {0} /\ Ata!TwoBytes \in Nat \ {0} /\ Ata!ThreeBytes \in Nat \ {0}
  BY Numbers
<1>2. a \div Ata!TwoBytes = q2
  BY <1>1, DivDiv DEF Ata!TwoBytes
<1>3. q1 \in Nat /\ a % B \in 0..B - 1 /\ a = B * q1 + (a % B)
  BY <1>1, DivMod
<1>4. a \div Ata!ThreeBytes = q3
  <2>1. a \div (Ata!TwoBytes * B) = (a \div Ata!TwoBytes) \div B
    BY <1>1, DivDiv
  <2> QED BY <1>2, <2>1 DEF Ata!TwoBytes, Ata!ThreeBytes
<1>5. q2 \in Nat /\ q1 % B \in 0..B - 1 /\ q1 = B * q2 + (q1 % B)
  <2> HIDE DEF q1
  <2> QED BY <1>1, <1>3, DivMod
<1>6. q3 \in Nat /\ q2 % B \in 0..B - 1 /\ q2 = B * q3 + (q2 % B)
  <2> HIDE DEF q2
  <2> QED BY <1>1, <1>5, DivMod
<1>7. q3 < HeadValues
  <2>1. Ata!ThreeBytes * HeadValues \in Nat /\ a < Ata!ThreeBytes * HeadValues
    BY <1>1, Numbers
  <2> QED BY <1>1, <1>4, <2>1, DivBelow
<1>8. q3 % HeadValues = q3
  <2> HIDE DEF q3
  <2> QED BY <1>1, <1>6, <1>7
<1> DEFINE io == IoOf(TRUE, a)
<1>9. io[1] = a % B /\ io[2] = q1 % B /\ io[3] = q2 % B /\ io[4] = q3
  BY <1>2, <1>4, <1>8 DEF IoOf
<1>10. AddrOf(TRUE, io, io[4]) = io[1] + B * (io[2] + B * (io[3] + B * io[4]))
  BY DEF AddrOf
<1> HIDE DEF io, q1, q2, q3, B
<1>11. q2 = io[3] + B * io[4] /\ q1 = io[2] + B * q2 /\ a = io[1] + B * q1
  BY <1>1, <1>3, <1>5, <1>6, <1>9
<1>12. AddrOf(TRUE, io, io[4]) = a
  BY <1>10, <1>11
<1>13. io[1] \in 0..B - 1 /\ io[2] \in 0..B - 1 /\ io[3] \in 0..B - 1 /\ io[4] \in 0..HeadValues - 1
  BY <1>1, <1>3, <1>5, <1>6, <1>7, <1>9
<1> QED BY <1>12, <1>13 DEF io, B

\* Without: sector, cylinder and head.
LEMMA ChsFits ==
  ASSUME Ata!DiskBounds, Ata!Addressable, NEW a \in Nat, a < Wrap
  PROVE  /\ IoOf(FALSE, a)[1] \in 0..ByteValues - 1 /\ IoOf(FALSE, a)[2] \in 0..ByteValues - 1
         /\ IoOf(FALSE, a)[3] \in 0..ByteValues - 1 /\ IoOf(FALSE, a)[4] \in 0..HeadValues - 1
         /\ AddrOf(FALSE, IoOf(FALSE, a), IoOf(FALSE, a)[4]) = a
<1> DEFINE B == ByteValues
           S == Sectors
           m == Heads * S
           t == a \div S
           r == a % S
           cyl == (S * t) \div m
           io == IoOf(FALSE, a)
<1>1. B \in Nat \ {0} /\ S \in Nat \ {0} /\ Heads \in Nat \ {0} /\ HeadValues \in Nat \ {0} /\ S < B
      /\ Heads <= HeadValues /\ Ata!TwoBytes \in Nat \ {0}
  BY Numbers
<1>2. t \in Nat /\ r \in 0..S - 1 /\ a = S * t + r
  BY <1>1, DivMod
<1>3. a + 1 - (r + 1) = S * t
  <2> DEFINE x == S * t
  <2>1. x \in Int
    BY <1>1, <1>2
  <2>2. a = x + r
    BY <1>2
  <2> HIDE DEF x, r, t
  <2>3. a + 1 - (r + 1) = x
    BY <1>2, <2>1, <2>2
  <2> QED BY <2>3 DEF x
<1>4. m \in Nat \ {0} /\ m = S * Heads
  BY <1>1
<1> DEFINE h == t % Heads
<1>5. t \div Heads \in Nat /\ h \in 0..Heads - 1 /\ t = Heads * (t \div Heads) + h
  <2> HIDE DEF t
  <2> QED BY <1>1, <1>2, DivMod
<1> DEFINE c == t \div Heads
<1>6. S * t = m * c + S * h /\ S * h \in 0..m - 1
  <2> HIDE DEF t, h, c, m
  <2>1. S * t = S * (Heads * c) + S * h
    <3> DEFINE y == Heads * c
    <3>1. y \in Nat /\ t = y + h /\ h \in Nat
      BY <1>1, <1>5 DEF c
    <3> HIDE DEF y
    <3>2. S * (y + h) = S * y + S * h
      BY <1>1, <3>1
    <3> QED BY <3>1, <3>2 DEF y
  <2>2. S * (Heads * c) = m * c
    BY <1>1, <1>4, <1>5 DEF c
  <2>3. S * h \in Nat /\ S * h <= S * (Heads - 1) /\ S * (Heads - 1) = S * Heads - S
    BY <1>1, <1>5
  <2> DEFINE x == S * h
             y == S * Heads
  <2>4. x \in Nat /\ x <= y - S /\ m = y
    BY <1>4, <2>3
  <2> HIDE DEF x, y
  <2>5. x \in 0..m - 1
    BY <1>1, <1>4, <2>4
  <2> QED BY <2>1, <2>2, <2>5 DEF x
<1>7. cyl = c /\ (S * t) % m = S * h
  <2> DEFINE u == S * t
             x == S * h
             p == m * c
  <2>1. u \in Nat /\ x \in 0..m - 1 /\ u = p + x /\ c \in Nat
    BY <1>1, <1>2, <1>5, <1>6
  <2> HIDE DEF t, h, c, m, u, x
  <2>2. u \div m = c
    BY <1>4, <2>1, DivUnique
  <2>3. u % m \in 0..m - 1 /\ u = m * (u \div m) + (u % m)
    BY <1>4, <2>1, DivMod
  <2>4. p \in Nat
    BY <1>4, <2>1
  <2>5. u = p + (u % m)
    BY <2>2, <2>3
  <2> HIDE DEF p
  <2>6. u % m = x
    BY <2>1, <2>3, <2>4, <2>5
  <2> QED BY <2>2, <2>6 DEF u, x
<1>8. (S * h) \div S = h
  <2> DEFINE x == S * h
  <2>1. x \in Nat /\ x = S * h + 0 /\ h \in Nat
    BY <1>1, <1>5, <1>6
  <2> HIDE DEF x, h
  <2>2. x \div S = h
    BY <1>1, <2>1, DivUnique
  <2> QED BY <2>2 DEF x
<1>9. c \in Nat /\ c < Ata!TwoBytes
  <2>1. a < Ata!TwoBytes * Heads * S /\ Ata!TwoBytes * Heads * S = S * (Heads * Ata!TwoBytes)
    BY <1>1, Numbers DEF Ata!Addressable
  <2>2. Heads * Ata!TwoBytes \in Nat \ {0}
    BY <1>1
  <2>3. t < Heads * Ata!TwoBytes
    BY <1>1, <2>1, <2>2, DivBelow
  <2>4. c < Ata!TwoBytes
    <3> HIDE DEF t
    <3> QED BY <1>1, <1>2, <2>3, DivBelow
  <2> QED BY <1>5, <2>4
<1>10. c \div B \in Nat /\ c % B \in 0..B - 1 /\ c = B * (c \div B) + (c % B)
  <2> HIDE DEF c
  <2> QED BY <1>1, <1>9, DivMod
<1>11. c \div B < B
  <2> HIDE DEF c
  <2> QED BY <1>1, <1>9, DivBelow DEF Ata!TwoBytes
<1>12. (c \div B) % B = c \div B
  <2> DEFINE x == c \div B
  <2> HIDE DEF x
  <2>1. x \in Nat /\ x < B
    BY <1>10, <1>11 DEF x
  <2>2. x % B = x
    BY <1>1, <2>1
  <2> QED BY <2>2 DEF x
<1>13. io[1] = r + 1 /\ io[2] = c % B /\ io[3] = c \div B /\ io[4] = h
  <2>1. io = <<r + 1, ((a + 1 - (r + 1)) \div m) % B, (((a + 1 - (r + 1)) \div m) \div B) % B,
               ((a + 1 - (r + 1)) % m) \div S>>
    BY DEF IoOf
  <2>2. io = <<r + 1, cyl % B, (cyl \div B) % B, ((S * t) % m) \div S>>
    BY <1>3, <2>1
  <2>3. io = <<r + 1, c % B, c \div B, h>>
    BY <1>7, <1>8, <1>12, <2>2
  <2> HIDE DEF io
  <2> QED BY <2>3
<1>14. AddrOf(FALSE, io, io[4]) = ((io[2] + B * io[3]) * Heads + io[4]) * S + io[1] - 1
  BY DEF AddrOf
<1> HIDE DEF io
<1>15. AddrOf(FALSE, io, io[4]) = a
  <2>1. io[2] + B * io[3] = c
    <3> HIDE DEF c
    <3>1. B * (c \div B) \in Nat /\ c % B \in Nat
      BY <1>1, <1>10
    <3> QED BY <1>10, <1>13, <3>1
  <2>2. (io[2] + B * io[3]) * Heads + io[4] = t
    <3> HIDE DEF c, h, t
    <3>1. c * Heads = Heads * c
      BY <1>1, <1>9
    <3> QED BY <1>5, <1>13, <2>1, <3>1 DEF c
  <2>3. AddrOf(FALSE, io, io[4]) = t * S + (r + 1) - 1
    BY <1>13, <1>14, <2>2
  <2> DEFINE x == S * t
  <2>4. t * S = x /\ x \in Int /\ a = x + r
    BY <1>1, <1>2
  <2>5. r \in Int
    BY <1>1, <1>2
  <2>6. AddrOf(FALSE, io, io[4]) = x + (r + 1) - 1
    BY <2>3, <2>4
  <2>7. a = x + r /\ x \in Int
    BY <2>4
  <2> DEFINE v == AddrOf(FALSE, io, io[4])
  <2>8. v = x + (r + 1) - 1
    BY <2>6
  <2> HIDE DEF x, r, v
  <2>9. x + (r + 1) - 1 = x + r
    BY <2>5, <2>7
  <2>10. v = a
    BY <2>7, <2>8, <2>9
  <2> QED BY <2>10 DEF v
<1>16. io[1] \in 0..B - 1
  <2> HIDE DEF r
  <2> QED BY <1>1, <1>2, <1>13
<1>17. io[4] \in 0..HeadValues - 1
  <2> HIDE DEF h
  <2> QED BY <1>1, <1>5, <1>13
<1>18. io[2] \in 0..B - 1 /\ io[3] \in 0..B - 1
  <2> HIDE DEF c
  <2> QED BY <1>1, <1>10, <1>11, <1>13
<1> QED BY <1>15, <1>16, <1>17, <1>18 DEF io

\* The registers hold the address.
LEMMA Registers ==
  ASSUME Ata!DiskBounds, Ata!Addressable, NEW lba \in BOOLEAN, NEW a \in Nat, a < Wrap
  PROVE  /\ SubSeq(IoOf(lba, a), 1, 3) \in Seq(0..ByteValues - 1) /\ Len(SubSeq(IoOf(lba, a), 1, 3)) = 3
         /\ IoOf(lba, a)[4] \in 0..HeadValues - 1
         /\ AddrOf(lba, SubSeq(IoOf(lba, a), 1, 3), IoOf(lba, a)[4]) = a
<1> DEFINE io == IoOf(lba, a)
           r == SubSeq(io, 1, 3)
<1>1. /\ io[1] \in 0..ByteValues - 1 /\ io[2] \in 0..ByteValues - 1
      /\ io[3] \in 0..ByteValues - 1 /\ io[4] \in 0..HeadValues - 1
      /\ AddrOf(lba, io, io[4]) = a
  BY LbaFits, ChsFits
<1>2. \E w, x, y, z : io = <<w, x, y, z>>
  <2>1. CASE lba
    BY <2>1 DEF IoOf
  <2>2. CASE ~lba
    BY <2>2 DEF IoOf
  <2> QED BY <2>1, <2>2
<1> HIDE DEF io
<1>3. DOMAIN r = 1..3 /\ Len(r) = 3 /\ r[1] = io[1] /\ r[2] = io[2] /\ r[3] = io[3]
  <2>1. PICK w, x, y, z : io = <<w, x, y, z>>
    BY <1>2
  <2> DEFINE T == {w, x, y, z}
  <2>2. io \in Seq(T) /\ Len(io) = 4
    BY <2>1
  <2>3. r \in Seq(T) /\ Len(r) = 3 /\ \A k \in 1..3 : r[k] = io[k]
    BY <2>2
  <2> HIDE DEF r, T
  <2>4. DOMAIN r = 1..3
    BY <2>3
  <2> QED BY <2>3, <2>4
<1>4. r \in Seq(0..ByteValues - 1)
  <2> DEFINE T == 0..ByteValues - 1
  <2>1. io[1] \in T /\ io[2] \in T /\ io[3] \in T
    BY <1>1
  <2> HIDE DEF r, T
  <2>2. \A k \in 1..3 : r[k] \in T
    BY <1>3, <2>1
  <2>3. r = [k \in 1..3 |-> r[k]]
    <3>1. PICK w, x, y, z : io = <<w, x, y, z>>
      BY <1>2
    <3>2. io \in Seq({w, x, y, z}) /\ Len(io) = 4
      BY <3>1
    <3>3. SubSeq(io, 1, 3) \in Seq({w, x, y, z})
      BY <3>2
    <3>4. r \in Seq({w, x, y, z})
      BY <3>3 DEF r
    <3> QED BY <1>3, <3>4
  <2>4. r \in [1..3 -> T]
    BY <2>2, <2>3
  <2>5. r \in Seq(T)
    <3>1. Seq(T) = UNION {[1..n -> T] : n \in Nat}
      BY SeqDef, Zenon
    <3> QED BY <2>4, <3>1
  <2> QED BY <2>5 DEF T
<1>5. AddrOf(lba, r, io[4]) = AddrOf(lba, io, io[4])
  <2> HIDE DEF r
  <2> QED BY <1>3 DEF AddrOf
<1> QED BY <1>1, <1>3, <1>4, <1>5 DEF io

-----------------------------------------------------------------------------
(* The drives                                                                *)

Fields == {"phase", "op", "sector", "data", "left", "err"}

\* A drive's record; only an idle one shows an error, and only written sectors are stored.
DriveOk(r) ==
  /\ DOMAIN r = Fields
  /\ r.phase \in {"idle", "busy", "in", "out"}
  /\ r.op \in {"none", "identify", "packet", "read", "write", "store", "flush"}
  /\ r.sector \in Int /\ r.left \in 0..Ata!Quarter /\ r.err \in BOOLEAN
  /\ r.err => r.phase = "idle"
  /\ r.phase = "busy" /\ r.op = "store" => r.sector \in Scratch /\ r.data \in Values

Told(command, s) == [Ata!Quiet EXCEPT !.phase = "busy", !.op = command, !.sector = s]

\* The records that drives are set to.
LEMMA DriveShapes ==
  /\ DriveOk(Ata!Quiet) /\ Ata!Quiet.phase = "idle"
  /\ DriveOk(Ata!Refused) /\ Ata!Refused.phase = "idle"
  /\ \A c : DriveOk(Ata!Offers(c)) /\ Ata!Offers(c).phase = "in" /\ Ata!Offers(c).data = c
            /\ Ata!Offers(c).left = Ata!Quarter
  /\ \A command \in {"identify", "packet", "read", "write", "flush"}, s \in Int :
       DriveOk(Told(command, s)) /\ Told(command, s).phase = "busy" /\ Told(command, s).op = command
       /\ Told(command, s).sector = s
<1> USE DEF DriveOk, Fields, Ata!Quiet, Ata!Quarter
<1>1. DriveOk(Ata!Quiet) /\ Ata!Quiet.phase = "idle"
  OBVIOUS
<1>2. DriveOk(Ata!Refused) /\ Ata!Refused.phase = "idle"
  BY DEF Ata!Refused
<1>3. ASSUME NEW c
      PROVE  DriveOk(Ata!Offers(c)) /\ Ata!Offers(c).phase = "in" /\ Ata!Offers(c).data = c
             /\ Ata!Offers(c).left = Ata!Quarter
  BY DEF Ata!Offers
<1>4. ASSUME NEW command \in {"identify", "packet", "read", "write", "flush"}, NEW s \in Int
      PROVE  /\ DriveOk(Told(command, s)) /\ Told(command, s).phase = "busy"
             /\ Told(command, s).op = command /\ Told(command, s).sector = s
  BY DEF Told
<1> QED BY <1>1, <1>2, <1>3, <1>4

\* What the drives are, all of them.
DrivesOk(e) == DOMAIN e = Ata!Drives /\ \A d \in Ata!Drives : DriveOk(e[d])

\* But for the error bit a drive is the same.
Same(q, r) == q.phase = r.phase /\ q.op = r.op /\ q.sector = r.sector /\ q.data = r.data /\ q.left = r.left

\* A write to the command register that is no command.
LEMMA NonsenseIs ==
  ASSUME DrivesOk(dev), Ata!Sel \in Ata!Drives
  PROVE  DrivesOk(Ata!CommandedNonsense) /\ \A d \in Ata!Drives : Same(Ata!CommandedNonsense[d], dev[d])
<1> DEFINE e == Ata!CommandedNonsense
           b == dev[Ata!Sel].err \/ (dev[Ata!Sel].phase = "idle" /\ kind[Ata!Sel] # "none")
<1>1. e = [dev EXCEPT ![Ata!Sel].err = b]
  BY DEF Ata!CommandedNonsense
<1>2. DriveOk(dev[Ata!Sel]) /\ DOMAIN dev = Ata!Drives
  BY DEF DrivesOk
<1>3. b \in BOOLEAN /\ (b => dev[Ata!Sel].phase = "idle")
  BY <1>2, Zenon DEF DriveOk
<1> HIDE DEF b
<1> DEFINE r == [dev[Ata!Sel] EXCEPT !.err = b]
<1>4. DriveOk(r) /\ Same(r, dev[Ata!Sel])
  BY <1>2, <1>3 DEF DriveOk, Same, Fields
<1>5. e[Ata!Sel] = r /\ DOMAIN e = Ata!Drives /\ \A d \in Ata!Drives \ {Ata!Sel} : e[d] = dev[d]
  BY <1>1, <1>2
<1> HIDE DEF e, r
<1>6. \A d \in Ata!Drives \ {Ata!Sel} : DriveOk(e[d]) /\ Same(e[d], dev[d])
  BY <1>5 DEF DrivesOk, Same
<1>7. DrivesOk(e) /\ \A d \in Ata!Drives : Same(e[d], dev[d])
  BY <1>4, <1>5, <1>6 DEF DrivesOk
<1> QED BY <1>7 DEF e

\* A command: lost, or taken.
LEMMA CommandedIs ==
  ASSUME DrivesOk(dev), Ata!Sel \in Ata!Drives, NEW command \in {"identify", "packet", "read", "write", "flush"},
         Ata!Addressed \in Int
  PROVE  /\ DrivesOk(Ata!Commanded(command)) /\ \A d \in Ata!Drives \ {Ata!Sel} : Ata!Commanded(command)[d] = dev[d]
         /\ dev[Ata!Sel].phase # "idle" \/ kind[Ata!Sel] = "none" => Ata!Commanded(command)[Ata!Sel] = dev[Ata!Sel]
         /\ dev[Ata!Sel].phase = "idle" /\ kind[Ata!Sel] # "none" =>
              Ata!Commanded(command)[Ata!Sel] = Told(command, Ata!Addressed)
<1> DEFINE e == Ata!Commanded(command)
           t == Told(command, Ata!Addressed)
<1>1. e = [dev EXCEPT ![Ata!Sel] = IF dev[Ata!Sel].phase # "idle" \/ kind[Ata!Sel] = "none" THEN dev[Ata!Sel] ELSE t]
  BY DEF Ata!Commanded, Told
<1>2. DriveOk(t)
  BY DriveShapes
<1>3. DriveOk(dev[Ata!Sel]) /\ DOMAIN dev = Ata!Drives
  BY DEF DrivesOk
<1> HIDE DEF t
<1>4. /\ DOMAIN e = Ata!Drives /\ \A d \in Ata!Drives \ {Ata!Sel} : e[d] = dev[d]
      /\ dev[Ata!Sel].phase # "idle" \/ kind[Ata!Sel] = "none" => e[Ata!Sel] = dev[Ata!Sel]
      /\ dev[Ata!Sel].phase = "idle" /\ kind[Ata!Sel] # "none" => e[Ata!Sel] = t
  BY <1>1, <1>3
<1> HIDE DEF e
<1>5. DrivesOk(e)
  BY <1>2, <1>3, <1>4 DEF DrivesOk
<1> QED BY <1>4, <1>5 DEF e, t

\* A transfer out of the drive.
LEMMA DrainedIs ==
  ASSUME DrivesOk(dev), Ata!Sel \in Ata!Drives, NEW n \in Nat \ {0}
  PROVE  /\ DrivesOk(Ata!Drained(n)) /\ \A d \in Ata!Drives \ {Ata!Sel} : Ata!Drained(n)[d] = dev[d]
         /\ dev[Ata!Sel].phase # "in" => Ata!Drained(n)[Ata!Sel] = dev[Ata!Sel]
         /\ dev[Ata!Sel].phase = "in" /\ dev[Ata!Sel].left <= n => Ata!Drained(n)[Ata!Sel] = Ata!Quiet
         /\ dev[Ata!Sel].phase = "in" /\ dev[Ata!Sel].left > n => Ata!Drained(n)[Ata!Sel].phase = "in"
<1> DEFINE e == Ata!Drained(n)
           r == [dev[Ata!Sel] EXCEPT !.left = dev[Ata!Sel].left - n]
<1>1. e = [dev EXCEPT ![Ata!Sel] = IF dev[Ata!Sel].phase # "in" THEN dev[Ata!Sel]
                                   ELSE IF dev[Ata!Sel].left > n THEN r ELSE Ata!Quiet]
  BY DEF Ata!Drained
<1>2. DriveOk(dev[Ata!Sel]) /\ DOMAIN dev = Ata!Drives
  BY DEF DrivesOk
<1>3. dev[Ata!Sel].phase = "in" /\ dev[Ata!Sel].left > n => DriveOk(r) /\ r.phase = "in"
  BY <1>2 DEF DriveOk, Fields, Ata!Quarter
<1>4. dev[Ata!Sel].left \in Nat
  BY <1>2 DEF DriveOk, Ata!Quarter
<1> HIDE DEF r
<1>5. /\ DOMAIN e = Ata!Drives /\ \A d \in Ata!Drives \ {Ata!Sel} : e[d] = dev[d]
      /\ dev[Ata!Sel].phase # "in" => e[Ata!Sel] = dev[Ata!Sel]
      /\ dev[Ata!Sel].phase = "in" /\ dev[Ata!Sel].left <= n => e[Ata!Sel] = Ata!Quiet
      /\ dev[Ata!Sel].phase = "in" /\ dev[Ata!Sel].left > n => e[Ata!Sel] = r
  BY <1>1, <1>2, <1>4
<1> HIDE DEF e
<1>6. dev[Ata!Sel].left <= n \/ dev[Ata!Sel].left > n
  BY <1>4
<1>7. DriveOk(e[Ata!Sel])
  BY <1>2, <1>3, <1>5, <1>6, DriveShapes
<1>8. DrivesOk(e)
  BY <1>2, <1>5, <1>7 DEF DrivesOk
<1> QED BY <1>3, <1>5, <1>8 DEF e

\* A sector of data for the drive.
LEMMA GivenIs ==
  ASSUME DrivesOk(dev), Ata!Sel \in Ata!Drives, NEW v \in Values,
         dev[Ata!Sel].phase = "out" => dev[Ata!Sel].sector \in Scratch
  PROVE  /\ DrivesOk(Ata!Given(v)) /\ \A d \in Ata!Drives \ {Ata!Sel} : Ata!Given(v)[d] = dev[d]
         /\ dev[Ata!Sel].phase # "out" => Ata!Given(v)[Ata!Sel] = dev[Ata!Sel]
         /\ dev[Ata!Sel].phase = "out" =>
              /\ Ata!Given(v)[Ata!Sel].phase = "busy" /\ Ata!Given(v)[Ata!Sel].op = "store"
              /\ Ata!Given(v)[Ata!Sel].sector = dev[Ata!Sel].sector /\ Ata!Given(v)[Ata!Sel].data = v
<1> DEFINE e == Ata!Given(v)
           r == [dev[Ata!Sel] EXCEPT !.phase = "busy", !.op = "store", !.data = v]
<1>1. e = [dev EXCEPT ![Ata!Sel] = IF dev[Ata!Sel].phase # "out" THEN dev[Ata!Sel] ELSE r]
  BY DEF Ata!Given
<1>2. DriveOk(dev[Ata!Sel]) /\ DOMAIN dev = Ata!Drives
  BY DEF DrivesOk
<1>3. /\ DOMAIN r = Fields /\ r.phase = "busy" /\ r.op = "store" /\ r.data = v
      /\ r.sector = dev[Ata!Sel].sector /\ r.left = dev[Ata!Sel].left /\ r.err = dev[Ata!Sel].err
  BY <1>2 DEF DriveOk, Fields
<1> HIDE DEF r
<1>4. dev[Ata!Sel].phase = "out" => DriveOk(r)
  BY <1>2, <1>3 DEF DriveOk
<1>5. /\ DOMAIN e = Ata!Drives /\ \A d \in Ata!Drives \ {Ata!Sel} : e[d] = dev[d]
      /\ dev[Ata!Sel].phase # "out" => e[Ata!Sel] = dev[Ata!Sel]
      /\ dev[Ata!Sel].phase = "out" => e[Ata!Sel] = r
  BY <1>1, <1>2
<1> HIDE DEF e
<1>6. DrivesOk(e)
  BY <1>2, <1>4, <1>5 DEF DrivesOk
<1> QED BY <1>3, <1>5, <1>6 DEF e

-----------------------------------------------------------------------------
(* What always holds                                                         *)

\* What a sector holds, and which sectors a drive has.
Held(st, d, s) == IF s \in Scratch THEN [Ata!Nothing EXCEPT !.from = <<d, s, st[d][s]>>] ELSE Ata!Sector(d, s)
Reach(k, s) == s \in 0..(IF k = "lba" THEN Capacity ELSE Cylinders * Heads * Sectors) - 1

Detecting == {"detect", "dselect", "didentify", "dpoll", "dpacket", "mount"}
Places == Detecting \cup {"select", "reset", "choose", "regs", "command", "transfer", "flush", "flushed",
                          "return", "idle", "more"}

DeviceRecords == [model: {"unknown", "disk", "packet"}, lba: BOOLEAN, size: Nat]
Jobs == [drive: Ata!Drives, op: {"read", "write"}, addr: Nat, value: Values \cup {Unknown},
         then: {"none", "probe", "header", "content", "written"}, dummy: BOOLEAN]
WalkRecords == [want: Ata!Names \cup {Inner, Unknown}, block: Nat, index: Nat, size: Nat, done: Nat, left: Nat]

\* Types of the variables.
DiskTypes ==
  /\ kind \in [Ata!Drives -> Ata!Kinds]
  /\ devsel \in [drive: Ata!Drives, lba: BOOLEAN, head: 0..HeadValues - 1]
  /\ regs \in Seq(0..ByteValues - 1) /\ Len(regs) = 3
  /\ DrivesOk(dev)
  /\ stored \in [Ata!Drives -> [Scratch -> Values \cup {Unknown}]]
  /\ found \in [Ata!Drives -> DeviceRecords]
  /\ mounted \in Ata!Drives \cup {Ata!NoDrive}
  /\ at \in Places /\ job \in Jobs /\ ok \in BOOLEAN
  /\ walker \in WalkRecords /\ answer \in {"none", "found", "no file", "missing", "failed"}
  /\ late \in 0..MaxLate /\ errors \in 0..MaxErrors
  /\ kept \in [Scratch -> Values \cup {Unknown}]

\* A disk was found where one is.
FoundInv ==
  \A d \in Ata!Drives : found[d].model = "disk" =>
    kind[d] \in Ata!Disks /\ found[d].lba = (kind[d] = "lba") /\ found[d].size = Ata!SizeOf(kind[d])

\* A drive while the drives are looked for.
Sought(d) ==
  /\ dev[d].phase # "out" /\ (dev[d].phase = "busy" => dev[d].op \in {"identify", "packet"} /\ kind[d] # "none")
  /\ found[d].model = "disk" => dev[d].phase = "in"
  /\ d >= job.drive /\ at # "mount" => found[d].model = "unknown"
  /\ d > job.drive => dev[d].phase = "idle"
  /\ d = job.drive /\ at \in {"detect", "dselect", "didentify"} => dev[d].phase = "idle"

DetectInv ==
  at \in Detecting =>
    /\ mounted = Ata!NoDrive /\ job.then = "none" /\ ~job.dummy /\ answer = "none"
    /\ \A s \in Scratch : kept[s] = Unknown
    /\ \A d \in Ata!Drives : Sought(d)
    /\ at \in {"didentify", "dpoll", "dpacket"} => Ata!Sel = job.drive
    /\ at = "dpoll" => /\ dev[Ata!Sel].phase = "busy" => dev[Ata!Sel].op = "identify"
                       /\ dev[Ata!Sel].phase = "in" => kind[Ata!Sel] \in Ata!Disks
                          /\ dev[Ata!Sel].left = Ata!Quarter

\* The drive of the ATAPhys and what it is doing.
D == dev[mounted]
Storing == D.phase = "busy" /\ D.op \in {"store", "flush"}
DriveDoing(command) == D.phase = "busy" /\ D.op = command /\ D.sector = job.addr

\* What the channel's registers say.
MountInv ==
  at \notin Detecting =>
    /\ mounted \in Ata!Drives /\ found[mounted].model = "disk" /\ job.drive = mounted
    /\ at \notin {"select", "return", "idle", "more"} =>
         Ata!Sel = mounted /\ devsel.lba = found[mounted].lba
    /\ at \in {"regs", "command", "transfer"} => devsel.head = IoOf(found[mounted].lba, Ata!Addr)[4]
    /\ at \in {"command", "transfer"} => regs = SubSeq(IoOf(found[mounted].lba, Ata!Addr), 1, 3)

\* What is asked for.
JobInv ==
  /\ job.addr < Wrap
  /\ job.op = "write" <=> job.then = "written"
  /\ job.op = "write" =>
       job.addr \in Scratch /\ Reach(kind[mounted], job.addr) /\ job.value \in Values
  /\ at \in {"flush", "flushed"} => job.op = "write"
  /\ at \in {"flush", "flushed", "return", "idle", "more"} => ~job.dummy
  /\ at = "select" => job.dummy

\* What the drive does meanwhile.
PhaseInv ==
  at \notin Detecting =>
    /\ job.dummy /\ at \in {"select", "reset", "choose"} => D.phase \in {"idle", "in"} \/ Storing
    /\ job.dummy /\ at \in {"regs", "command"} => D.phase \in {"idle", "in"}
    /\ job.dummy /\ at = "transfer" =>
         D.phase \in {"idle", "in"} \/ (D.phase = "busy" /\ D.op = "read")
    /\ ~job.dummy /\ at \in {"reset", "choose", "flushed", "return", "idle", "more"} =>
         D.phase = "idle" \/ Storing
    /\ ~job.dummy /\ at \in {"regs", "command"} => D.phase = "idle"
    /\ ~job.dummy /\ at = "transfer" /\ job.op = "read" =>
         \/ D.phase = "idle" \/ DriveDoing("read")
         \/ D.phase = "in" /\ D.data = Held(stored, mounted, job.addr) /\ D.left = Ata!Quarter
    /\ ~job.dummy /\ at = "transfer" /\ job.op = "write" =>
         \/ D.phase = "idle" /\ errors > 0
         \/ DriveDoing("write")
         \/ D.phase = "out" /\ D.sector = job.addr
    /\ at = "flush" => D.phase = "idle" \/ (DriveDoing("store") /\ D.data = job.value)

\* A read has brought what was asked for.
ReadInv ==
  at = "return" /\ ok /\ job.op = "read" =>
    D.phase = "idle" /\ got = Held(stored, mounted, job.addr)

\* A value is in a sector, or on its way there.
InStore(r) == r.phase = "busy" /\ r.op = "store"
KeptIn(st, r, s, v) == st[s] = v \/ (InStore(r) /\ r.sector = s /\ r.data = v)
Kept(s, v) == KeptIn(stored[mounted], D, s, v)
OnlyIn(r, s, v) == InStore(r) => r.sector = s /\ r.data = v

StoreInv ==
  at \notin Detecting =>
    /\ InStore(D) => kept[D.sector] \in {Unknown, D.data}
    /\ job.op = "write" /\ at # "idle" => kept[job.addr] = Unknown
    /\ job.op = "write" /\ (at \in {"flush", "flushed"} \/ (at = "return" /\ ok)) =>
         OnlyIn(D, job.addr, job.value) /\ (errors = 0 => Kept(job.addr, job.value))
    /\ errors = 0 => \A s \in Scratch : kept[s] # Unknown => Kept(s, kept[s])

\* A block of a file is being read.
CopyInv ==
  job.then = "content" /\ at \notin {"idle", "more"} => walker.done < walker.size /\ walker.left > 0

DiskInv ==
  /\ DiskTypes /\ FoundInv /\ DetectInv /\ MountInv /\ JobInv
  /\ PhaseInv /\ ReadInv /\ StoreInv /\ CopyInv

\* What is used all the time.
LEMMA DiskFacts ==
  ASSUME Ata!DiskBounds, Ata!Addressable, DiskInv
  PROVE  /\ Ata!Drives = {0, 1} /\ Ata!Sel \in Ata!Drives /\ Ata!Addressed \in Int /\ DOMAIN dev = Ata!Drives
         /\ \A d \in Ata!Drives : DriveOk(dev[d]) /\ found[d] \in DeviceRecords
         /\ at \notin Detecting => mounted \in Ata!Drives /\ kind[mounted] \in Ata!Disks /\ Ata!Me = found[mounted]
         /\ at = "command" => Ata!Addressed = Ata!Addr
         /\ Ata!Addr \in Nat /\ Ata!Addr < Wrap
<1> USE DEF DiskInv
<1>1. Ata!Drives = {0, 1} /\ Ata!Sel \in Ata!Drives
  BY DEF Ata!Drives, Ata!Sel, DiskTypes
<1>2. Ata!Addressed \in Int
  <2>1. regs[1] \in Int /\ regs[2] \in Int /\ regs[3] \in Int /\ devsel.head \in Int
    <3>1. regs \in Seq(0..ByteValues - 1) /\ Len(regs) = 3 /\ ByteValues \in Nat
          /\ devsel \in [drive: Ata!Drives, lba: BOOLEAN, head: 0..HeadValues - 1] /\ HeadValues \in Nat
      BY Numbers DEF DiskTypes
    <3>2. regs[1] \in 0..ByteValues - 1 /\ regs[2] \in 0..ByteValues - 1 /\ regs[3] \in 0..ByteValues - 1
      <4> DEFINE T == 0..ByteValues - 1
      <4> HIDE DEF T
      <4>1. regs \in Seq(T) /\ Len(regs) = 3
        BY <3>1 DEF T
      <4>2. regs[1] \in T /\ regs[2] \in T /\ regs[3] \in T
        BY <4>1
      <4> QED BY <4>2 DEF T
    <3>3. devsel.head \in 0..HeadValues - 1
      BY <3>1
    <3> QED BY <3>1, <3>2, <3>3
  <2>2. \A m, n \in Int : m * n \in Int /\ m + n \in Int /\ m - 1 \in Int
    OBVIOUS
  <2>3. ByteValues \in Int /\ Heads \in Int /\ Sectors \in Int
    BY Numbers
  <2> DEFINE x1 == regs[3] + ByteValues * devsel.head
             x2 == regs[2] + ByteValues * x1
             x3 == regs[1] + ByteValues * x2
             y1 == regs[2] + ByteValues * regs[3]
             y2 == y1 * Heads + devsel.head
             y3 == y2 * Sectors + regs[1] - 1
  <2>4. x1 \in Int /\ y1 \in Int
    BY <2>1, <2>2, <2>3
  <2> HIDE DEF x1, y1
  <2>5. x2 \in Int /\ y2 \in Int
    BY <2>1, <2>2, <2>3, <2>4
  <2> HIDE DEF x2, y2
  <2>6. x3 \in Int /\ y3 \in Int
    BY <2>1, <2>2, <2>3, <2>5
  <2>7. Ata!Addressed = IF devsel.lba THEN x3 ELSE y3
    BY DEF Ata!Addressed, x1, x2, y1, y2
  <2> QED BY <2>6, <2>7
<1>3. DOMAIN dev = Ata!Drives /\ \A d \in Ata!Drives : DriveOk(dev[d]) /\ found[d] \in DeviceRecords
  BY DEF DiskTypes, DrivesOk
<1>4. at \notin Detecting => mounted \in Ata!Drives /\ kind[mounted] \in Ata!Disks /\ Ata!Me = found[mounted]
  BY DEF MountInv, FoundInv, Ata!Me
<1>5. Ata!Addr \in Nat /\ Ata!Addr < Wrap
  <2>1. job.addr \in Nat /\ job.addr < Wrap
    BY DEF DiskTypes, Jobs, JobInv
  <2> QED BY <2>1, Numbers DEF Ata!Addr
<1>6. at = "command" => Ata!Addressed = Ata!Addr
  <2> SUFFICES ASSUME at = "command" PROVE Ata!Addressed = Ata!Addr
    OBVIOUS
  <2>1. /\ devsel.lba = found[mounted].lba /\ devsel.head = IoOf(found[mounted].lba, Ata!Addr)[4]
        /\ regs = SubSeq(IoOf(found[mounted].lba, Ata!Addr), 1, 3) /\ mounted \in Ata!Drives
    BY DEF MountInv, Detecting
  <2>2. found[mounted].lba \in BOOLEAN
    BY <1>3, <2>1 DEF DeviceRecords
  <2>3. Ata!Addressed = AddrOf(devsel.lba, regs, devsel.head)
    BY DEF Ata!Addressed, AddrOf
  <2> QED BY <1>5, <2>1, <2>2, <2>3, Registers
<1> QED BY <1>1, <1>2, <1>3, <1>4, <1>5, <1>6

\* The names of the definitions above for those of the model.
LEMMA DiskNames ==
  /\ \A a : Ata!IoAddr(a) = IoOf(Ata!Me.lba, a)
  /\ \A d, s : Ata!Content(d, s) = Held(stored, d, s)
  /\ \A d, s : Ata!Exists(d, s) <=> Reach(kind[d], s)
<1>1. \A a : Ata!IoAddr(a) = IoOf(Ata!Me.lba, a)
  BY DEF Ata!IoAddr, IoOf
<1>2. \A d, s : Ata!Content(d, s) = Held(stored, d, s)
  BY DEF Ata!Content, Held
<1>3. \A d, s : Ata!Exists(d, s) <=> Reach(kind[d], s)
  BY DEF Ata!Exists, Reach
<1> QED BY <1>1, <1>2, <1>3

-----------------------------------------------------------------------------
(* Looking for the drives                                                    *)

\* While that goes on nothing is asked of a disk.
LEMMA NothingAsked ==
  ASSUME DiskInv, at \in Detecting, at' \in Detecting,
         \/ UNCHANGED job
         \/ job' = [job EXCEPT !.drive = 1]
  PROVE  MountInv' /\ JobInv' /\ PhaseInv' /\ ReadInv' /\ StoreInv' /\ CopyInv'
<1>1. job \in Jobs /\ job.then = "none" /\ job.op = "read" /\ job.addr < Wrap
  BY DEF DiskInv, DetectInv, JobInv, DiskTypes, Jobs
<1>2. job'.then = "none" /\ job'.op = "read" /\ job'.addr = job.addr
  BY <1>1 DEF Jobs
<1>3. JobInv'
  <2>1. at' \notin {"flush", "flushed", "return", "idle", "more", "select"}
    BY DEF Detecting
  <2>2. Wrap' = Wrap
    OBVIOUS
  <2> QED BY <1>1, <1>2, <2>1, <2>2 DEF JobInv
<1>4. MountInv' /\ PhaseInv' /\ StoreInv'
  BY DEF MountInv, PhaseInv, StoreInv
<1>5. ReadInv' /\ CopyInv'
  BY <1>2 DEF ReadInv, CopyInv, Detecting
<1> QED BY <1>3, <1>4, <1>5

\* What holds of a drive that is the same holds of it still.
LEMMA SoughtStill ==
  ASSUME DiskInv, at \in Detecting, at' \in Detecting, NEW d \in Ata!Drives, dev'[d].phase = dev[d].phase,
         dev'[d].op = dev[d].op, found'[d] = found[d], kind' = kind, job'.drive \in Ata!Drives,
         job'.drive >= job.drive,
         at' \in {"didentify"} => at = "dselect" /\ job'.drive = job.drive,
         at' \in {"dselect"} => at = "detect" /\ job'.drive = job.drive,
         at' = "detect" => job'.drive = 1 /\ job.drive = 0, at = "mount" => at' = "mount"
  PROVE  Sought(d)'
<1>1. Sought(d) /\ job.drive \in Ata!Drives /\ Ata!Drives = {0, 1}
  BY DEF DiskInv, DetectInv, DiskTypes, Jobs, Ata!Drives
<1> QED BY <1>1 DEF Sought, Detecting

\* detect() starts with the next drive.
LEMMA DetectKeeps == ASSUME Ata!DiskBounds, Ata!Addressable, DiskInv, Ata!Detect PROVE DiskInv'
<1>1. /\ at = "detect" /\ at' = "dselect" /\ dev' = Ata!CommandedNonsense
      /\ UNCHANGED <<kind, devsel, regs, stored, late, errors, found, mounted, job, ok, got, walker, answer, kept>>
  BY DEF Ata!Detect, Ata!reader
<1>2. Ata!Sel \in Ata!Drives /\ DrivesOk(dev) /\ Ata!Drives = {0, 1}
  BY DiskFacts DEF DiskInv, DiskTypes
<1>3. DrivesOk(dev') /\ \A d \in Ata!Drives : Same(dev'[d], dev[d])
  BY <1>1, <1>2, NonsenseIs
<1>4. DiskTypes' /\ FoundInv'
  BY <1>1, <1>3 DEF DiskInv, DiskTypes, FoundInv, Places, Detecting
<1>5. ASSUME NEW d \in Ata!Drives PROVE Sought(d)'
  BY <1>1, <1>2, <1>3, SoughtStill DEF DiskInv, DetectInv, Sought, Same, Detecting
<1>6. DetectInv'
  BY <1>1, <1>5 DEF DiskInv, DetectInv, Detecting
<1>7. at \in Detecting /\ at' \in Detecting
  BY <1>1 DEF Detecting
<1> QED BY <1>1, <1>4, <1>6, <1>7, NothingAsked DEF DiskInv

\* It selects the drive.
LEMMA DetectSelectKeeps == ASSUME Ata!DiskBounds, Ata!Addressable, DiskInv, Ata!DetectSelect PROVE DiskInv'
<1>1. /\ at = "dselect" /\ at' = "didentify"
      /\ devsel' = [drive |-> job.drive, lba |-> FALSE, head |-> 0]
      /\ UNCHANGED <<kind, regs, dev, stored, late, errors, found, mounted, job, ok, got, walker, answer, kept>>
  BY DEF Ata!DetectSelect, Ata!Select, Ata!reader
<1>2. job.drive \in Ata!Drives /\ 0 \in 0..HeadValues - 1
  <2>1. HeadValues \in Nat \ {0}
    BY Numbers
  <2>2. job.drive \in Ata!Drives
    BY DEF DiskInv, DiskTypes, Jobs
  <2> QED BY <2>1, <2>2
<1>3. devsel' \in [drive: Ata!Drives, lba: BOOLEAN, head: 0..HeadValues - 1] /\ Ata!Sel' = job.drive
  BY <1>1, <1>2 DEF Ata!Sel
<1>4. DiskTypes' /\ FoundInv'
  BY <1>1, <1>3 DEF DiskInv, DiskTypes, FoundInv, Places, Detecting
<1>5. ASSUME NEW d \in Ata!Drives PROVE Sought(d)'
  BY <1>1 DEF DiskInv, DetectInv, Sought, Detecting
<1>6. DetectInv'
  BY <1>1, <1>3, <1>5 DEF DiskInv, DetectInv, Detecting
<1>7. at \in Detecting /\ at' \in Detecting
  BY <1>1 DEF Detecting
<1> QED BY <1>1, <1>4, <1>6, <1>7, NothingAsked DEF DiskInv

\* A command to the drive that detect() has selected.
LEMMA CommandKeeps ==
  ASSUME Ata!DiskBounds, Ata!Addressable, DiskInv,
         \/ at = "didentify" /\ at' = "dpoll" /\ dev' = Ata!Commanded("identify")
         \/ at = "dpoll" /\ at' = "dpacket" /\ dev' = Ata!Commanded("packet"),
         UNCHANGED <<kind, devsel, regs, stored, late, errors, found, mounted, job, ok, got, walker, answer, kept>>
  PROVE  DiskInv'
<1>1. Ata!Sel = job.drive /\ Ata!Sel \in Ata!Drives /\ DrivesOk(dev) /\ Ata!Addressed \in Int /\ Ata!Drives = {0, 1}
  BY DiskFacts DEF DiskInv, DiskTypes, DetectInv, Detecting
<1> DEFINE command == IF at = "didentify" THEN "identify" ELSE "packet"
<1>2. command \in {"identify", "packet", "read", "write", "flush"} /\ dev' = Ata!Commanded(command)
  OBVIOUS
<1>3. /\ DrivesOk(dev') /\ \A d \in Ata!Drives \ {Ata!Sel} : dev'[d] = dev[d]
      /\ dev[Ata!Sel].phase # "idle" \/ kind[Ata!Sel] = "none" => dev'[Ata!Sel] = dev[Ata!Sel]
      /\ dev[Ata!Sel].phase = "idle" /\ kind[Ata!Sel] # "none" => dev'[Ata!Sel] = Told(command, Ata!Addressed)
  BY <1>1, <1>2, CommandedIs
<1>4. Told(command, Ata!Addressed).phase = "busy" /\ Told(command, Ata!Addressed).op = command
  BY <1>1, <1>2, DriveShapes
<1>5. DiskTypes' /\ FoundInv'
  BY <1>3 DEF DiskInv, DiskTypes, FoundInv, Places, Detecting
<1>6. ASSUME NEW d \in Ata!Drives PROVE Sought(d)'
  <2>1. Sought(d) /\ found[Ata!Sel].model = "unknown"
    BY <1>1 DEF DiskInv, DetectInv, Sought, Detecting
  <2>2. CASE d # Ata!Sel \/ dev'[Ata!Sel] = dev[Ata!Sel]
    BY <1>3, <2>1, <2>2 DEF Sought
  <2>3. CASE d = Ata!Sel /\ dev[Ata!Sel].phase = "idle" /\ kind[Ata!Sel] # "none"
    BY <1>1, <1>3, <1>4, <2>1, <2>3 DEF Sought
  <2>4. DriveOk(dev[Ata!Sel])
    BY <1>1 DEF DrivesOk
  <2> QED BY <1>3, <2>2, <2>3
<1>7. Ata!Sel' = Ata!Sel
  BY DEF Ata!Sel
<1>8. at' = "dpoll" => (dev'[Ata!Sel].phase = "busy" => dev'[Ata!Sel].op = "identify") /\ dev'[Ata!Sel].phase # "in"
  BY <1>1, <1>3, <1>4 DEF DiskInv, DetectInv, Sought, Detecting
<1>9. DetectInv'
  BY <1>1, <1>6, <1>7, <1>8 DEF DiskInv, DetectInv, Detecting
<1>10. at \in Detecting /\ at' \in Detecting
  BY DEF Detecting
<1> QED BY <1>5, <1>9, <1>10, NothingAsked DEF DiskInv

\* detect() of a drive ends, and has found this.
LEMMA DetectedKeeps ==
  ASSUME Ata!DiskBounds, Ata!Addressable, DiskInv, at \in {"dselect", "dpoll", "dpacket"}, Ata!Detected,
         DrivesOk(dev'), found' \in [Ata!Drives -> DeviceRecords], late' \in 0..MaxLate,
         \A d \in Ata!Drives \ {job.drive} : dev'[d] = dev[d] /\ found'[d] = found[d],
         dev'[job.drive].phase # "out",
         dev'[job.drive].phase = "busy" => dev'[job.drive].op \in {"identify", "packet"}
         /\ kind[job.drive] # "none",
         found'[job.drive].model = "disk" =>
           /\ dev'[job.drive].phase = "in" /\ kind[job.drive] \in Ata!Disks
           /\ found'[job.drive].lba = (kind[job.drive] = "lba")
           /\ found'[job.drive].size = Ata!SizeOf(kind[job.drive]),
         UNCHANGED <<kind, devsel, regs, stored, errors, mounted, ok, got, walker, answer, kept>>
  PROVE  DiskInv'
<1>1. job \in Jobs /\ job.drive \in Ata!Drives /\ Ata!Drives = {0, 1}
  BY DEF DiskInv, DiskTypes, Jobs, Ata!Drives
<1>2. \/ job.drive = 0 /\ at' = "detect" /\ job' = [job EXCEPT !.drive = 1]
      \/ job.drive = 1 /\ at' = "mount" /\ job' = job
  BY <1>1 DEF Ata!Detected
<1>3. job' \in Jobs /\ job'.drive = 1 /\ job'.then = job.then /\ job'.dummy = job.dummy
  BY <1>1, <1>2 DEF Jobs
<1>4. DiskTypes'
  BY <1>2, <1>3 DEF DiskInv, DiskTypes, Places, Detecting
<1>5. FoundInv'
  BY <1>1 DEF DiskInv, FoundInv
<1>6. at \in Detecting /\ at' \in Detecting /\ at' \in {"detect", "mount"}
  BY <1>2 DEF Detecting
<1>7. ASSUME NEW d \in Ata!Drives PROVE Sought(d)'
  <2>1. Sought(d)
    BY <1>6 DEF DiskInv, DetectInv
  <2>2. CASE d = job.drive
    BY <1>1, <1>2, <1>3, <2>2 DEF Sought
  <2>3. CASE d # job.drive
    BY <1>1, <1>2, <1>3, <2>1, <2>3 DEF Sought, Detecting
  <2> QED BY <2>2, <2>3
<1>8. DetectInv'
  BY <1>3, <1>6, <1>7 DEF DiskInv, DetectInv
<1> QED BY <1>2, <1>4, <1>5, <1>6, <1>8, NothingAsked DEF DiskInv

\* The ways in which it ends.
LEMMA DetectEnds ==
  ASSUME Ata!DiskBounds, Ata!Addressable, DiskInv, Ata!DetectDisk \/ Ata!PacketRead \/ Ata!DetectAbsent
         \/ Ata!DetectGivesUp
  PROVE  DiskInv'
<1>1. /\ Ata!Sel \in Ata!Drives /\ DrivesOk(dev) /\ Ata!Drives = {0, 1} /\ found \in [Ata!Drives -> DeviceRecords]
      /\ job.drive \in Ata!Drives /\ late \in 0..MaxLate /\ kind \in [Ata!Drives -> Ata!Kinds]
  BY DiskFacts DEF DiskInv, DiskTypes, Jobs
<1>2. at \in {"dselect", "dpoll", "dpacket"}
  BY DEF Ata!DetectDisk, Ata!PacketRead, Ata!DetectAbsent, Ata!DetectGivesUp
<1>3. \A d \in Ata!Drives : Sought(d)
  BY <1>2 DEF DiskInv, DetectInv, Detecting
<1>4. at \in {"dpoll", "dpacket"} => Ata!Sel = job.drive
  BY DEF DiskInv, DetectInv, Detecting
<1>5. found[job.drive].model = "unknown"
  BY <1>1, <1>2, <1>3 DEF Sought
<1>6. CASE Ata!DetectDisk
  <2>1. /\ at = "dpoll" /\ dev[Ata!Sel].phase = "in" /\ dev' = Ata!Drained(1) /\ Ata!Detected
        /\ found' = [found EXCEPT ![job.drive] =
             [model |-> "disk", lba |-> kind[Ata!Sel] = "lba", size |-> Ata!SizeOf(kind[Ata!Sel])]]
        /\ UNCHANGED <<kind, devsel, regs, stored, late, errors, mounted, ok, got, walker, answer, kept>>
    BY <1>6 DEF Ata!DetectDisk, Ata!reader
  <2>2. kind[Ata!Sel] \in Ata!Disks /\ Ata!Sel = job.drive /\ dev[Ata!Sel].left = Ata!Quarter
    BY <1>4, <2>1 DEF DiskInv, DetectInv, Detecting
  <2>3. Ata!SizeOf(kind[Ata!Sel]) \in Nat
    <3>1. Capacity % Wrap \in Nat
      BY Numbers
    <3>2. ((Cylinders * Heads + Heads) * Sectors + Sectors - 1) % Wrap \in Nat
      <4> DEFINE n == (Cylinders * Heads + Heads) * Sectors + Sectors - 1
      <4>1. n \in Int
        BY Numbers
      <4> HIDE DEF n
      <4>2. n % Wrap \in Nat
        BY <4>1, Numbers
      <4> QED BY <4>2 DEF n
    <3> QED BY <3>1, <3>2 DEF Ata!SizeOf
  <2>4. /\ DrivesOk(dev') /\ \A d \in Ata!Drives \ {Ata!Sel} : dev'[d] = dev[d]
        /\ dev[Ata!Sel].left <= 1 => dev'[Ata!Sel] = Ata!Quiet
        /\ dev[Ata!Sel].left > 1 => dev'[Ata!Sel].phase = "in"
    BY <1>1, <2>1, DrainedIs
  <2>5. dev[Ata!Sel].left > 1
    BY <2>2 DEF Ata!Quarter
  <2> QED BY <1>1, <1>2, <2>1, <2>2, <2>3, <2>4, <2>5, DetectedKeeps DEF DeviceRecords
<1>7. CASE Ata!PacketRead
  <2>1. PICK bytes \in {0, 1} : found' = [found EXCEPT ![job.drive] = [model |-> "packet", lba |-> FALSE, size |-> bytes]]
    BY <1>7 DEF Ata!PacketRead
  <2>2. /\ at = "dpacket" /\ dev' = Ata!Drained(1) /\ Ata!Detected
        /\ UNCHANGED <<kind, devsel, regs, stored, late, errors, mounted, ok, got, walker, answer, kept>>
    BY <1>7 DEF Ata!PacketRead, Ata!reader
  <2>3. /\ DrivesOk(dev') /\ \A d \in Ata!Drives \ {Ata!Sel} : dev'[d] = dev[d]
        /\ dev'[Ata!Sel] = dev[Ata!Sel] \/ dev'[Ata!Sel] = Ata!Quiet \/ dev'[Ata!Sel].phase = "in"
    <3>1. DriveOk(dev[Ata!Sel])
      BY <1>1 DEF DrivesOk
    <3>2. dev[Ata!Sel].left <= 1 \/ dev[Ata!Sel].left > 1
      BY <3>1 DEF DriveOk, Ata!Quarter
    <3> QED BY <1>1, <2>2, <3>2, DrainedIs
  <2>4. found' \in [Ata!Drives -> DeviceRecords] /\ found'[job.drive].model = "packet"
        /\ \A d \in Ata!Drives \ {job.drive} : found'[d] = found[d]
    BY <1>1, <2>1 DEF DeviceRecords
  <2>5. dev'[Ata!Sel].phase # "out"
        /\ (dev'[Ata!Sel].phase = "busy" => dev'[Ata!Sel].op \in {"identify", "packet"} /\ kind[Ata!Sel] # "none")
    BY <1>1, <1>3, <2>3, DriveShapes DEF Sought
  <2> QED BY <1>1, <1>2, <1>4, <2>2, <2>3, <2>4, <2>5, DetectedKeeps
<1>8. CASE Ata!DetectAbsent \/ Ata!DetectGivesUp
  <2>1. /\ Ata!Detected /\ late' \in 0..MaxLate
        /\ UNCHANGED <<kind, devsel, regs, dev, stored, errors, found, mounted, ok, got, walker, answer, kept>>
    BY <1>1, <1>8 DEF Ata!DetectAbsent, Ata!DetectGivesUp, Ata!device, Ata!reader, Ata!DiskBounds
  <2> QED BY <1>1, <1>2, <1>3, <1>5, <2>1, DetectedKeeps DEF Sought
<1> QED BY <1>6, <1>7, <1>8

-----------------------------------------------------------------------------
(* The driver                                                                *)

\* What is stored, and on its way, is so still.
LEMMA StoreStill ==
  ASSUME DiskInv, at \notin Detecting, at' \notin Detecting, UNCHANGED <<stored, mounted, kept, errors>>,
         InStore(D) \/ InStore(dev'[mounted]) => Same(dev'[mounted], D),
         job'.addr = job.addr, job'.value = job.value, job'.op = job.op, at' # "idle" => at # "idle",
         \/ at' \notin {"flush", "flushed", "return"}
         \/ at' = "return" /\ ~ok'
         \/ at = "flush" /\ at' = "flushed"
         \/ at = "flushed" /\ at' = "return"
         \/ job.op = "write" =>
              /\ OnlyIn(dev'[mounted], job.addr, job.value)
              /\ errors = 0 => KeptIn(stored'[mounted], dev'[mounted], job.addr, job.value)
  PROVE  StoreInv'
<1>1. StoreInv
  BY DEF DiskInv
<1> DEFINE Then(s, v) == KeptIn(stored'[mounted], dev'[mounted], s, v)
<1>2. \A s, v : Kept(s, v) => Then(s, v)
  BY DEF Kept, KeptIn, D, Same, InStore
<1> HIDE DEF Then
<1>3. InStore(dev'[mounted]) => kept'[dev'[mounted].sector] \in {Unknown, dev'[mounted].data}
  BY <1>1 DEF StoreInv, D, Same, InStore
<1>4. job'.op = "write" /\ at' # "idle" => kept'[job'.addr] = Unknown
  BY <1>1 DEF StoreInv
<1>5. errors' = 0 => \A s \in Scratch : kept'[s] # Unknown => Then(s, kept'[s])
  BY <1>1, <1>2 DEF StoreInv
<1>6. job'.op = "write" /\ (at' \in {"flush", "flushed"} \/ (at' = "return" /\ ok')) =>
        OnlyIn(dev'[mounted], job'.addr, job'.value) /\ (errors' = 0 => Then(job'.addr, job'.value))
  <2> DEFINE Done == OnlyIn(D, job.addr, job.value) /\ (errors = 0 => Kept(job.addr, job.value))
  <2>1. job.op = "write" /\ at \in {"flush", "flushed"} => Done
    BY <1>1 DEF StoreInv
  <2>2. OnlyIn(D, job.addr, job.value) => OnlyIn(dev'[mounted], job.addr, job.value)
    BY DEF OnlyIn, InStore, Same, D
  <2>3. job.op = "write" /\ (at' \in {"flush", "flushed"} \/ (at' = "return" /\ ok')) =>
          OnlyIn(dev'[mounted], job.addr, job.value) /\ (errors = 0 => Then(job.addr, job.value))
    BY <1>2, <2>1, <2>2 DEF Then
  <2> QED BY <2>3
<1> QED BY <1>3, <1>4, <1>5, <1>6 DEF StoreInv, D, Kept, Then

\* An access begins.
LEMMA AccessKeeps ==
  ASSUME Ata!DiskBounds, Ata!Addressable, DiskInv, at \in {"mount", "return", "idle", "more"},
         NEW d \in Ata!Drives, NEW command, NEW addr \in Nat, NEW value, NEW then,
         Ata!Access(d, command, addr, value, then),
         addr < Wrap, mounted' = d, found[d].model = "disk", at = "mount" \/ mounted = d,
         \/ /\ command = "read" /\ value = Unknown /\ then \in {"probe", "header", "content"} /\ kept' = kept
         \/ /\ command = "write" /\ then = "written" /\ addr \in Scratch /\ value \in Values
            /\ Reach(kind[d], addr) /\ kept' = [kept EXCEPT ![addr] = Unknown],
         walker' \in WalkRecords, answer' \in {"none", "found", "no file", "missing", "failed"},
         then = "content" => walker'.done < walker'.size /\ walker'.left > 0,
         UNCHANGED <<kind, devsel, regs, dev, stored, late, errors, found, ok, got>>
  PROVE  DiskInv'
<1>1. /\ at' = "select" /\ job' = [job EXCEPT !.op = command, !.addr = addr, !.value = value, !.then = then,
                                              !.drive = d, !.dummy = TRUE]
  BY DEF Ata!Access
<1>2. job \in Jobs /\ kept \in [Scratch -> Values \cup {Unknown}]
  BY DEF DiskInv, DiskTypes
<1>3. /\ job' \in Jobs /\ job'.op = command /\ job'.addr = addr /\ job'.value = value /\ job'.then = then
      /\ job'.drive = d /\ job'.dummy
  BY <1>1, <1>2 DEF Jobs
<1>4. kept' \in [Scratch -> Values \cup {Unknown}]
  BY <1>2
<1>5. DiskTypes' /\ FoundInv' /\ DetectInv'
  BY <1>1, <1>3, <1>4 DEF DiskInv, DiskTypes, FoundInv, DetectInv, Places, Detecting
<1>6. MountInv' /\ JobInv' /\ ReadInv' /\ CopyInv'
  BY <1>1, <1>3 DEF MountInv, JobInv, ReadInv, CopyInv, Detecting
<1>7. dev[d].phase \in {"idle", "in"} \/ (dev[d].phase = "busy" /\ dev[d].op \in {"store", "flush"})
  <2>1. CASE at = "mount"
    BY <2>1 DEF DiskInv, DetectInv, Sought, Detecting
  <2>2. CASE at # "mount"
    BY <2>2 DEF DiskInv, PhaseInv, JobInv, D, Storing, Detecting
  <2> QED BY <2>1, <2>2
<1>8. PhaseInv'
  BY <1>1, <1>3, <1>7 DEF PhaseInv, D, Storing
<1>9. StoreInv'
  <2>1. CASE at = "mount"
    <3>1. \A s \in Scratch : kept[s] = Unknown
      BY <2>1 DEF DiskInv, DetectInv, Detecting
    <3>2. dev[d].phase = "in"
      BY <2>1 DEF DiskInv, DetectInv, Sought, Detecting
    <3>3. \A s \in Scratch : kept'[s] = Unknown
      BY <1>2, <3>1
    <3> QED BY <1>1, <1>3, <3>2, <3>3 DEF StoreInv, D, InStore
  <2>2. CASE at # "mount"
    <3>1. StoreInv /\ mounted = d /\ at \notin Detecting
      BY <2>2 DEF DiskInv, Detecting
    <3>3. command = "write" => kept'[addr] = Unknown
      BY <1>2
    <3>4. \A s \in Scratch : kept'[s] = kept[s] \/ kept'[s] = Unknown
      BY <1>2
    <3>5. DriveOk(dev[d])
      BY DEF DiskInv, DiskTypes, DrivesOk
    <3>6. InStore(dev[d]) => kept'[dev[d].sector] \in {Unknown, dev[d].data}
      BY <3>1, <3>4, <3>5 DEF StoreInv, InStore, D, DriveOk
    <3>7. errors' = 0 => \A s \in Scratch : kept'[s] # Unknown => KeptIn(stored[d], dev[d], s, kept'[s])
      <4> SUFFICES ASSUME errors = 0, NEW s \in Scratch, kept'[s] # Unknown
                   PROVE  KeptIn(stored[d], dev[d], s, kept'[s])
        OBVIOUS
      <4>1. kept'[s] = kept[s] /\ Kept(s, kept[s])
        BY <3>1, <3>4 DEF StoreInv
      <4> QED BY <3>1, <4>1 DEF Kept, D
    <3> QED BY <1>1, <1>3, <3>1, <3>3, <3>6, <3>7 DEF StoreInv, D, Kept
  <2> QED BY <2>1, <2>2
<1> QED BY <1>5, <1>6, <1>8, <1>9 DEF DiskInv

\* An access ends, or only select()'s own read.
LEMMA ReturnKeeps ==
  ASSUME Ata!DiskBounds, Ata!Addressable, DiskInv, at \in {"choose", "regs", "transfer", "flushed"},
         NEW b \in BOOLEAN, Ata!Return(b), DrivesOk(dev'), late' \in 0..MaxLate,
         \/ dev' = dev /\ (D.phase = "idle" \/ Storing)
         \/ dev'[mounted].phase = "idle" /\ ~InStore(D),
         ~job.dummy /\ job.op = "read" /\ b =>
           dev'[mounted].phase = "idle" /\ got' = Held(stored, mounted, job.addr),
         ~job.dummy /\ job.op = "write" /\ b => at = "flushed",
         UNCHANGED <<kind, devsel, regs, stored, errors, found, mounted, walker, answer, kept>>
  PROVE  DiskInv'
<1>1. /\ ok' = b
      /\ \/ job.dummy /\ at' = "reset" /\ job' = [job EXCEPT !.dummy = FALSE]
         \/ ~job.dummy /\ at' = "return" /\ job' = job
  BY DEF Ata!Return
<1>2. job \in Jobs /\ MountInv /\ JobInv /\ CopyInv /\ at \notin Detecting
  BY DEF DiskInv, DiskTypes, Detecting
<1>3. /\ job' \in Jobs /\ job'.op = job.op /\ job'.addr = job.addr /\ job'.value = job.value
      /\ job'.then = job.then /\ job'.drive = job.drive /\ ~job'.dummy
  BY <1>1, <1>2 DEF Jobs
<1>4. DiskTypes' /\ FoundInv' /\ DetectInv'
  BY <1>1, <1>3 DEF DiskInv, DiskTypes, FoundInv, DetectInv, Places, Detecting
<1>5. MountInv'
  BY <1>1, <1>2, <1>3 DEF MountInv, Ata!Sel, Detecting
<1>6. JobInv'
  BY <1>1, <1>2, <1>3 DEF JobInv
<1>7. CopyInv'
  BY <1>1, <1>2, <1>3 DEF CopyInv
<1>8. PhaseInv'
  BY <1>1, <1>3 DEF PhaseInv, D, Storing
<1>9. ReadInv'
  BY <1>1, <1>3 DEF ReadInv, D
<1>10. StoreInv'
  <2>1. InStore(D) \/ InStore(dev'[mounted]) => Same(dev'[mounted], D)
    BY DEF InStore, Same, D
  <2>2. at' \notin Detecting /\ at' # "idle" /\ at # "idle" /\ UNCHANGED <<stored, mounted, kept, errors>>
    BY <1>1 DEF Detecting
  <2>3. \/ at' \notin {"flush", "flushed", "return"}
        \/ at' = "return" /\ ~ok'
        \/ at = "flush" /\ at' = "flushed"
        \/ at = "flushed" /\ at' = "return"
        \/ job.op = "write" =>
              /\ OnlyIn(dev'[mounted], job.addr, job.value)
              /\ errors = 0 => KeptIn(stored'[mounted], dev'[mounted], job.addr, job.value)
    BY <1>1
  <2> QED BY <1>2, <1>3, <2>1, <2>2, <2>3, StoreStill
<1> QED BY <1>4, <1>5, <1>6, <1>7, <1>8, <1>9, <1>10 DEF DiskInv

\* The ways in which that happens.
LEMMA ReturnsKeep ==
  ASSUME Ata!DiskBounds, Ata!Addressable, Ata!Prompt, DiskInv, Ata!ReadData \/ Ata!ReadFails \/ Ata!Flushed \/ Ata!GivesUp
  PROVE  DiskInv'
<1>1. at \in {"choose", "regs", "transfer", "flushed"} /\ at \notin Detecting
  BY DEF Ata!ReadData, Ata!ReadFails, Ata!Flushed, Ata!GivesUp, Detecting
<1>2. /\ Ata!Sel = mounted /\ Ata!Sel \in Ata!Drives /\ DrivesOk(dev) /\ DriveOk(D) /\ late \in 0..MaxLate
      /\ MaxLate \in Nat /\ (Ata!Busy <=> D.phase = "busy")
  BY <1>1, DiskFacts DEF DiskInv, DiskTypes, DrivesOk, MountInv, D, Ata!Busy, Ata!DiskBounds
<1>3. PhaseInv /\ job \in Jobs /\ JobInv
  BY DEF DiskInv, DiskTypes
<1>4. CASE Ata!ReadData
  <2>1. /\ at = "transfer" /\ Ata!Op = "read" /\ dev[Ata!Sel].phase \in {"in", "out"} /\ got' = Ata!Transferred
        /\ dev' = Ata!Drained(Ata!Quarter) /\ Ata!Return(TRUE)
        /\ UNCHANGED <<kind, devsel, regs, stored, late, errors, found, mounted, walker, answer, kept>>
    BY <1>4 DEF Ata!ReadData, Ata!DataRequest, Ata!reader
  <2>2. D.phase = "in"
        /\ (~job.dummy => job.op = "read" /\ D.data = Held(stored, mounted, job.addr) /\ D.left = Ata!Quarter)
    BY <1>1, <1>2, <1>3, <2>1 DEF PhaseInv, Ata!Op, D, Storing, DriveDoing
  <2>3. DrivesOk(dev') /\ dev'[Ata!Sel] = Ata!Quiet
    <3>1. D.left <= Ata!Quarter /\ Ata!Quarter \in Nat \ {0}
      BY <1>2 DEF DriveOk, Ata!Quarter
    <3> QED BY <1>2, <2>1, <2>2, <3>1, DrainedIs DEF D
  <2>4. ~job.dummy => got' = Held(stored, mounted, job.addr)
    BY <1>2, <2>1, <2>2 DEF Ata!Transferred, D
  <2>5. dev'[mounted].phase = "idle" /\ ~InStore(D)
    BY <1>2, <2>2, <2>3, DriveShapes DEF InStore
  <2> QED BY <1>1, <1>2, <2>1, <2>2, <2>3, <2>4, <2>5, ReturnKeeps
<1>5. CASE Ata!ReadFails
  <2>1. /\ at = "transfer" /\ Ata!Op = "read" /\ ~Ata!Busy
           /\ (dev[Ata!Sel].err \/ dev[Ata!Sel].phase \notin {"in", "out"})
        /\ Ata!Return(FALSE)
        /\ UNCHANGED <<kind, devsel, regs, dev, stored, late, errors, found, mounted, walker, answer, kept>>
    BY <1>5 DEF Ata!ReadFails, Ata!DataRequest, Ata!reader, Ata!device
  <2>2. D.phase = "idle"
    BY <1>2, <2>1 DEF D, DriveOk
  <2> QED BY <1>1, <1>2, <2>1, <2>2, ReturnKeeps
<1>6. CASE Ata!Flushed
  <2>1. /\ at = "flushed" /\ ~Ata!Busy /\ Ata!Return(TRUE)
        /\ UNCHANGED <<kind, devsel, regs, dev, stored, late, errors, found, mounted, walker, answer, kept>>
    BY <1>6 DEF Ata!Flushed, Ata!reader, Ata!device
  <2>2. D.phase = "idle" /\ job.op = "write"
    BY <1>1, <1>2, <1>3, <2>1 DEF PhaseInv, JobInv, Storing
  <2> QED BY <1>1, <1>2, <2>1, <2>2, ReturnKeeps
<1>7. CASE Ata!GivesUp
  <2>1. /\ Ata!Busy /\ dev[Ata!Sel].op \in Slow /\ late < MaxLate /\ late' = late + 1 /\ Ata!Return(at = "flushed")
        /\ UNCHANGED <<kind, devsel, regs, dev, stored, errors, found, mounted, walker, answer, kept>>
    BY <1>7 DEF Ata!GivesUp, Ata!reader
  <2>2. D.phase = "busy" /\ D.op \notin {"read", "write"}
    <3>1. dev[Ata!Sel] = D
      BY <1>2 DEF D
    <3>2. D.op \in Slow
      BY <2>1, <3>1
    <3> QED BY <1>2, <2>1, <3>2 DEF Ata!Prompt
  <2>3. Storing
    BY <1>1, <1>3, <2>2 DEF PhaseInv, JobInv, Storing, DriveDoing, Jobs, Detecting
  <2>4. late' \in 0..MaxLate
    BY <1>2, <2>1
  <2>6. (at = "flushed") \in BOOLEAN
    BY Zenon
  <2>5. at = "flushed" => job.op = "write"
    BY <1>3 DEF JobInv
  <2> QED BY <1>1, <1>2, <2>1, <2>3, <2>4, <2>5, <2>6, ReturnKeeps
<1> QED BY <1>4, <1>5, <1>6, <1>7

\* A step of the driver inside an access.
LEMMA OnwardKeeps ==
  ASSUME DiskInv, at \in {"select", "reset", "choose", "regs", "command", "transfer", "flush"},
         at' \in {"reset", "choose", "regs", "command", "transfer", "flush", "flushed"},
         at' \in {"flush", "flushed"} => job.op = "write" /\ ~job.dummy,
         DrivesOk(dev'), devsel' \in [drive: Ata!Drives, lba: BOOLEAN, head: 0..HeadValues - 1],
         regs' \in Seq(0..ByteValues - 1), Len(regs') = 3,
         UNCHANGED <<kind, stored, late, errors, found, mounted, job, ok, got, walker, answer, kept>>,
         MountInv', PhaseInv', StoreInv'
  PROVE  DiskInv'
<1>1. DiskTypes' /\ FoundInv' /\ DetectInv'
  BY DEF DiskInv, DiskTypes, FoundInv, DetectInv, Places, Detecting
<1>2. JobInv'
  BY DEF DiskInv, JobInv
<1>3. ReadInv' /\ CopyInv'
  BY DEF DiskInv, ReadInv, CopyInv
<1> QED BY <1>1, <1>2, <1>3 DEF DiskInv

\* The registers are set.
LEMMA SelectsKeep ==
  ASSUME Ata!DiskBounds, Ata!Addressable, DiskInv, Ata!SelectDevice \/ Ata!SelectHead \/ Ata!SetRegisters
  PROVE  DiskInv'
<1>1. /\ at \in {"select", "choose", "regs"} /\ at \notin Detecting
      /\ UNCHANGED <<kind, dev, stored, late, errors, found, mounted, job, ok, got, walker, answer, kept>>
  BY DEF Ata!SelectDevice, Ata!SelectHead, Ata!SetRegisters, Ata!reader, Detecting
<1>2. /\ Ata!Sel \in Ata!Drives /\ DrivesOk(dev) /\ mounted \in Ata!Drives /\ Ata!Me = found[mounted]
         /\ job.drive = mounted
      /\ Ata!Addr \in Nat /\ Ata!Addr < Wrap /\ found[mounted] \in DeviceRecords /\ DriveOk(D)
  BY <1>1, DiskFacts DEF DiskInv, DiskTypes, MountInv, D
<1>3. found[mounted].lba \in BOOLEAN
  BY <1>2 DEF DeviceRecords
<1> DEFINE io == IoOf(found[mounted].lba, Ata!Addr)
<1>4. /\ io[4] \in 0..HeadValues - 1 /\ 0 \in 0..HeadValues - 1
      /\ SubSeq(io, 1, 3) \in Seq(0..ByteValues - 1) /\ Len(SubSeq(io, 1, 3)) = 3
  <2>1. HeadValues \in Nat \ {0}
    BY Numbers
  <2> QED BY <1>2, <1>3, <2>1, Registers
<1>5. Ata!IoAddr(Ata!Addr) = io
  BY <1>2, DiskNames
<1>6. at \in {"choose", "regs"} => Ata!Sel = mounted /\ devsel.lba = found[mounted].lba
  BY <1>1 DEF DiskInv, MountInv
<1>7. MountInv /\ PhaseInv /\ JobInv
  BY DEF DiskInv
<1> HIDE DEF io
<1>8. StoreInv'
  <2>1. at' \notin Detecting /\ at' \in {"reset", "regs", "command"}
    BY DEF Ata!SelectDevice, Ata!SelectHead, Ata!SetRegisters, Detecting
  <2> QED BY <1>1, <2>1, StoreStill DEF Same, D
<1>9. devsel \in [drive: Ata!Drives, lba: BOOLEAN, head: 0..HeadValues - 1] /\ regs \in Seq(0..ByteValues - 1)
      /\ Len(regs) = 3
  BY DEF DiskInv, DiskTypes
<1>10. Ata!Addr' = Ata!Addr
  BY <1>1 DEF Ata!Addr
<1>11. CASE Ata!SelectDevice
  <2>1. at = "select" /\ at' = "reset" /\ devsel' = [drive |-> job.drive, lba |-> Ata!Me.lba, head |-> 0]
        /\ regs' = regs
    BY <1>11 DEF Ata!SelectDevice, Ata!Select
  <2>2. devsel' \in [drive: Ata!Drives, lba: BOOLEAN, head: 0..HeadValues - 1]
    BY <1>2, <1>3, <1>4, <2>1
  <2>3. MountInv'
    BY <1>1, <1>2, <1>7, <2>1 DEF MountInv, Ata!Sel
  <2>4. PhaseInv'
    BY <1>1, <1>7, <2>1 DEF PhaseInv, JobInv, D, Storing
  <2> QED BY <1>1, <1>2, <1>8, <1>9, <2>1, <2>2, <2>3, <2>4, OnwardKeeps
<1>12. CASE Ata!SelectHead
  <2>1. at = "choose" /\ ~Ata!Busy /\ at' = "regs"
        /\ devsel' = [drive |-> job.drive, lba |-> Ata!Me.lba, head |-> io[4]] /\ regs' = regs
    BY <1>5, <1>12 DEF Ata!SelectHead, Ata!Select
  <2>2. devsel' \in [drive: Ata!Drives, lba: BOOLEAN, head: 0..HeadValues - 1]
    BY <1>2, <1>3, <1>4, <2>1
  <2>3. MountInv'
    BY <1>1, <1>2, <1>7, <1>10, <2>1 DEF MountInv, Ata!Sel, io
  <2>4. D.phase # "busy"
    BY <1>6, <2>1 DEF Ata!Busy, D
  <2>5. PhaseInv'
    BY <1>1, <1>7, <2>1, <2>4 DEF PhaseInv, JobInv, D, Storing
  <2> QED BY <1>1, <1>2, <1>8, <1>9, <2>1, <2>2, <2>3, <2>5, OnwardKeeps
<1>13. CASE Ata!SetRegisters
  <2>1. at = "regs" /\ ~Ata!Busy /\ at' = "command" /\ regs' = SubSeq(io, 1, 3) /\ devsel' = devsel
    BY <1>5, <1>13 DEF Ata!SetRegisters
  <2>2. MountInv'
    BY <1>1, <1>2, <1>7, <1>10, <2>1 DEF MountInv, Ata!Sel, io
  <2>3. PhaseInv'
    BY <1>1, <1>7, <2>1 DEF PhaseInv, D, Storing
  <2> QED BY <1>1, <1>2, <1>4, <1>8, <1>9, <2>1, <2>2, <2>3, OnwardKeeps
<1> QED BY <1>11, <1>12, <1>13

\* The drive is told what to do.
LEMMA ToldKeeps ==
  ASSUME Ata!DiskBounds, Ata!Addressable, DiskInv, Ata!Reset \/ Ata!GiveCommand \/ Ata!WriteData \/ Ata!Flush
  PROVE  DiskInv'
<1>1. /\ at \in {"reset", "command", "transfer", "flush"} /\ at \notin Detecting
      /\ at' \in {"choose", "transfer", "flush", "flushed"} /\ at' \notin Detecting
      /\ UNCHANGED <<kind, devsel, regs, stored, late, errors, found, mounted, job, ok, got, walker, answer, kept>>
  BY DEF Ata!Reset, Ata!GiveCommand, Ata!WriteData, Ata!Flush, Ata!reader, Detecting
<1>2. /\ Ata!Sel = mounted /\ Ata!Sel \in Ata!Drives /\ DrivesOk(dev) /\ DriveOk(D) /\ mounted \in Ata!Drives
         /\ D = dev[Ata!Sel]
      /\ kind[Ata!Sel] \in Ata!Disks /\ kind[Ata!Sel] # "none" /\ Ata!Addressed \in Int
  BY <1>1, DiskFacts DEF DiskInv, DiskTypes, DrivesOk, MountInv, D, Ata!Disks
<1>3. MountInv /\ PhaseInv /\ JobInv /\ StoreInv /\ job \in Jobs
  BY DEF DiskInv, DiskTypes
<1>4. devsel \in [drive: Ata!Drives, lba: BOOLEAN, head: 0..HeadValues - 1] /\ regs \in Seq(0..ByteValues - 1)
      /\ Len(regs) = 3
  BY DEF DiskInv, DiskTypes
<1>5. Ata!Addr' = Ata!Addr /\ Ata!Sel' = Ata!Sel
  BY <1>1 DEF Ata!Addr, Ata!Sel
<1>6. at' = "transfer" => at = "command"
  BY DEF Ata!Reset, Ata!GiveCommand, Ata!WriteData, Ata!Flush
<1>7. MountInv'
  BY <1>1, <1>3, <1>5, <1>6 DEF MountInv
<1>8. CASE Ata!Reset
  <2>1. at = "reset" /\ at' = "choose" /\ dev' = Ata!CommandedNonsense
    BY <1>8 DEF Ata!Reset
  <2>2. DrivesOk(dev') /\ Same(dev'[mounted], D)
    BY <1>2, <2>1, NonsenseIs DEF D
  <2>3. PhaseInv'
    BY <1>1, <1>3, <2>1, <2>2 DEF PhaseInv, D, Storing, Same
  <2>4. StoreInv'
    BY <1>1, <2>1, <2>2, StoreStill
  <2> QED BY <1>1, <1>4, <1>7, <2>1, <2>2, <2>3, <2>4, OnwardKeeps
<1>9. CASE Ata!GiveCommand
  <2>1. at = "command" /\ at' = "transfer" /\ dev' = Ata!Commanded(Ata!Op) /\ Ata!Op \in {"read", "write"}
    BY <1>3, <1>9 DEF Ata!GiveCommand, Ata!Op, Jobs
  <2>2. Ata!Addressed = Ata!Addr
    BY <2>1, DiskFacts
  <2>3. /\ DrivesOk(dev') /\ (D.phase # "idle" => dev'[mounted] = D)
        /\ D.phase = "idle" => /\ dev'[mounted].phase = "busy" /\ dev'[mounted].op = Ata!Op
                               /\ dev'[mounted].sector = Ata!Addr
    <3>1. Told(Ata!Op, Ata!Addressed).phase = "busy" /\ Told(Ata!Op, Ata!Addressed).op = Ata!Op
          /\ Told(Ata!Op, Ata!Addressed).sector = Ata!Addressed
      BY <1>2, <2>1, DriveShapes
    <3> QED BY <1>2, <2>1, <2>2, <3>1, CommandedIs DEF D
  <2>4. D.phase \in {"idle", "in"} /\ (~job.dummy => D.phase = "idle")
    BY <1>1, <1>3, <2>1 DEF PhaseInv, Jobs
  <2>5. job.dummy \in BOOLEAN /\ job.op \in {"read", "write"}
    BY <1>3 DEF Jobs
  <2>6. job.dummy => Ata!Op = "read"
    BY DEF Ata!Op
  <2>7. ~job.dummy => Ata!Op = job.op /\ Ata!Addr = job.addr
    BY DEF Ata!Op, Ata!Addr
  <2>8. PhaseInv'
    <3>1. job.dummy => dev'[mounted].phase \in {"idle", "in"}
          \/ (dev'[mounted].phase = "busy" /\ dev'[mounted].op = "read")
      BY <2>3, <2>4, <2>6
    <3>2. ~job.dummy => dev'[mounted].phase = "busy" /\ dev'[mounted].op = job.op /\ dev'[mounted].sector = job.addr
      BY <2>3, <2>4, <2>7
    <3> QED BY <1>1, <2>1, <3>1, <3>2 DEF PhaseInv, D, Storing, DriveDoing
  <2>9. StoreInv'
    <3>1. ~InStore(D) /\ ~InStore(dev'[mounted])
      BY <2>1, <2>3, <2>4 DEF InStore
    <3> QED BY <1>1, <2>1, <3>1, StoreStill
  <2> QED BY <1>1, <1>4, <1>7, <2>1, <2>3, <2>8, <2>9, OnwardKeeps
<1>10. CASE Ata!WriteData
  <2>1. at = "transfer" /\ Ata!Op = "write" /\ ~Ata!Busy /\ at' = "flush" /\ dev' = Ata!Given(job.value)
    BY <1>10 DEF Ata!WriteData
  <2>2. ~job.dummy /\ job.op = "write"
    BY <2>1 DEF Ata!Op
  <2>3. job.addr \in Scratch /\ job.value \in Values /\ D.phase # "busy"
    BY <1>2, <1>3, <2>1, <2>2 DEF JobInv, Ata!Busy
  <2>4. (D.phase = "idle" /\ errors > 0) \/ (D.phase = "out" /\ D.sector = job.addr)
    BY <1>1, <1>3, <2>1, <2>2, <2>3 DEF PhaseInv, DriveDoing
  <2>5. /\ DrivesOk(dev')
        /\ D.phase = "idle" => dev'[mounted] = D
        /\ D.phase = "out" => /\ dev'[mounted].phase = "busy" /\ dev'[mounted].op = "store"
                              /\ dev'[mounted].sector = job.addr /\ dev'[mounted].data = job.value
    BY <1>2, <2>1, <2>3, <2>4, GivenIs
  <2>6. PhaseInv'
    BY <1>1, <2>1, <2>2, <2>4, <2>5 DEF PhaseInv, D, Storing, DriveDoing
  <2>7. StoreInv'
    <3>1. kept[job.addr] = Unknown
      BY <1>1, <1>3, <2>1, <2>2 DEF StoreInv
    <3>2. ~InStore(D)
      BY <2>3 DEF InStore
    <3>3. InStore(dev'[mounted]) => kept[dev'[mounted].sector] = Unknown
      BY <2>4, <2>5, <3>1, <3>2
    <3>4. /\ errors = 0 => KeptIn(stored[mounted], dev'[mounted], job.addr, job.value)
          /\ OnlyIn(dev'[mounted], job.addr, job.value)
      BY <2>4, <2>5 DEF KeptIn, InStore, OnlyIn
    <3>5. \A s, v : Kept(s, v) => KeptIn(stored[mounted], dev'[mounted], s, v)
      BY <3>2 DEF Kept, KeptIn
    <3>6. errors = 0 => \A s \in Scratch : kept[s] # Unknown => KeptIn(stored[mounted], dev'[mounted], s, kept[s])
      BY <1>1, <1>3, <3>5 DEF StoreInv
    <3> QED BY <1>1, <3>1, <3>3, <3>4, <3>6 DEF StoreInv, Kept, D
  <2> QED BY <1>1, <1>4, <1>7, <2>1, <2>2, <2>5, <2>6, <2>7, OnwardKeeps
<1>11. CASE Ata!Flush
  <2>1. at = "flush" /\ at' = "flushed" /\ dev' = Ata!Commanded("flush")
    BY <1>11 DEF Ata!Flush
  <2>2. /\ DrivesOk(dev') /\ (D.phase # "idle" => dev'[mounted] = D)
        /\ D.phase = "idle" => dev'[mounted].phase = "busy" /\ dev'[mounted].op = "flush"
    <3>1. Told("flush", Ata!Addressed).phase = "busy" /\ Told("flush", Ata!Addressed).op = "flush"
      BY <1>2, DriveShapes
    <3> QED BY <1>2, <2>1, <3>1, CommandedIs
  <2>3. job.op = "write" /\ ~job.dummy
    BY <1>3, <2>1 DEF JobInv
  <2>4. D.phase = "idle" \/ InStore(D)
    BY <1>1, <1>3, <2>1 DEF PhaseInv, DriveDoing, InStore
  <2>5. PhaseInv'
    BY <1>1, <2>1, <2>2, <2>3, <2>4 DEF PhaseInv, D, Storing, InStore
  <2>6. StoreInv'
    <3>1. InStore(D) \/ InStore(dev'[mounted]) => Same(dev'[mounted], D)
      BY <2>2, <2>4 DEF InStore, Same
    <3> QED BY <1>1, <2>1, <3>1, StoreStill
  <2> QED BY <1>1, <1>4, <1>7, <2>1, <2>2, <2>3, <2>5, <2>6, OnwardKeeps
<1> QED BY <1>8, <1>9, <1>10, <1>11

-----------------------------------------------------------------------------
(* The drives' answers                                                       *)

\* What a sector holds depends on that sector of that drive.
LEMMA HeldSame ==
  ASSUME NEW st, NEW su, NEW d, NEW s, s \in Scratch => st[d][s] = su[d][s]
  PROVE  Held(st, d, s) = Held(su, d, s)
BY DEF Held

\* While the drives are looked for.
LEMMA AnswerSought ==
  ASSUME Ata!DiskBounds, Ata!Addressable, DiskInv, at \in Detecting, NEW d \in Ata!Drives, Ata!Complete(d)
         \/ Ata!DriveError(d)
  PROVE  DiskInv'
<1>1. /\ Ata!Sel \in Ata!Drives /\ DrivesOk(dev) /\ Ata!Drives = {0, 1} /\ DriveOk(dev[d])
         /\ DOMAIN dev = Ata!Drives
  BY DiskFacts DEF DiskInv, DiskTypes, DrivesOk
<1>2. Sought(d) /\ dev[d].phase = "busy" /\ dev[d].op \in {"identify", "packet"} /\ kind[d] # "none"
  BY DEF DiskInv, DetectInv, Sought, Ata!Complete, Ata!DriveError
<1>3. Ata!Complete(d)
  BY <1>2 DEF Ata!DriveError
<1>4. UNCHANGED <<kind, devsel, regs, stored, late, errors, found, mounted, at, job, ok, got, walker, answer, kept>>
  BY <1>2, <1>3 DEF Ata!Complete, Ata!driver, Ata!reader
<1> DEFINE r == IF dev[d].op = "identify" THEN IF kind[d] = "packet" THEN Ata!Refused ELSE Ata!Offers(Ata!Nothing)
                ELSE IF kind[d] = "packet" THEN Ata!Offers(Ata!Nothing) ELSE Ata!Refused
<1>5. dev' = [dev EXCEPT ![d] = r]
  BY <1>2, <1>3 DEF Ata!Complete, Ata!Answers
<1>6. /\ DriveOk(r) /\ r.phase \in {"idle", "in"}
      /\ r.phase = "in" => r.left = Ata!Quarter
      /\ dev[d].op = "identify" /\ r.phase = "in" => kind[d] # "packet"
  BY DriveShapes
<1> HIDE DEF r
<1>7. dev'[d] = r /\ DrivesOk(dev') /\ \A e \in Ata!Drives \ {d} : dev'[e] = dev[e]
  BY <1>1, <1>5, <1>6 DEF DrivesOk
<1>8. DiskTypes' /\ FoundInv'
  BY <1>4, <1>7 DEF DiskInv, DiskTypes, FoundInv
<1>9. ASSUME NEW e \in Ata!Drives PROVE Sought(e)'
  <2>1. Sought(e)
    BY DEF DiskInv, DetectInv
  <2>2. CASE e # d
    BY <1>4, <1>7, <2>1, <2>2 DEF Sought
  <2>3. CASE e = d
    BY <1>2, <1>4, <1>6, <1>7, <2>3 DEF Sought
  <2> QED BY <2>2, <2>3
<1>10. kind[d] \in Ata!Kinds
  BY DEF DiskInv, DiskTypes
<1>11. DetectInv'
  <2>1. DetectInv /\ Ata!Sel' = Ata!Sel
    BY <1>4 DEF DiskInv, Ata!Sel
  <2>2. at = "dpoll" => /\ dev'[Ata!Sel].phase = "busy" => dev'[Ata!Sel].op = "identify"
                        /\ dev'[Ata!Sel].phase = "in" => kind[Ata!Sel] \in Ata!Disks
                           /\ dev'[Ata!Sel].left = Ata!Quarter
    <3>1. CASE Ata!Sel = d
      BY <1>2, <1>6, <1>7, <1>10, <2>1, <3>1 DEF DetectInv, Ata!Disks, Ata!Kinds
    <3>2. CASE Ata!Sel # d
      BY <1>1, <1>7, <2>1, <3>2 DEF DetectInv
    <3> QED BY <3>1, <3>2
  <2> QED BY <1>4, <1>9, <2>1, <2>2 DEF DetectInv
<1>12. at' \in Detecting
  BY <1>4
<1> QED BY <1>4, <1>8, <1>11, <1>12, NothingAsked DEF DiskInv

\* Another drive than the mounted one.
LEMMA OtherAnswers ==
  ASSUME Ata!DiskBounds, Ata!Addressable, DiskInv, at \notin Detecting, NEW d \in Ata!Drives, d # mounted,
         DrivesOk(dev'), \A e \in Ata!Drives \ {d} : dev'[e] = dev[e],
         stored' \in [Ata!Drives -> [Scratch -> Values \cup {Unknown}]],
         \A e \in Ata!Drives \ {d} : stored'[e] = stored[e],
         errors' \in 0..MaxErrors, errors' = 0 => errors = 0, errors > 0 => errors' > 0,
         UNCHANGED <<kind, devsel, regs, late, found, mounted, at, job, ok, got, walker, answer, kept>>
  PROVE  DiskInv'
<1>1. mounted \in Ata!Drives
  BY DiskFacts
<1>2. dev'[mounted] = dev[mounted] /\ stored'[mounted] = stored[mounted]
  BY <1>1
<1>3. DiskTypes' /\ FoundInv' /\ DetectInv'
  BY DEF DiskInv, DiskTypes, FoundInv, DetectInv
<1>4. Ata!Addr' = Ata!Addr /\ Ata!Sel' = Ata!Sel
  BY DEF Ata!Addr, Ata!Sel
<1>5. MountInv' /\ JobInv' /\ CopyInv'
  BY <1>4 DEF DiskInv, MountInv, JobInv, CopyInv
<1>6. Held(stored', mounted, job.addr) = Held(stored, mounted, job.addr)
  BY <1>2, HeldSame
<1>7. PhaseInv' /\ ReadInv'
  BY <1>2, <1>6 DEF DiskInv, PhaseInv, ReadInv, D, Storing, DriveDoing
<1>8. StoreInv'
  BY <1>2 DEF DiskInv, StoreInv, Kept, D
<1> QED BY <1>3, <1>5, <1>7, <1>8 DEF DiskInv

\* The mounted one, with an answer r and what is stored after it.
LEMMA MountedAnswers ==
  ASSUME Ata!DiskBounds, Ata!Addressable, DiskInv, at \notin Detecting, NEW r, DriveOk(r),
         dev' = [dev EXCEPT ![mounted] = r],
         stored' \in [Ata!Drives -> [Scratch -> Values \cup {Unknown}]], errors' \in 0..MaxErrors,
         UNCHANGED <<kind, devsel, regs, late, found, mounted, at, job, ok, got, walker, answer, kept>>,
         D.phase = "busy", errors' = 0 => errors = 0, ~InStore(r),
         \/ r.phase = "idle" /\ (D.op = "write" => errors' > 0)
         \/ /\ D.op = "read" /\ r.phase = "in" /\ r.left = Ata!Quarter
            /\ D.sector = job.addr => r.data = Held(stored, mounted, job.addr)
         \/ D.op = "write" /\ r.phase = "out" /\ r.sector = D.sector,
         ~InStore(D) => stored' = stored,
         InStore(D) /\ errors' = 0 => stored' = [stored EXCEPT ![mounted][D.sector] = D.data]
  PROVE  DiskInv'
<1>1. mounted \in Ata!Drives /\ DOMAIN dev = Ata!Drives /\ DriveOk(D)
  BY DiskFacts DEF D
<1>2. dev'[mounted] = r /\ DrivesOk(dev')
  BY <1>1 DEF DiskInv, DiskTypes, DrivesOk
<1>3. DiskTypes' /\ FoundInv' /\ DetectInv'
  BY <1>2 DEF DiskInv, DiskTypes, FoundInv, DetectInv
<1>4. Ata!Addr' = Ata!Addr /\ Ata!Sel' = Ata!Sel
  BY DEF Ata!Addr, Ata!Sel
<1>5. MountInv' /\ JobInv' /\ CopyInv'
  BY <1>4 DEF DiskInv, MountInv, JobInv, CopyInv
<1>6. PhaseInv /\ ReadInv /\ StoreInv /\ JobInv /\ job \in Jobs
  BY DEF DiskInv, DiskTypes
<1>7. job.op \in {"read", "write"} /\ job.dummy \in BOOLEAN /\ at \in Places
  BY <1>6 DEF Jobs, DiskInv, DiskTypes
<1>8. ReadInv'
  BY <1>6 DEF ReadInv
<1>9. D.op = "read" => /\ at = "transfer"
                       /\ ~job.dummy => job.op = "read" /\ D.sector = job.addr
  BY <1>6, <1>7 DEF PhaseInv, JobInv, Storing, DriveDoing, Places
<1>10. D.op = "write" => at = "transfer" /\ ~job.dummy /\ job.op = "write" /\ D.sector = job.addr
  BY <1>6, <1>7 DEF PhaseInv, JobInv, Storing, DriveDoing, Places
<1>11. PhaseInv'
  <2>1. CASE r.phase = "idle"
    <3>1. ~job.dummy /\ at = "transfer" /\ job.op = "write" => errors' > 0
      BY <1>6, <2>1 DEF PhaseInv, DriveDoing
    <3> QED BY <1>2, <2>1, <3>1 DEF PhaseInv, D
  <2>2. CASE D.op = "read" /\ r.phase = "in" /\ r.left = Ata!Quarter
    <3>1. stored' = stored
      BY <2>2 DEF InStore
    <3>2. ~job.dummy => r.data = Held(stored', mounted, job.addr)
      BY <1>9, <2>2, <3>1
    <3> QED BY <1>2, <1>9, <2>2, <3>1, <3>2 DEF PhaseInv, D
  <2>3. CASE D.op = "write" /\ r.phase = "out" /\ r.sector = D.sector
    BY <1>2, <1>10, <2>3 DEF PhaseInv, D
  <2> QED BY <2>1, <2>2, <2>3
<1>12. StoreInv'
  <2>1. CASE ~InStore(D)
    <3>1. \A s, v : Kept(s, v) => KeptIn(stored'[mounted], r, s, v)
      BY <2>1 DEF Kept, KeptIn
    <3> QED BY <1>2, <1>6, <2>1, <3>1 DEF StoreInv, Kept, D, OnlyIn
  <2>2. CASE InStore(D) /\ errors' = 0
    <3>1. /\ D.sector \in Scratch /\ stored'[mounted][D.sector] = D.data
          /\ \A s \in Scratch \ {D.sector} : stored'[mounted][s] = stored[mounted][s]
      <4>1. D.sector \in Scratch
        BY <1>1, <2>2 DEF InStore, DriveOk
      <4>2. stored \in [Ata!Drives -> [Scratch -> Values \cup {Unknown}]]
        BY DEF DiskInv, DiskTypes
      <4>3. stored' = [stored EXCEPT ![mounted][D.sector] = D.data]
        BY <2>2
      <4>4. stored'[mounted] = [stored[mounted] EXCEPT ![D.sector] = D.data]
        BY <1>1, <4>2, <4>3
      <4>5. DOMAIN stored[mounted] = Scratch
        BY <1>1, <4>2
      <4> QED BY <4>1, <4>4, <4>5
    <3>2. \A s \in Scratch : kept[s] # Unknown => KeptIn(stored'[mounted], r, s, kept[s])
      <4> SUFFICES ASSUME NEW s \in Scratch, kept[s] # Unknown PROVE stored'[mounted][s] = kept[s]
        BY DEF KeptIn
      <4>1. Kept(s, kept[s]) /\ kept[D.sector] \in {Unknown, D.data}
        BY <1>6, <2>2 DEF StoreInv
      <4> QED BY <3>1, <4>1 DEF Kept, KeptIn
    <3>3. job.op = "write" /\ (at \in {"flush", "flushed"} \/ (at = "return" /\ ok)) =>
            KeptIn(stored'[mounted], r, job.addr, job.value)
      BY <1>6, <2>2, <3>1 DEF StoreInv, OnlyIn, KeptIn
    <3> QED BY <1>2, <1>6, <3>2, <3>3 DEF StoreInv, Kept, D, OnlyIn
  <2>3. CASE errors' # 0
    BY <1>2, <1>6, <2>3 DEF StoreInv, D, OnlyIn
  <2> QED BY <2>1, <2>2, <2>3
<1> QED BY <1>3, <1>5, <1>8, <1>11, <1>12 DEF DiskInv

\* A drive answers or fails.
LEMMA AnswerKeeps ==
  ASSUME Ata!DiskBounds, Ata!Addressable, DiskInv, NEW d \in Ata!Drives, Ata!Complete(d) \/ Ata!DriveError(d)
  PROVE  DiskInv'
<1>1. CASE at \in Detecting
  BY <1>1, AnswerSought
<1>2. ASSUME at \notin Detecting PROVE DiskInv'
  <2>1. /\ DrivesOk(dev) /\ DriveOk(dev[d]) /\ DOMAIN dev = Ata!Drives /\ mounted \in Ata!Drives
        /\ errors \in 0..MaxErrors /\ MaxErrors \in Nat
        /\ stored \in [Ata!Drives -> [Scratch -> Values \cup {Unknown}]]
    BY <1>2, DiskFacts DEF DiskInv, DiskTypes, Ata!DiskBounds
  <2>2. /\ dev[d].phase = "busy"
        /\ UNCHANGED <<kind, devsel, regs, late, found, mounted, at, job, ok, got, walker, answer, kept>>
    BY DEF Ata!Complete, Ata!DriveError, Ata!driver, Ata!reader
  <2> DEFINE command == dev[d].op
             s == dev[d].sector
  <2>3. PICK r : /\ dev' = [dev EXCEPT ![d] = r]
                 /\ \/ command = "store" /\ r = Ata!Quiet /\ stored' = [stored EXCEPT ![d][s] = dev[d].data]
                       /\ errors' = errors
                    \/ /\ stored' = stored
                       /\ \/ command \in {"identify", "packet"}
                             /\ (r = Ata!Refused \/ r = Ata!Offers(Ata!Nothing)) /\ errors' = errors
                          \/ command = "read" /\ (r = Ata!Refused \/ r = Ata!Offers(Held(stored, d, s)))
                             /\ errors' = errors
                          \/ /\ command = "write" /\ errors' = errors
                             /\ r = IF Reach(kind[d], s) THEN [dev[d] EXCEPT !.phase = "out"] ELSE Ata!Refused
                          \/ command = "flush" /\ r = Ata!Quiet /\ errors' = errors
                          \/ command \in {"read", "write", "store"} /\ r = Ata!Refused /\ errors < MaxErrors
                             /\ errors' = errors + 1
    <3>1. CASE Ata!DriveError(d)
      BY <3>1 DEF Ata!DriveError, Ata!Answers
    <3>2. CASE Ata!Complete(d)
      <4>1. Ata!Content(d, s) = Held(stored, d, s) /\ (Ata!Exists(d, s) <=> Reach(kind[d], s))
        BY DiskNames
      <4>2. errors' = errors
        BY <3>2 DEF Ata!Complete
      <4>3. CASE command = "identify"
        BY <3>2, <4>2, <4>3 DEF Ata!Complete, Ata!Answers
      <4>4. CASE command = "packet"
        BY <3>2, <4>2, <4>4 DEF Ata!Complete, Ata!Answers
      <4>5. CASE command = "read"
        BY <3>2, <4>1, <4>2, <4>5 DEF Ata!Complete, Ata!Answers
      <4>6. CASE command = "write"
        BY <3>2, <4>1, <4>2, <4>6 DEF Ata!Complete, Ata!Answers
      <4>7. CASE command = "store"
        BY <3>2, <4>2, <4>7 DEF Ata!Complete, Ata!Answers
      <4>8. CASE command = "flush"
        BY <3>2, <4>2, <4>8 DEF Ata!Complete, Ata!Answers
      <4>9. command \in {"identify", "packet", "read", "write", "store", "flush"}
        BY <3>2 DEF Ata!Complete
      <4> QED BY <4>3, <4>4, <4>5, <4>6, <4>7, <4>8, <4>9
    <3> QED BY <3>1, <3>2
  <2>4. command = "store" => s \in Scratch /\ dev[d].data \in Values
    BY <2>1, <2>2 DEF DriveOk
  <2>5. stored' \in [Ata!Drives -> [Scratch -> Values \cup {Unknown}]]
    <3>1. CASE stored' = stored
      BY <2>1, <3>1
    <3>2. CASE command = "store" /\ stored' = [stored EXCEPT ![d][s] = dev[d].data]
      <4>1. [stored[d] EXCEPT ![s] = dev[d].data] \in [Scratch -> Values \cup {Unknown}]
        BY <2>1, <2>4, <3>2
      <4>2. stored' = [stored EXCEPT ![d] = [stored[d] EXCEPT ![s] = dev[d].data]]
        BY <3>2
      <4> QED BY <2>1, <4>1, <4>2
    <3> QED BY <2>3, <3>1, <3>2
  <2>6. errors' \in 0..MaxErrors /\ (errors' = 0 => errors = 0) /\ (errors > 0 => errors' > 0)
    BY <2>1, <2>3
  <2> DEFINE o == [dev[d] EXCEPT !.phase = "out"]
  <2>7. DriveOk(o) /\ o.phase = "out" /\ o.sector = s
    <3>1. o.phase = "out" /\ o.op = dev[d].op /\ o.sector = s /\ o.left = dev[d].left /\ o.err = dev[d].err
          /\ DOMAIN o = Fields
      BY <2>1 DEF DriveOk, Fields
    <3> QED BY <2>1, <2>2, <3>1 DEF DriveOk
  <2>8. DriveOk(r) /\ ~InStore(r)
    <3>1. r \in {Ata!Quiet, Ata!Refused, Ata!Offers(Ata!Nothing), Ata!Offers(Held(stored, d, s)), o}
      BY <2>3
    <3>2. /\ DriveOk(Ata!Quiet) /\ DriveOk(Ata!Refused) /\ DriveOk(Ata!Offers(Ata!Nothing))
             /\ DriveOk(Ata!Offers(Held(stored, d, s)))
          /\ ~InStore(Ata!Quiet) /\ ~InStore(Ata!Refused) /\ ~InStore(Ata!Offers(Ata!Nothing))
             /\ ~InStore(Ata!Offers(Held(stored, d, s)))
      BY DriveShapes DEF InStore
    <3>3. DriveOk(o) /\ ~InStore(o)
      BY <2>7 DEF InStore
    <3> HIDE DEF o
    <3> QED BY <3>1, <3>2, <3>3
  <2>9. CASE d # mounted
    <3>1. DrivesOk(dev') /\ \A e \in Ata!Drives \ {d} : dev'[e] = dev[e]
      BY <2>1, <2>3, <2>8 DEF DrivesOk
    <3>2. \A e \in Ata!Drives \ {d} : stored'[e] = stored[e]
      BY <2>1, <2>3
    <3> QED BY <1>2, <2>2, <2>5, <2>6, <2>9, <3>1, <3>2, OtherAnswers
  <2>10. CASE d = mounted
    <3>1. D = dev[d]
      BY <2>10 DEF D
    <3>2. job \in Jobs /\ PhaseInv /\ JobInv /\ at \in Places
      BY DEF DiskInv, DiskTypes
    <3>3. command \notin {"identify", "packet"} /\ (command = "write" => job.op = "write" /\ s = job.addr)
      BY <1>2, <2>2, <3>1, <3>2 DEF PhaseInv, JobInv, Storing, DriveDoing, Places, Jobs
    <3>4. command = "write" => Reach(kind[d], s)
      BY <2>10, <3>2, <3>3 DEF JobInv
    <3>5. \/ r.phase = "idle" /\ (command = "write" => errors' > 0)
          \/ command = "read" /\ r.phase = "in" /\ r.left = Ata!Quarter
             /\ (s = job.addr => r.data = Held(stored, mounted, job.addr))
          \/ command = "write" /\ r.phase = "out" /\ r.sector = s
      <4>1. CASE command = "read" /\ r = Ata!Offers(Held(stored, d, s))
        BY <2>10, <4>1, DriveShapes
      <4>2. CASE command = "write" /\ r = o
        BY <2>7, <4>2
      <4>3. CASE command \in {"read", "write", "store"} /\ r = Ata!Refused /\ errors' = errors + 1
        BY <2>1, <4>3, DriveShapes
      <4>4. CASE r \in {Ata!Quiet, Ata!Refused} /\ command # "write"
        BY <4>4, DriveShapes
      <4> QED BY <2>3, <3>3, <3>4, <4>1, <4>2, <4>3, <4>4
    <3>6. (~InStore(D) => stored' = stored)
          /\ (InStore(D) /\ errors' = 0 => stored' = [stored EXCEPT ![mounted][D.sector] = D.data])
      BY <2>1, <2>2, <2>3, <2>10, <3>1 DEF InStore
    <3> HIDE DEF o
    <3> QED BY <1>2, <2>2, <2>3, <2>5, <2>6, <2>8, <2>10, <3>1, <3>5, <3>6, MountedAnswers
  <2> QED BY <2>9, <2>10
<1> QED BY <1>1, <1>2

-----------------------------------------------------------------------------
(* Accesses                                                                  *)

\* The size in what a sector holds is a number.
LEMMA HeldSize ==
  ASSUME Ata!DiskBounds, NEW st, NEW d, NEW s
  PROVE  Held(st, d, s).size \in Nat
<1>1. \A x : [Ata!Nothing EXCEPT !.from = x].size = 0
  BY DEF Ata!Nothing
<1>2. \A k \in DOMAIN Archive : Archive[k].size \in Nat
  <2> DEFINE N == {Archive[k].name : k \in DOMAIN Archive}
             T == [name: N, size: Nat, file: BOOLEAN]
  <2>1. Archive \in Seq(T)
    BY DEF Ata!DiskBounds
  <2> HIDE DEF N
  <2>2. \A t \in T : t.size \in Nat
    OBVIOUS
  <2> HIDE DEF T
  <2>3. \A k \in DOMAIN Archive : Archive[k] \in T
    BY <2>1
  <2> QED BY <2>2, <2>3
<1>3. CASE s \in Scratch
  BY <1>1, <1>3 DEF Held
<1>4. CASE s \notin Scratch
  <2> DEFINE heads == {k \in DOMAIN Archive : Ata!HeaderOf(k) = s}
             datas == {k \in DOMAIN Archive :
                         s \in Ata!HeaderOf(k) + 1..Ata!HeaderOf(k) + Ata!Blocks(Archive[k].size)}
             k == CHOOSE k \in heads : TRUE
             of == [name |-> Archive[k].name, size |-> Archive[k].size,
                    file |-> Archive[k].file, from |-> <<d, s>>]
             content == [Ata!Nothing EXCEPT !.name = Inner, !.file = TRUE, !.from = <<d, s>>]
             none == [Ata!Nothing EXCEPT !.from = <<d, s>>]
  <2>1. Held(st, d, s) = IF heads # {} THEN of ELSE IF datas # {} THEN content ELSE none
    BY <1>4 DEF Held, Ata!Sector
  <2>2. content.size = 0 /\ none.size = 0
    BY DEF Ata!Nothing
  <2>3. of.size = Archive[k].size /\ (heads # {} => k \in DOMAIN Archive)
    OBVIOUS
  <2> HIDE DEF heads, datas, of, content, none, k
  <2>4. heads # {} => of.size \in Nat
    BY <1>2, <2>3
  <2> QED BY <2>1, <2>2, <2>4
<1> QED BY <1>3, <1>4

\* The blocks of a size.
LEMMA BlocksOf == ASSUME Ata!DiskBounds, NEW n \in Nat PROVE Ata!Blocks(n) \in Nat
<1>1. BlockSize \in Nat \ {0}
  BY Numbers
<1>2. n + BlockSize - 1 \in Nat
  BY <1>1
<1> DEFINE m == n + BlockSize - 1
<1> HIDE DEF m
<1>3. m \div BlockSize \in Nat
  BY <1>1, <1>2, DivMod DEF m
<1> QED BY <1>3 DEF Ata!Blocks, m

\* The caller's types.
LEMMA CallerTypes ==
  ASSUME Ata!DiskBounds, Ata!Addressable, DiskInv
  PROVE  /\ walker \in WalkRecords /\ walker.want \in Ata!Names \cup {Inner, Unknown} /\ walker.block \in Nat
            /\ walker.index \in Nat
         /\ walker.size \in Nat /\ walker.done \in Nat /\ walker.left \in Nat
         /\ answer \in {"none", "found", "no file", "missing", "failed"}
         /\ BlockSize \in Nat \ {0} /\ Wrap \in Nat \ {0} /\ walker.done \div BlockSize \in Nat
         /\ \A n \in Nat : n % Wrap \in Nat /\ n % Wrap < Wrap
         /\ at \in {"return", "idle", "more"} =>
              at \notin Detecting /\ mounted \in Ata!Drives /\ found[mounted].model = "disk"
<1>1. walker \in WalkRecords /\ answer \in {"none", "found", "no file", "missing", "failed"}
  BY DEF DiskInv, DiskTypes
<1>2. /\ walker.want \in Ata!Names \cup {Inner, Unknown} /\ walker.block \in Nat /\ walker.index \in Nat
      /\ walker.size \in Nat /\ walker.done \in Nat /\ walker.left \in Nat
  BY <1>1 DEF WalkRecords
<1>3. BlockSize \in Nat \ {0} /\ Wrap \in Nat \ {0}
  BY Numbers
<1>4. walker.done \div BlockSize \in Nat
  BY <1>2, <1>3, DivMod
<1>5. \A n \in Nat : n % Wrap \in Nat /\ n % Wrap < Wrap
  BY <1>3
<1>6. at \in {"return", "idle", "more"} =>
        at \notin Detecting /\ mounted \in Ata!Drives /\ found[mounted].model = "disk"
  BY DEF DiskInv, MountInv, Detecting
<1> QED BY <1>1, <1>2, <1>3, <1>4, <1>5, <1>6

\* getBlock().
LEMMA BlockKeeps ==
  ASSUME Ata!DiskBounds, Ata!Addressable, DiskInv, at \in {"return", "idle", "more"}, NEW n \in Nat, NEW then,
         Ata!GetBlock(n, then), then \in {"header", "content"}, walker' \in WalkRecords,
         answer' \in {"none", "found", "no file", "missing", "failed"},
         then = "content" => walker'.done < walker'.size /\ walker'.left > 0,
         UNCHANGED <<kind, devsel, regs, dev, stored, late, errors, found, mounted, ok, got, kept>>
  PROVE  DiskInv'
<1>1. n % Wrap \in Nat /\ n % Wrap < Wrap /\ mounted \in Ata!Drives /\ found[mounted].model = "disk"
  BY CallerTypes
<1>2. Ata!Access(mounted, "read", n % Wrap, Unknown, then)
  BY DEF Ata!GetBlock
<1> DEFINE a == n % Wrap
<1> HIDE DEF a
<1>3. a \in Nat /\ a < Wrap /\ Ata!Access(mounted, "read", a, Unknown, then)
  BY <1>1, <1>2 DEF a
<1> QED BY <1>1, <1>3, AccessKeeps

\* The header that was read says how far the next one is.
LEMMA GotSize ==
  ASSUME Ata!DiskBounds, DiskInv, Ata!Examining, ok
  PROVE  /\ got = Held(stored, mounted, job.addr) /\ got.size \in Nat /\ job.op = "read"
<1>1. job.op = "read" /\ at = "return" /\ job.then = "header"
  <2>1. job.then = "header" /\ at = "return"
    BY DEF Ata!Examining
  <2> QED BY <2>1 DEF DiskInv, JobInv, DiskTypes, Jobs
<1>2. got = Held(stored, mounted, job.addr)
  BY <1>1 DEF DiskInv, ReadInv
<1> QED BY <1>1, <1>2, HeldSize

\* The least element of a set of two numbers.
LEMMA LeastUsable == ASSUME Ata!Usable # {} PROVE Ata!Min(Ata!Usable) \in Ata!Usable
<1>1. Ata!Usable \subseteq {0, 1}
  BY DEF Ata!Usable, Ata!Drives
<1>2. \E x \in Ata!Usable : \A y \in Ata!Usable : x <= y
  <2>1. CASE 0 \in Ata!Usable
    BY <1>1, <2>1
  <2>2. CASE 0 \notin Ata!Usable
    <3>1. 1 \in Ata!Usable /\ \A y \in Ata!Usable : y = 1
      BY <1>1, <2>2
    <3> QED BY <3>1
  <2> QED BY <2>1, <2>2
<1> QED BY <1>2 DEF Ata!Min

\* The accesses that begin.
LEMMA StartsKeep ==
  ASSUME Ata!DiskBounds, Ata!Addressable, DiskInv,
         \/ Ata!Mount \/ Ata!WalksOn \/ Ata!ReadsOn
         \/ \E name \in Ata!Names \cup {Inner} : Ata!Find(name)
         \/ \E cnt \in Counts : Ata!ReadFile(cnt)
         \/ \E s \in Scratch, value \in Values : Ata!Write(s, value)
  PROVE  DiskInv'
<1>1. CASE Ata!Mount
  <2> DEFINE d == Ata!Min(Ata!Usable)
  <2>1. /\ at = "mount" /\ mounted' = d /\ Ata!Access(d, "read", 0, Unknown, "probe") /\ d \in Ata!Usable
        /\ UNCHANGED <<kind, devsel, regs, dev, stored, late, errors, found, ok, got, walker, answer, kept>>
    BY <1>1, LeastUsable DEF Ata!Mount, Ata!reader, Ata!device
  <2>2. d \in Ata!Drives /\ found[d].model = "disk" /\ 0 < Wrap
    BY <2>1, Numbers DEF Ata!Usable
  <2> HIDE DEF d
  <2> QED BY <2>1, <2>2, CallerTypes, AccessKeeps
<1>2. CASE Ata!WalksOn
  <2> DEFINE n == Ata!NextBlock(walker.block, got.size)
  <2>1. /\ Ata!Examining /\ ok /\ at = "return" /\ walker' = [walker EXCEPT !.block = n, !.index = n]
           /\ Ata!GetBlock(n, "header")
        /\ UNCHANGED <<kind, devsel, regs, dev, stored, late, errors, found, mounted, ok, got, answer, kept>>
    BY <1>2 DEF Ata!WalksOn, Ata!Examining, Ata!device
  <2>2. n \in Nat
    <3>1. walker.block \in Nat /\ got.size \in Nat /\ Ata!Blocks(got.size) \in Nat
      BY <2>1, GotSize, CallerTypes, BlocksOf
    <3> QED BY <3>1 DEF Ata!NextBlock
  <2> HIDE DEF n
  <2>3. walker' \in WalkRecords
    BY <2>1, <2>2, CallerTypes DEF WalkRecords
  <2>4. answer' \in {"none", "found", "no file", "missing", "failed"}
    BY <2>1, CallerTypes
  <2> QED BY <2>1, <2>2, <2>3, <2>4, BlockKeeps
<1>3. ASSUME NEW cnt \in Nat, Ata!MoreToRead(cnt), Ata!CopyBlock(cnt), at \in {"idle", "more"},
             UNCHANGED <<kind, devsel, regs, dev, stored, late, errors, found, mounted, ok, got, answer, kept>>
      PROVE  DiskInv'
  <2> DEFINE n == walker.block + 1 + walker.done \div BlockSize
  <2>1. walker' = [walker EXCEPT !.left = cnt] /\ Ata!GetBlock(n, "content") /\ cnt > 0 /\ walker.done < walker.size
    BY <1>3 DEF Ata!CopyBlock, Ata!MoreToRead
  <2>2. n \in Nat /\ answer' \in {"none", "found", "no file", "missing", "failed"}
    <3> DEFINE q == walker.done \div BlockSize
    <3>1. q \in Nat /\ walker.block \in Nat
      BY CallerTypes
    <3> HIDE DEF q
    <3>2. walker.block + 1 + q \in Nat
      BY <3>1
    <3>3. answer' \in {"none", "found", "no file", "missing", "failed"}
      BY <1>3, CallerTypes
    <3> QED BY <3>2, <3>3 DEF q
  <2> HIDE DEF n
  <2>3. walker' \in WalkRecords /\ walker'.done < walker'.size /\ walker'.left > 0
    BY <2>1, CallerTypes DEF WalkRecords
  <2> QED BY <1>3, <2>1, <2>2, <2>3, BlockKeeps
<1>4. CASE Ata!ReadsOn
  BY <1>3, <1>4, CallerTypes DEF Ata!ReadsOn, Ata!device
<1>5. CASE \E cnt \in Counts : Ata!ReadFile(cnt)
  <2>1. PICK cnt \in Counts : Ata!ReadFile(cnt)
    BY <1>5
  <2>2. cnt \in Nat
    BY DEF Ata!DiskBounds
  <2> QED BY <1>3, <2>1, <2>2 DEF Ata!ReadFile, Ata!device
<1>6. CASE \E name \in Ata!Names \cup {Inner} : Ata!Find(name)
  <2>1. PICK name \in Ata!Names \cup {Inner} : Ata!Find(name)
    BY <1>6
  <2>2. /\ at = "idle" /\ walker' = [Ata!NoFile EXCEPT !.want = name] /\ answer' = "none"
           /\ Ata!GetBlock(0, "header")
        /\ UNCHANGED <<kind, devsel, regs, dev, stored, late, errors, found, mounted, ok, got, kept>>
    BY <2>1 DEF Ata!Find, Ata!device
  <2>3. walker' \in WalkRecords
    BY <2>2 DEF Ata!NoFile, WalkRecords
  <2> QED BY <2>2, <2>3, BlockKeeps
<1>7. CASE \E s \in Scratch, value \in Values : Ata!Write(s, value)
  <2>1. PICK s \in Scratch, value \in Values : Ata!Write(s, value)
    BY <1>7
  <2>2. /\ at = "idle" /\ Ata!Exists(mounted, s) /\ Ata!Access(mounted, "write", s, value, "written")
        /\ kept' = [kept EXCEPT ![s] = Unknown]
        /\ UNCHANGED <<kind, devsel, regs, dev, stored, late, errors, found, mounted, ok, got, walker, answer>>
    BY <2>1 DEF Ata!Write, Ata!device
  <2>3. s \in Nat /\ s < Wrap
    <3>1. s \in 0..Capacity - 1
      BY DEF Ata!DiskBounds
    <3>2. Capacity \in Nat /\ Wrap \in Nat /\ Capacity <= Wrap
      BY Numbers
    <3> QED BY <3>1, <3>2
  <2>4. Reach(kind[mounted], s)
    BY <2>2, DiskNames
  <2> QED BY <2>2, <2>3, <2>4, CallerTypes, AccessKeeps
<1> QED BY <1>1, <1>2, <1>4, <1>5, <1>6, <1>7

\* After an access the caller goes on.
LEMMA MovesKeep ==
  ASSUME Ata!DiskBounds, DiskInv, at \in {"return", "more"}, at' \in {"idle", "more"}, walker' \in WalkRecords,
         answer' \in {"none", "found", "no file", "missing", "failed"},
         \/ kept' = kept /\ (at' = "more" => job.op = "read")
         \/ at = "return" /\ at' = "idle" /\ job.op = "write" /\ ok
            /\ kept' = [kept EXCEPT ![job.addr] = job.value],
         UNCHANGED <<kind, devsel, regs, dev, stored, late, errors, found, mounted, job, ok, got>>
  PROVE  DiskInv'
<1>1. JobInv /\ StoreInv /\ at \notin Detecting /\ kept \in [Scratch -> Values \cup {Unknown}] /\ DriveOk(D)
  BY DEF DiskInv, DiskTypes, Detecting, DrivesOk, MountInv, D
<1>2. job.op = "write" => job.addr \in Scratch /\ job.value \in Values
  BY <1>1 DEF JobInv
<1>3. kept' \in [Scratch -> Values \cup {Unknown}]
  BY <1>1, <1>2
<1>4. DiskTypes' /\ FoundInv' /\ DetectInv'
  BY <1>3 DEF DiskInv, DiskTypes, FoundInv, DetectInv, Places, Detecting
<1>5. MountInv' /\ JobInv' /\ ReadInv' /\ CopyInv'
  BY DEF DiskInv, MountInv, JobInv, ReadInv, CopyInv, Detecting
<1>6. PhaseInv'
  BY <1>1 DEF DiskInv, PhaseInv, JobInv, D, Storing
<1>7. CASE kept' = kept /\ (at' = "more" => job.op = "read")
  <2>1. StoreInv'
    BY <1>1, <1>7 DEF StoreInv, Kept, D
  <2> QED BY <1>4, <1>5, <1>6, <2>1 DEF DiskInv
<1>8. CASE at = "return" /\ at' = "idle" /\ job.op = "write" /\ ok /\ kept' = [kept EXCEPT ![job.addr] = job.value]
  <2>1. OnlyIn(D, job.addr, job.value) /\ (errors = 0 => Kept(job.addr, job.value))
    BY <1>1, <1>8 DEF StoreInv
  <2>2. kept'[job.addr] = job.value /\ \A s \in Scratch \ {job.addr} : kept'[s] = kept[s]
    BY <1>1, <1>2, <1>8
  <2>3. InStore(D) => kept'[D.sector] \in {Unknown, D.data}
    BY <2>1, <2>2 DEF OnlyIn
  <2>4. errors = 0 => \A s \in Scratch : kept'[s] # Unknown => Kept(s, kept'[s])
    <3> SUFFICES ASSUME errors = 0, NEW s \in Scratch, kept'[s] # Unknown PROVE Kept(s, kept'[s])
      OBVIOUS
    <3>1. CASE s = job.addr
      BY <2>1, <2>2, <3>1
    <3>2. CASE s # job.addr
      <4>1. kept'[s] = kept[s]
        BY <2>2, <3>2
      <4> QED BY <1>1, <4>1 DEF StoreInv
    <3> QED BY <3>1, <3>2
  <2>5. StoreInv'
    BY <1>8, <2>3, <2>4 DEF StoreInv, Kept, D
  <2> QED BY <1>4, <1>5, <1>6, <2>5 DEF DiskInv
<1> QED BY <1>7, <1>8

\* What one block of a file brings.
LEMMA CopiedSome ==
  ASSUME Ata!DiskBounds, Ata!Addressable, DiskInv, walker.done < walker.size, walker.left > 0
  PROVE  /\ Ata!Copied \in Nat \ {0} /\ Ata!Copied <= walker.left /\ Ata!Copied <= walker.size - walker.done
         /\ Ata!Copied <= BlockSize - (walker.done % BlockSize)
<1>1. walker.size \in Nat /\ walker.done \in Nat /\ walker.left \in Nat /\ BlockSize \in Nat \ {0}
  BY CallerTypes
<1> DEFINE a == walker.left
           b == BlockSize - (walker.done % BlockSize)
           c == walker.size - walker.done
           S == {a, b, c}
<1>2. walker.done % BlockSize \in 0..BlockSize - 1
  BY <1>1
<1>3. a \in Nat \ {0} /\ b \in Nat \ {0} /\ c \in Nat \ {0}
  BY <1>1, <1>2
<1> HIDE DEF a, b, c
<1>4. \E x \in S : \A y \in S : x <= y
  <2>1. CASE a <= b /\ a <= c
    BY <1>3, <2>1
  <2>2. CASE b <= a /\ b <= c
    BY <1>3, <2>2
  <2>3. CASE c <= a /\ c <= b
    BY <1>3, <2>3
  <2> QED BY <1>3, <2>1, <2>2, <2>3
<1>5. Ata!Min(S) \in S /\ \A y \in S : Ata!Min(S) <= y
  BY <1>4 DEF Ata!Min
<1>6. Ata!Copied = Ata!Min(S)
  BY DEF Ata!Copied, a, b, c
<1>7. Ata!Copied \in Nat \ {0} /\ Ata!Copied <= a /\ Ata!Copied <= b /\ Ata!Copied <= c
  BY <1>3, <1>5, <1>6
<1> QED BY <1>7 DEF a, b, c

\* The ways in which it does.
LEMMA CallerKeeps ==
  ASSUME Ata!DiskBounds, Ata!Addressable, DiskInv, Ata!Probed \/ Ata!Finds \/ Ata!WalkEnds \/ Ata!ContentRead
         \/ Ata!ReadEnds \/ Ata!Written
  PROVE  DiskInv'
<1>1. /\ at \in {"return", "more"}
      /\ UNCHANGED <<kind, devsel, regs, dev, stored, late, errors, found, mounted, job, ok, got>>
  BY DEF Ata!Probed, Ata!Finds, Ata!WalkEnds, Ata!Ends, Ata!ContentRead, Ata!ReadEnds, Ata!Written,
         Ata!Examining, Ata!device
<1>2. JobInv /\ CopyInv /\ job \in Jobs
  BY DEF DiskInv, DiskTypes
<1>3. CASE Ata!Probed
  BY <1>1, <1>3, CallerTypes, MovesKeep DEF Ata!Probed, Ata!reader
<1>4. CASE Ata!Finds
  <2>1. Ata!Examining /\ ok /\ at' = "idle" /\ answer' = (IF got.file THEN "found" ELSE "no file")
        /\ walker' = [walker EXCEPT !.size = got.size] /\ kept' = kept
    BY <1>4 DEF Ata!Finds
  <2>2. walker' \in WalkRecords
    BY <2>1, GotSize, CallerTypes DEF WalkRecords
  <2>3. answer' \in {"none", "found", "no file", "missing", "failed"}
    BY <2>1
  <2> QED BY <1>1, <2>1, <2>2, <2>3, MovesKeep
<1>5. CASE Ata!WalkEnds
  <2>1. at' = "idle" /\ walker' = walker /\ kept' = kept /\ answer' \in {"missing", "failed"}
    BY <1>5 DEF Ata!WalkEnds, Ata!Ends
  <2> QED BY <1>1, <2>1, CallerTypes, MovesKeep
<1>6. CASE Ata!ContentRead
  <2>1. /\ at = "return" /\ job.then = "content" /\ at' = "more" /\ answer' = answer /\ kept' = kept
        /\ walker' = [walker EXCEPT !.done = walker.done + Ata!Copied, !.left = walker.left - Ata!Copied]
    BY <1>6 DEF Ata!ContentRead
  <2>2. walker.done < walker.size /\ walker.left > 0
    BY <1>2, <2>1 DEF CopyInv
  <2>3. walker.done + Ata!Copied \in Nat /\ walker.left - Ata!Copied \in Nat
    <3>1. Ata!Copied \in Nat /\ Ata!Copied <= walker.left
      BY <2>2, CopiedSome
    <3>2. walker.done \in Nat /\ walker.left \in Nat
      BY CallerTypes
    <3> QED BY <3>1, <3>2
  <2>4. walker' \in WalkRecords
    BY <2>1, <2>3, CallerTypes DEF WalkRecords
  <2>5. job.op = "read"
    BY <1>2, <2>1 DEF JobInv, Jobs
  <2> QED BY <1>1, <2>1, <2>4, <2>5, CallerTypes, MovesKeep
<1>7. CASE Ata!ReadEnds
  <2>1. at' = "idle" /\ answer' = answer /\ kept' = kept /\ walker' = [walker EXCEPT !.left = 0]
    BY <1>7 DEF Ata!ReadEnds
  <2>2. walker' \in WalkRecords
    BY <2>1, CallerTypes DEF WalkRecords
  <2> QED BY <1>1, <2>1, <2>2, CallerTypes, MovesKeep
<1>8. CASE Ata!Written
  <2>1. /\ at = "return" /\ job.then = "written" /\ at' = "idle" /\ walker' = walker /\ answer' = answer
        /\ kept' = IF ok THEN [kept EXCEPT ![job.addr] = job.value] ELSE kept
    BY <1>8 DEF Ata!Written
  <2>2. job.op = "write"
    BY <1>2, <2>1 DEF JobInv
  <2> QED BY <1>1, <2>1, <2>2, CallerTypes, MovesKeep
<1> QED BY <1>3, <1>4, <1>5, <1>6, <1>7, <1>8

-----------------------------------------------------------------------------
(* Reads and writes are faithful                                             *)

\* At the start.
LEMMA DiskInits == ASSUME Ata!DiskBounds, Ata!Init PROVE DiskInv
<1>1. ByteValues \in Nat \ {0} /\ HeadValues \in Nat \ {0} /\ Wrap \in Nat \ {0} /\ MaxLate \in Nat
      /\ MaxErrors \in Nat
  BY Numbers DEF Ata!DiskBounds
<1>2. \A d \in Ata!Drives : dev[d] = Ata!Quiet
  BY DEF Ata!Init
<1>3. DrivesOk(dev)
  BY <1>2, DriveShapes DEF DrivesOk, Ata!Init
<1>4. regs = <<0, 0, 0>> /\ regs \in Seq(0..ByteValues - 1) /\ Len(regs) = 3
  <2>1. 0 \in 0..ByteValues - 1
    BY <1>1
  <2> QED BY <2>1 DEF Ata!Init
<1>5. devsel \in [drive: Ata!Drives, lba: BOOLEAN, head: 0..HeadValues - 1]
  BY <1>1 DEF Ata!Init, Ata!Drives
<1>6. job \in Jobs /\ walker \in WalkRecords /\ found \in [Ata!Drives -> DeviceRecords]
  BY DEF Ata!Init, Jobs, WalkRecords, DeviceRecords, Ata!NoFile, Ata!Drives
<1>7. stored \in [Ata!Drives -> [Scratch -> Values \cup {Unknown}]] /\ kept \in [Scratch -> Values \cup {Unknown}]
  BY DEF Ata!Init
<1>8. late \in 0..MaxLate /\ errors \in 0..MaxErrors
  BY <1>1 DEF Ata!Init
<1>9. DiskTypes
  BY <1>3, <1>4, <1>5, <1>6, <1>7, <1>8 DEF Ata!Init, DiskTypes, Places, Detecting
<1>10. at = "detect" /\ job.drive = 0 /\ job.op = "read" /\ job.addr = 0 /\ job.then = "none" /\ ~job.dummy
  BY DEF Ata!Init
<1>11. \A d \in Ata!Drives : found[d].model = "unknown" /\ dev[d].phase = "idle"
  BY <1>2, DriveShapes DEF Ata!Init
<1>12. FoundInv
  BY <1>11 DEF FoundInv
<1>13. DetectInv
  BY <1>10, <1>11 DEF DetectInv, Sought, Ata!Init
<1>14. MountInv /\ PhaseInv /\ StoreInv
  BY <1>10 DEF MountInv, PhaseInv, StoreInv, Detecting
<1>15. JobInv /\ ReadInv /\ CopyInv
  BY <1>1, <1>10 DEF JobInv, ReadInv, CopyInv
<1> QED BY <1>9, <1>12, <1>13, <1>14, <1>15 DEF DiskInv

\* Every step.
LEMMA DiskSteps ==
  ASSUME Ata!DiskBounds, Ata!Addressable, Ata!Prompt, DiskInv, [Ata!Next]_(Ata!vars)
  PROVE  DiskInv'
<1>1. CASE Ata!vars' = Ata!vars \/ Ata!NoDisk
  <2>1. UNCHANGED <<kind, devsel, regs, dev, stored, late, errors, found, mounted, at, job, ok, got, walker, answer, kept>>
    BY <1>1 DEF Ata!vars, Ata!device, Ata!driver, Ata!reader, Ata!NoDisk
  <2>2. Ata!Addr' = Ata!Addr /\ Ata!Sel' = Ata!Sel
    BY <2>1 DEF Ata!Addr, Ata!Sel
  <2>3. DiskTypes' /\ FoundInv' /\ JobInv' /\ ReadInv' /\ CopyInv'
    BY <2>1 DEF DiskInv, DiskTypes, FoundInv, JobInv, ReadInv, CopyInv, D
  <2>4. DetectInv'
    BY <2>1, <2>2 DEF DiskInv, DetectInv, Sought
  <2>5. MountInv' /\ PhaseInv' /\ StoreInv'
    BY <2>1, <2>2 DEF DiskInv, MountInv, PhaseInv, StoreInv, D, Storing, DriveDoing, Kept
  <2> QED BY <2>3, <2>4, <2>5 DEF DiskInv
<1>2. CASE \E d \in Ata!Drives : Ata!Complete(d) \/ Ata!DriveError(d)
  BY <1>2, AnswerKeeps
<1>3. CASE Ata!Start /\ ~Ata!NoDisk
  <2>1. CASE Ata!Identify \/ Ata!DetectPacket
    <3>1. /\ \/ at = "didentify" /\ at' = "dpoll" /\ dev' = Ata!Commanded("identify")
             \/ at = "dpoll" /\ at' = "dpacket" /\ dev' = Ata!Commanded("packet")
          /\ UNCHANGED <<kind, devsel, regs, stored, late, errors, found, mounted, job, ok, got, walker, answer, kept>>
      BY <2>1 DEF Ata!Identify, Ata!DetectPacket, Ata!reader
    <3> QED BY <3>1, CommandKeeps
  <2> QED BY <1>3, <2>1, DetectKeeps, DetectSelectKeeps, DetectEnds, StartsKeep, CallerKeeps DEF Ata!Start
<1>4. CASE Ata!Driver
  BY <1>4, SelectsKeep, ToldKeeps, ReturnsKeep DEF Ata!Driver
<1>5. CASE Ata!Ustar \/ Ata!Writer
  BY <1>5, StartsKeep, CallerKeeps DEF Ata!Ustar, Ata!Writer
<1> QED BY <1>1, <1>2, <1>3, <1>4, <1>5 DEF Ata!Next

\* The invariant says what the run checks.
LEMMA DiskReady == ASSUME Ata!DiskBounds, DiskInv PROVE Ata!ReadFaithful /\ Ata!WriteKept
<1>1. Ata!TypeOK
  <2>1. \A d \in Ata!Drives : DriveOk(dev[d]) /\ found[d] \in DeviceRecords
    BY DEF DiskInv, DiskTypes, DrivesOk
  <2> QED BY <2>1 DEF Ata!TypeOK, DiskInv, DiskTypes, DriveOk, DeviceRecords
<1>2. at = "return" /\ ok /\ job.op = "read" => got = Ata!Content(mounted, job.addr)
  BY DiskNames DEF DiskInv, ReadInv
<1>3. Ata!WriteKept
  <2>1. CASE at \in Detecting
    BY <2>1 DEF Ata!WriteKept, DiskInv, DetectInv
  <2>2. CASE at \notin Detecting
    BY <2>2 DEF Ata!WriteKept, DiskInv, StoreInv, Kept, KeptIn, InStore, D
  <2> QED BY <2>1, <2>2
<1> QED BY <1>1, <1>2, <1>3 DEF Ata!ReadFaithful

\* A read that succeeds has brought the sector that was asked for of the disk that was asked:
\* ATA::select() and readSector(), while no drive takes longer for a sector than they wait.
THEOREM ReadsAreFaithful ==
  ASSUME Ata!Addressable, Ata!Prompt PROVE StoreSpec => []ReadFaithful
<1>1. Ata!Init => DiskInv
  BY FilesOnDiskAssumption, DiskInits
<1>2. DiskInv /\ [Ata!Next]_(Ata!vars) => DiskInv'
  BY FilesOnDiskAssumption, DiskSteps
<1>3. DiskInv => ReadFaithful
  BY FilesOnDiskAssumption, DiskReady DEF ReadFaithful
<1> QED BY <1>1, <1>2, <1>3, StoreHasParts, PTL DEF Ata!Spec

\* What writeSector() said it had written is on the disk, or in its buffer on the way there,
\* while the drives report no error.
THEOREM WritesAreKept ==
  ASSUME Ata!Addressable, Ata!Prompt PROVE StoreSpec => []WriteKept
<1>1. Ata!Init => DiskInv
  BY FilesOnDiskAssumption, DiskInits
<1>2. DiskInv /\ [Ata!Next]_(Ata!vars) => DiskInv'
  BY FilesOnDiskAssumption, DiskSteps
<1>3. DiskInv => WriteKept
  BY FilesOnDiskAssumption, DiskReady DEF WriteKept
<1> QED BY <1>1, <1>2, <1>3, StoreHasParts, PTL DEF Ata!Spec

-----------------------------------------------------------------------------
(* The archive                                                               *)

\* The recursive function of HeaderOf().
Headers(k, v) ==
  v = [i \in 0..k |-> IF i <= 1 THEN 0 ELSE v[i - 1] + 1 + Ata!Blocks(Archive[i - 1].size)]

LEMMA HeadersExist == ASSUME NEW k \in Nat PROVE \E v : Headers(k, v)
<1> DEFINE T == {n \in Nat : ~\E v : Headers(n, v)}
<1> SUFFICES ASSUME T # {} PROVE FALSE
  OBVIOUS
<1>1. PICK n \in T : \A m \in T : n <= m
  <2>1. T \in SUBSET Nat
    OBVIOUS
  <2> HIDE DEF T
  <2> QED BY <2>1, LeastNat
<1>2. n \in Nat /\ ~\E v : Headers(n, v)
  OBVIOUS
<1>3. CASE n = 0
  <2> DEFINE v == [i \in 0..0 |-> 0]
  <2>1. v = [i \in 0..0 |-> IF i <= 1 THEN 0 ELSE v[i - 1] + 1 + Ata!Blocks(Archive[i - 1].size)]
    OBVIOUS
  <2> HIDE DEF v
  <2>2. Headers(0, v)
    BY <2>1 DEF Headers
  <2> QED BY <1>2, <1>3, <2>2
<1>4. CASE n # 0
  <2>1. n - 1 \in Nat /\ n - 1 \notin T
    BY <1>1, <1>2, <1>4
  <2>2. PICK u : Headers(n - 1, u)
    BY <2>1
  <2> DEFINE g(w, i) == IF i <= 1 THEN 0 ELSE w[i - 1] + 1 + Ata!Blocks(Archive[i - 1].size)
             v == [i \in 0..n |-> IF i = n THEN g(u, n) ELSE u[i]]
  <2>3. DOMAIN v = 0..n /\ v = [i \in 0..n |-> v[i]]
    OBVIOUS
  <2>4. \A i \in 0..n - 1 : v[i] = u[i] /\ u[i] = g(u, i)
    BY <1>2, <2>2 DEF Headers
  <2>5. v[n] = g(u, n)
    BY <1>2
  <2>6. ASSUME NEW i \in 0..n PROVE v[i] = g(v, i)
    <3>1. v[i] = g(u, i)
      <4> HIDE DEF v, g
      <4> QED BY <1>2, <2>4, <2>5
    <3>2. i > 1 => v[i - 1] = u[i - 1]
      <4>1. i > 1 => i - 1 \in 0..n - 1
        BY <1>2
      <4> HIDE DEF v, g
      <4> QED BY <2>4, <4>1
    <3> HIDE DEF v
    <3> QED BY <1>2, <3>1, <3>2
  <2> HIDE DEF v, g
  <2>7. v = [i \in 0..n |-> g(v, i)]
    BY <2>3, <2>6
  <2>8. Headers(n, v)
    BY <2>7 DEF Headers, g
  <2> QED BY <1>2, <2>8
<1> QED BY <1>3, <1>4

\* Two such functions agree where both are defined.
LEMMA HeadersAgree ==
  ASSUME NEW k \in Nat, NEW m \in Nat, k <= m, NEW u, NEW v, Headers(k, u), Headers(m, v)
  PROVE  u[k] = v[k]
<1> DEFINE T == {i \in 0..k : u[i] # v[i]}
<1>1. T = {}
  <2> SUFFICES ASSUME T # {} PROVE FALSE
    OBVIOUS
  <2>1. PICK n \in T : \A i \in T : n <= i
    <3>1. T \in SUBSET Nat
      OBVIOUS
    <3> HIDE DEF T
    <3> QED BY <3>1, LeastNat
  <2>2. n \in 0..k /\ n \in 0..m /\ u[n] # v[n]
    OBVIOUS
  <2>3. n > 1
    BY <2>2 DEF Headers
  <2>4. n - 1 \in 0..k /\ n - 1 \notin T
    BY <2>1, <2>2, <2>3
  <2>5. u[n - 1] = v[n - 1]
    BY <2>4
  <2> QED BY <2>2, <2>3, <2>5 DEF Headers
<1> QED BY <1>1

\* Each header follows the blocks of the file before it.
LEMMA HeaderNext ==
  /\ Ata!HeaderOf(1) = 0
  /\ \A k \in Nat \ {0} : Ata!HeaderOf(k + 1) = Ata!HeaderOf(k) + 1 + Ata!Blocks(Archive[k].size)
<1> DEFINE v(k) == CHOOSE f : Headers(k, f)
<1>1. \A k \in Nat : Headers(k, v(k))
  BY HeadersExist
<1>2. \A k : Ata!HeaderOf(k) = v(k)[k]
  BY DEF Ata!HeaderOf, Headers
<1> HIDE DEF v
<1>3. Ata!HeaderOf(1) = 0
  BY <1>1, <1>2 DEF Headers
<1>4. ASSUME NEW k \in Nat \ {0}
      PROVE  Ata!HeaderOf(k + 1) = Ata!HeaderOf(k) + 1 + Ata!Blocks(Archive[k].size)
  <2> DEFINE u == v(k)
             w == v(k + 1)
  <2>1. k \in Nat /\ k + 1 \in Nat /\ k <= k + 1
    OBVIOUS
  <2>2. Headers(k, u) /\ Headers(k + 1, w)
    BY <1>1, <2>1
  <2>3. u[k] = w[k]
    <3> HIDE DEF u, w
    <3> QED BY <2>1, <2>2, HeadersAgree
  <2>4. w[k + 1] = w[k] + 1 + Ata!Blocks(Archive[k].size)
    <3> HIDE DEF u, w
    <3>1. k + 1 \in 0..k + 1 /\ ~(k + 1 <= 1) /\ k + 1 - 1 = k
      OBVIOUS
    <3>2. w[k + 1] = IF k + 1 <= 1 THEN 0 ELSE w[k + 1 - 1] + 1 + Ata!Blocks(Archive[k + 1 - 1].size)
      BY <2>2, <3>1 DEF Headers
    <3> QED BY <3>1, <3>2
  <2> QED BY <1>2, <2>3, <2>4
<1> QED BY <1>3, <1>4

\* The archive's entries.
LEMMA ArchiveEntries ==
  ASSUME Ata!DiskBounds
  PROVE  /\ Len(Archive) \in Nat /\ DOMAIN Archive = 1..Len(Archive)
         /\ \A k \in 1..Len(Archive) : /\ Archive[k].size \in Nat /\ Archive[k].file \in BOOLEAN
                                       /\ Archive[k].name \notin {Inner, Unknown}
<1> DEFINE N == {Archive[k].name : k \in DOMAIN Archive}
           T == [name: N, size: Nat, file: BOOLEAN]
<1>1. Archive \in Seq(T)
  BY DEF Ata!DiskBounds
<1>2. \A k \in DOMAIN Archive : Archive[k].name \notin {Inner, Unknown}
  BY DEF Ata!DiskBounds
<1> HIDE DEF N
<1>3. \A t \in T : t.size \in Nat /\ t.file \in BOOLEAN
  OBVIOUS
<1> HIDE DEF T
<1>4. Len(Archive) \in Nat /\ DOMAIN Archive = 1..Len(Archive) /\ \A k \in 1..Len(Archive) : Archive[k] \in T
  BY <1>1
<1> QED BY <1>2, <1>3, <1>4

\* Headers are numbers, and rise by a file's blocks at least.
LEMMA HeadersRise ==
  ASSUME Ata!DiskBounds
  PROVE  /\ \A k \in 1..Len(Archive) + 1 : Ata!HeaderOf(k) \in Nat
         /\ \A j, k \in 1..Len(Archive) + 1 : j < k =>
              Ata!HeaderOf(j) + 1 + Ata!Blocks(Archive[j].size) <= Ata!HeaderOf(k)
              /\ Ata!Blocks(Archive[j].size) \in Nat
<1> DEFINE L == Len(Archive)
<1>1. L \in Nat /\ \A k \in 1..L : Archive[k].size \in Nat
  BY ArchiveEntries
<1>2. \A k \in 1..L : Ata!Blocks(Archive[k].size) \in Nat
  BY <1>1, BlocksOf
<1>3. \A k \in 1..L : Ata!HeaderOf(k + 1) = Ata!HeaderOf(k) + 1 + Ata!Blocks(Archive[k].size)
  BY <1>1, HeaderNext
<1> HIDE DEF L
<1>4. \A k \in 1..L + 1 : Ata!HeaderOf(k) \in Nat
  <2> DEFINE T == {k \in 1..L + 1 : Ata!HeaderOf(k) \notin Nat}
  <2> SUFFICES ASSUME T # {} PROVE FALSE
    OBVIOUS
  <2>1. PICK n \in T : \A i \in T : n <= i
    <3>1. T \in SUBSET Nat
      BY <1>1
    <3> HIDE DEF T
    <3> QED BY <3>1, LeastNat
  <2>2. n \in 1..L + 1 /\ Ata!HeaderOf(n) \notin Nat /\ n # 1
    BY HeaderNext
  <2>3. n - 1 \in 1..L /\ n - 1 \notin T /\ n - 1 + 1 = n
    BY <1>1, <2>1, <2>2
  <2>4. Ata!HeaderOf(n - 1) \in Nat
    BY <1>1, <2>3
  <2> QED BY <1>2, <1>3, <2>2, <2>3, <2>4
<1>5. ASSUME NEW j \in 1..L + 1, NEW k \in 1..L + 1, j < k
      PROVE  Ata!HeaderOf(j) + 1 + Ata!Blocks(Archive[j].size) <= Ata!HeaderOf(k)
             /\ Ata!Blocks(Archive[j].size) \in Nat
  <2> DEFINE T == {i \in 1..L + 1 : j < i /\ ~(Ata!HeaderOf(j + 1) <= Ata!HeaderOf(i))}
  <2>1. j \in 1..L /\ j + 1 \in 1..L + 1
    BY <1>1, <1>5
  <2>2. T = {}
    <3> SUFFICES ASSUME T # {} PROVE FALSE
      OBVIOUS
    <3>1. PICK n \in T : \A i \in T : n <= i
      <4>1. T \in SUBSET Nat
        BY <1>1
      <4> HIDE DEF T
      <4> QED BY <4>1, LeastNat
    <3>2. n \in 1..L + 1 /\ j < n /\ ~(Ata!HeaderOf(j + 1) <= Ata!HeaderOf(n))
      OBVIOUS
    <3>3. n # j + 1
      BY <1>4, <2>1, <3>2
    <3>4. n - 1 \in 1..L /\ n - 1 \in 1..L + 1 /\ j < n - 1 /\ n - 1 \notin T /\ n - 1 + 1 = n
      BY <1>1, <2>1, <3>1, <3>2, <3>3
    <3>5. Ata!HeaderOf(j + 1) <= Ata!HeaderOf(n - 1)
      BY <3>4
    <3>6. Ata!HeaderOf(n) = Ata!HeaderOf(n - 1) + 1 + Ata!Blocks(Archive[n - 1].size)
          /\ Ata!Blocks(Archive[n - 1].size) \in Nat
      BY <1>2, <1>3, <3>4
    <3>7. Ata!HeaderOf(n - 1) \in Nat /\ Ata!HeaderOf(j + 1) \in Nat
      BY <1>4, <2>1, <3>4
    <3> HIDE DEF T
    <3> QED BY <3>2, <3>5, <3>6, <3>7
  <2>3. Ata!HeaderOf(j + 1) <= Ata!HeaderOf(k)
    BY <1>5, <2>2
  <2>4. Ata!HeaderOf(j + 1) = Ata!HeaderOf(j) + 1 + Ata!Blocks(Archive[j].size)
        /\ Ata!Blocks(Archive[j].size) \in Nat
    BY <1>2, <1>3, <2>1
  <2> QED BY <2>3, <2>4
<1> QED BY <1>4, <1>5 DEF L

\* What a sector outside Scratch holds, case by case.
LEMMA SectorIs ==
  ASSUME Ata!DiskBounds, NEW st, NEW d, NEW s, s \notin Scratch
  PROVE  /\ Held(st, d, s).from = <<d, s>>
         /\ \A k \in 1..Len(Archive) :
              Ata!HeaderOf(k) = s /\ (\A j \in 1..Len(Archive) : Ata!HeaderOf(j) = s => j = k) =>
                /\ Held(st, d, s).name = Archive[k].name /\ Held(st, d, s).size = Archive[k].size
                /\ Held(st, d, s).file = Archive[k].file
         /\ (\A k \in 1..Len(Archive) : s \notin Ata!HeaderOf(k)..Ata!HeaderOf(k) + Ata!Blocks(Archive[k].size)
                                        /\ Ata!HeaderOf(k) \in Nat /\ Ata!Blocks(Archive[k].size) \in Nat) =>
              Held(st, d, s).name = Unknown
<1> DEFINE heads == {k \in DOMAIN Archive : Ata!HeaderOf(k) = s}
           datas == {k \in DOMAIN Archive : s \in Ata!HeaderOf(k) + 1..Ata!HeaderOf(k) + Ata!Blocks(Archive[k].size)}
           Of(k) == [name |-> Archive[k].name, size |-> Archive[k].size,
                     file |-> Archive[k].file, from |-> <<d, s>>]
           c == CHOOSE k \in heads : TRUE
           content == [Ata!Nothing EXCEPT !.name = Inner, !.file = TRUE, !.from = <<d, s>>]
           none == [Ata!Nothing EXCEPT !.from = <<d, s>>]
           h == Held(st, d, s)
<1>1. h = IF heads # {} THEN Of(c) ELSE IF datas # {} THEN content ELSE none
  BY DEF Held, Ata!Sector
<1>2. content.from = <<d, s>> /\ none.from = <<d, s>> /\ none.name = Unknown
  BY DEF Ata!Nothing
<1>3. \A k : /\ Of(k).from = <<d, s>> /\ Of(k).name = Archive[k].name /\ Of(k).size = Archive[k].size
             /\ Of(k).file = Archive[k].file
  OBVIOUS
<1>4. heads # {} => c \in heads
  OBVIOUS
<1>5. DOMAIN Archive = 1..Len(Archive)
  BY ArchiveEntries
<1>6. h.from = <<d, s>>
  <2> HIDE DEF heads, datas, Of, c, content, none, h
  <2> QED BY <1>1, <1>2, <1>3
<1>7. ASSUME NEW k \in 1..Len(Archive), Ata!HeaderOf(k) = s, \A j \in 1..Len(Archive) : Ata!HeaderOf(j) = s => j = k
      PROVE  h.name = Archive[k].name /\ h.size = Archive[k].size /\ h.file = Archive[k].file
  <2>1. heads = {k}
    BY <1>5, <1>7
  <2> HIDE DEF heads, datas, Of, content, none, h
  <2>2. c = k
    BY <2>1
  <2> HIDE DEF c
  <2> QED BY <1>1, <1>3, <2>1, <2>2
<1>8. ASSUME \A k \in 1..Len(Archive) : s \notin Ata!HeaderOf(k)..Ata!HeaderOf(k) + Ata!Blocks(Archive[k].size)
                                        /\ Ata!HeaderOf(k) \in Nat /\ Ata!Blocks(Archive[k].size) \in Nat
      PROVE  h.name = Unknown
  <2>1. heads = {}
    BY <1>5, <1>8
  <2>2. datas = {}
    BY <1>5, <1>8
  <2> HIDE DEF heads, datas, Of, c, content, none, h
  <2> QED BY <1>1, <1>2, <2>1, <2>2
<1> HIDE DEF heads, datas, Of, c, content, none
<1> QED BY <1>6, <1>7, <1>8

\* The sectors of the archive: headers, what comes after the last one, and the blocks of a file.
LEMMA ArchiveHeld ==
  ASSUME Ata!DiskBounds, Ata!ArchiveFits, NEW st, NEW d
  PROVE  /\ \A k \in 1..Len(Archive) :
              LET h == Held(st, d, Ata!HeaderOf(k))
              IN  h.name = Archive[k].name /\ h.size = Archive[k].size /\ h.file = Archive[k].file
         /\ Held(st, d, Ata!HeaderOf(Len(Archive) + 1)).name = Unknown
         /\ \A k \in 1..Len(Archive), s \in Nat :
              s >= Ata!HeaderOf(k) /\ s <= Ata!HeaderOf(k) + Ata!Blocks(Archive[k].size) =>
                Held(st, d, s).from = <<d, s>>
<1> DEFINE L == Len(Archive)
<1>1. L \in Nat /\ L + 1 \in 1..L + 1 /\ \A k \in 1..L : k \in 1..L + 1 /\ k < L + 1
  BY ArchiveEntries
<1>2. /\ \A k \in 1..L + 1 : Ata!HeaderOf(k) \in Nat
      /\ \A j, k \in 1..L + 1 : j < k =>
           Ata!HeaderOf(j) + 1 + Ata!Blocks(Archive[j].size) <= Ata!HeaderOf(k)
           /\ Ata!Blocks(Archive[j].size) \in Nat
  BY HeadersRise
<1>3. \A s \in Scratch : s \in Nat /\ s >= Ata!HeaderOf(L + 1)
  <2>1. Scratch \subseteq 0..Capacity - 1 /\ Capacity \in Nat
    BY Numbers DEF Ata!DiskBounds
  <2> QED BY <2>1 DEF Ata!ArchiveFits
<1>4. ASSUME NEW k \in 1..L
      PROVE  LET h == Held(st, d, Ata!HeaderOf(k))
             IN  h.name = Archive[k].name /\ h.size = Archive[k].size /\ h.file = Archive[k].file
  <2> HIDE DEF L
  <2>1. Ata!HeaderOf(k) \in Nat /\ Ata!HeaderOf(L + 1) \in Nat /\ Ata!HeaderOf(k) < Ata!HeaderOf(L + 1)
    BY <1>1, <1>2
  <2>2. Ata!HeaderOf(k) \notin Scratch
    BY <1>3, <2>1
  <2>3. ASSUME NEW j \in 1..L, Ata!HeaderOf(j) = Ata!HeaderOf(k) PROVE j = k
    <3>1. j \in 1..L + 1 /\ k \in 1..L + 1 /\ Ata!HeaderOf(j) \in Nat /\ Ata!HeaderOf(k) \in Nat
      BY <1>1, <1>2
    <3>2. ~(j < k)
      <4>1. j < k => Ata!HeaderOf(j) + 1 + Ata!Blocks(Archive[j].size) <= Ata!HeaderOf(k)
            /\ Ata!Blocks(Archive[j].size) \in Nat
        BY <1>2, <3>1
      <4> QED BY <2>3, <3>1, <4>1
    <3>3. ~(k < j)
      <4>1. k < j => Ata!HeaderOf(k) + 1 + Ata!Blocks(Archive[k].size) <= Ata!HeaderOf(j)
            /\ Ata!Blocks(Archive[k].size) \in Nat
        BY <1>2, <3>1
      <4> QED BY <2>3, <3>1, <4>1
    <3> QED BY <1>1, <3>1, <3>2, <3>3
  <2> QED BY <2>2, <2>3, SectorIs DEF L
<1>5. Held(st, d, Ata!HeaderOf(L + 1)).name = Unknown
  <2>1. CASE Ata!HeaderOf(L + 1) \in Scratch
    BY <2>1 DEF Held, Ata!Nothing
  <2>2. CASE Ata!HeaderOf(L + 1) \notin Scratch
    <3>1. ASSUME NEW k \in 1..L
          PROVE  /\ Ata!HeaderOf(L + 1) \notin Ata!HeaderOf(k)..Ata!HeaderOf(k) + Ata!Blocks(Archive[k].size)
                 /\ Ata!HeaderOf(k) \in Nat /\ Ata!Blocks(Archive[k].size) \in Nat
      <4> HIDE DEF L
      <4>1. Ata!HeaderOf(k) + 1 + Ata!Blocks(Archive[k].size) <= Ata!HeaderOf(L + 1)
            /\ Ata!Blocks(Archive[k].size) \in Nat
            /\ Ata!HeaderOf(k) \in Nat /\ Ata!HeaderOf(L + 1) \in Nat
        BY <1>1, <1>2
      <4> QED BY <4>1
    <3> QED BY <2>2, <3>1, SectorIs
  <2> QED BY <2>1, <2>2
<1>6. ASSUME NEW k \in 1..L, NEW s \in Nat, s >= Ata!HeaderOf(k), s <= Ata!HeaderOf(k) + Ata!Blocks(Archive[k].size)
      PROVE  Held(st, d, s).from = <<d, s>>
  <2> HIDE DEF L
  <2>1. Ata!HeaderOf(k) + 1 + Ata!Blocks(Archive[k].size) <= Ata!HeaderOf(L + 1)
        /\ Ata!Blocks(Archive[k].size) \in Nat
        /\ Ata!HeaderOf(k) \in Nat /\ Ata!HeaderOf(L + 1) \in Nat
    BY <1>1, <1>2
  <2>2. s \notin Scratch
    BY <1>3, <1>6, <2>1
  <2> QED BY <2>2, SectorIs
<1> QED BY <1>4, <1>5, <1>6

\* The first entry with a name.
LEMMA FirstEntry ==
  ASSUME Ata!DiskBounds, NEW want, NEW k \in 1..Len(Archive), Archive[k].name = want,
         \A i \in 1..k - 1 : Archive[i].name # want
  PROVE  Ata!EntryOf(want) = k /\ want \in Ata!Names
<1> DEFINE S == {i \in DOMAIN Archive : Archive[i].name = want}
<1>1. DOMAIN Archive = 1..Len(Archive) /\ Len(Archive) \in Nat
  BY ArchiveEntries
<1>2. k \in S
  BY <1>1
<1>3. \A i \in S : k <= i
  BY <1>1
<1>4. \A i \in S : i \in Nat
  BY <1>1
<1>5. k \in Nat
  BY <1>1
<1> HIDE DEF S
<1>6. Ata!Min(S) \in S /\ \A y \in S : Ata!Min(S) <= y
  BY <1>2, <1>3 DEF Ata!Min
<1> DEFINE m == Ata!Min(S)
<1>7. m = k
  <2>1. m \in S /\ \A y \in S : m <= y
    BY <1>6
  <2> HIDE DEF m
  <2>2. m \in Nat /\ m <= k /\ k <= m
    BY <1>2, <1>3, <1>4, <2>1
  <2> QED BY <1>5, <2>2
<1>8. want \in Ata!Names
  BY <1>1 DEF Ata!Names
<1> QED BY <1>7, <1>8 DEF Ata!EntryOf, S

\* A byte of a file is in one of its blocks.
LEMMA BlockBelow ==
  ASSUME Ata!DiskBounds, NEW n \in Nat, NEW m \in Nat, n < m
  PROVE  n \div BlockSize \in Nat /\ n \div BlockSize + 1 <= Ata!Blocks(m)
<1> DEFINE b == BlockSize
           q == n \div b
           x == m + b - 1
           p == x \div b
<1>1. b \in Nat \ {0} /\ x \in Nat
  BY Numbers
<1>2. q \in Nat /\ n % b \in 0..b - 1 /\ n = b * q + (n % b)
  BY <1>1, DivMod
<1>3. p \in Nat /\ x % b \in 0..b - 1 /\ x = b * p + (x % b)
  <2> HIDE DEF x
  <2> QED BY <1>1, DivMod
<1> DEFINE r == n % b
           s == x % b
           u == b * q
           v == b * p
<1>4. u \in Int /\ v \in Int /\ b * (q + 1) = u + b
  BY <1>1, <1>2, <1>3
<1>5. n = u + r /\ x = v + s /\ r \in Int /\ s \in Int /\ 0 <= r /\ s <= b - 1
  BY <1>1, <1>2, <1>3
<1>6. x >= n + b
  BY <1>1
<1> HIDE DEF r, s, q, p, x, b
<1>7. v > u
  <2> HIDE DEF u, v
  <2> QED BY <1>1, <1>4, <1>5, <1>6
<1>8. p > q
  <2>1. p <= q => b * p <= b * q
    BY <1>1, <1>2, <1>3
  <2>2. p \in Int /\ q \in Int
    BY <1>2, <1>3
  <2> HIDE DEF u, v
  <2>3. u = b * q /\ v = b * p
    BY DEF u, v
  <2> QED BY <1>4, <1>7, <2>1, <2>2, <2>3
<1>9. q + 1 <= p
  BY <1>2, <1>3, <1>8
<1> QED BY <1>2, <1>9 DEF Ata!Blocks, q, p, x, b


\* A name of the archive has an entry.
LEMMA NamedEntry ==
  ASSUME Ata!DiskBounds, NEW want \in Ata!Names
  PROVE  Ata!EntryOf(want) \in 1..Len(Archive) /\ Archive[Ata!EntryOf(want)].name = want
<1> DEFINE S == {i \in DOMAIN Archive : Archive[i].name = want}
<1>1. DOMAIN Archive = 1..Len(Archive) /\ Len(Archive) \in Nat
  BY ArchiveEntries
<1>2. S \in SUBSET Nat /\ S # {}
  BY <1>1 DEF Ata!Names
<1>3. \A i \in S : i \in 1..Len(Archive) /\ Archive[i].name = want
  BY <1>1
<1> HIDE DEF S
<1>4. PICK n \in S : \A i \in S : n <= i
  BY <1>2, LeastNat
<1>5. Ata!Min(S) \in S
  BY <1>4 DEF Ata!Min
<1> QED BY <1>3, <1>5 DEF Ata!EntryOf, S

\* The walk over the headers stands at one of them and has not met the name so far; a
\* file that was found is the first of its name; what is read of it are its blocks.
WalkAt(j) ==
  /\ walker.block = Ata!HeaderOf(j) /\ walker.index = Ata!HeaderOf(j) /\ job.addr = Ata!HeaderOf(j)
  /\ \A i \in 1..j - 1 : Archive[i].name # walker.want

Walking ==
  job.then = "header" /\ at # "idle" =>
    /\ walker.want # Unknown /\ answer = "none"
    /\ \E j \in 1..Len(Archive) + 1 : WalkAt(j)

FoundFirst ==
  answer = "found" => /\ walker.want \in Ata!Names /\ walker.block = Ata!HeaderOf(Ata!EntryOf(walker.want))
                      /\ walker.size = Archive[Ata!EntryOf(walker.want)].size

Copying ==
  job.then = "content" /\ at \notin {"idle", "more"} =>
    answer = "found" /\ job.addr = Ata!HeaderOf(Ata!EntryOf(walker.want)) + 1 + (walker.done \div BlockSize)

WalkInv ==
  /\ Walking /\ FoundFirst /\ Copying
  /\ answer = "missing" => walker.want \notin Ata!Names
  /\ at = "more" => answer = "found"

\* Steps that leave the reader and its access alone.
LEMMA WalkStill ==
  ASSUME WalkInv, UNCHANGED <<walker, answer>>, job'.then = job.then, job'.addr = job.addr,
         at \in {"idle", "more"} => at' \in {at, "idle"}, at' = "more" => at = "more"
  PROVE  WalkInv'
<1>1. Walking'
  <2>1. \A j : WalkAt(j) => WalkAt(j)'
    BY DEF WalkAt
  <2> QED BY <2>1 DEF WalkInv, Walking
<1>2. FoundFirst' /\ Copying'
  BY DEF WalkInv, FoundFirst, Copying
<1> QED BY <1>1, <1>2 DEF WalkInv

\* What the walk knows of the disk.
LEMMA ArchiveEnds ==
  ASSUME Ata!DiskBounds, Ata!Addressable, Ata!ArchiveFits, DiskInv, at \notin Detecting
  PROVE  /\ found[mounted].size \in Nat /\ Ata!HeaderOf(Len(Archive) + 1) \in Nat
         /\ Ata!HeaderOf(Len(Archive) + 1) <= found[mounted].size /\ found[mounted].size < Wrap
<1>1. mounted \in Ata!Drives /\ kind[mounted] \in Ata!Disks /\ found[mounted].size = Ata!SizeOf(kind[mounted])
  BY DEF DiskInv, MountInv, FoundInv
<1>2. Ata!HeaderOf(Len(Archive) + 1) <= Ata!SizeOf(kind[mounted])
  BY <1>1 DEF Ata!ArchiveFits
<1>3. Ata!HeaderOf(Len(Archive) + 1) \in Nat
  <2>1. Len(Archive) + 1 \in 1..Len(Archive) + 1
    BY ArchiveEntries
  <2> QED BY <2>1, HeadersRise
<1>4. found[mounted].size \in Nat
  BY <1>1, DiskFacts DEF DeviceRecords
<1>5. Ata!SizeOf(kind[mounted]) < Wrap
  <2>1. Wrap \in Nat \ {0} /\ Capacity \in Nat /\ Cylinders \in Nat /\ Heads \in Nat /\ Sectors \in Nat \ {0}
    BY Numbers
  <2>2. \A n \in Nat : n % Wrap < Wrap
    BY <2>1
  <2> DEFINE x == Cylinders * Heads + Heads
             y == x * Sectors
             z == y + Sectors - 1
  <2>3. x \in Nat
    BY <2>1
  <2> HIDE DEF x
  <2>4. y \in Nat
    BY <2>1, <2>3
  <2> HIDE DEF y
  <2>5. z \in Nat
    BY <2>1, <2>4
  <2> HIDE DEF z
  <2>6. z % Wrap < Wrap /\ Capacity % Wrap < Wrap
    BY <2>1, <2>2, <2>5
  <2> QED BY <2>6 DEF Ata!SizeOf, x, y, z
<1> QED BY <1>1, <1>2, <1>3, <1>4, <1>5

\* The header that the walk looks at.
LEMMA WalkHere ==
  ASSUME Ata!DiskBounds, Ata!Addressable, Ata!ArchiveFits, DiskInv, WalkInv, Ata!Examining, ok
  PROVE  /\ walker.want # Unknown /\ answer = "none" /\ at = "return" /\ at \notin Detecting
         /\ \E j \in 1..Len(Archive) + 1 :
              /\ WalkAt(j) /\ Ata!HeaderOf(j) \in Nat
              /\ j = Len(Archive) + 1 => got.name = Unknown
              /\ j # Len(Archive) + 1 =>
                   /\ j \in 1..Len(Archive) /\ got.name = Archive[j].name /\ got.name # Unknown
                   /\ got.size = Archive[j].size /\ got.file = Archive[j].file
                   /\ Ata!NextBlock(walker.block, got.size) = Ata!HeaderOf(j + 1)
<1>1. at = "return" /\ job.then = "header" /\ at \notin Detecting
  BY DEF Ata!Examining, Detecting
<1>2. walker.want # Unknown /\ answer = "none" /\ \E j \in 1..Len(Archive) + 1 : WalkAt(j)
  BY <1>1 DEF WalkInv, Walking
<1>3. PICK j \in 1..Len(Archive) + 1 : WalkAt(j)
  BY <1>2
<1>4. got = Held(stored, mounted, Ata!HeaderOf(j))
  BY <1>3, GotSize DEF WalkAt
<1>5. Len(Archive) \in Nat /\ \A k \in 1..Len(Archive) : Archive[k].name # Unknown /\ Archive[k].size \in Nat
  BY ArchiveEntries
<1>6. Ata!HeaderOf(j) \in Nat
  BY HeadersRise
<1>7. j = Len(Archive) + 1 => got.name = Unknown
  BY <1>4, ArchiveHeld
<1>8. ASSUME j # Len(Archive) + 1
      PROVE  /\ j \in 1..Len(Archive) /\ got.name = Archive[j].name /\ got.name # Unknown
             /\ got.size = Archive[j].size /\ got.file = Archive[j].file
             /\ Ata!NextBlock(walker.block, got.size) = Ata!HeaderOf(j + 1)
  <2>1. j \in 1..Len(Archive) /\ j \in Nat \ {0}
    BY <1>5, <1>8
  <2>2. got.name = Archive[j].name /\ got.size = Archive[j].size /\ got.file = Archive[j].file
    BY <1>4, <2>1, ArchiveHeld
  <2>3. Ata!HeaderOf(j + 1) = Ata!HeaderOf(j) + 1 + Ata!Blocks(Archive[j].size)
    BY <2>1, HeaderNext
  <2>4. Ata!Blocks(Archive[j].size) \in Nat /\ walker.block = Ata!HeaderOf(j)
    BY <1>3, <1>5, <2>1, BlocksOf DEF WalkAt
  <2>5. Ata!NextBlock(walker.block, got.size) = Ata!HeaderOf(j + 1)
    BY <1>6, <2>2, <2>3, <2>4 DEF Ata!NextBlock
  <2> QED BY <1>5, <2>1, <2>2, <2>5
<1> QED BY <1>1, <1>2, <1>3, <1>6, <1>7, <1>8

\* The walk reaches the next header.
LEMMA WalkGoesOn ==
  ASSUME Ata!DiskBounds, Ata!Addressable, Ata!ArchiveFits, DiskInv, WalkInv, Ata!WalksOn
  PROVE  WalkInv'
<1> DEFINE n == Ata!NextBlock(walker.block, got.size)
<1>1. /\ Ata!Examining /\ ok /\ got.name # Unknown /\ got.name # walker.want
      /\ walker' = [walker EXCEPT !.block = n, !.index = n] /\ Ata!GetBlock(n, "header") /\ answer' = answer
  BY DEF Ata!WalksOn
<1>2. PICK j \in 1..Len(Archive) + 1 :
        /\ WalkAt(j) /\ j \in 1..Len(Archive) /\ got.name = Archive[j].name /\ n = Ata!HeaderOf(j + 1)
  BY <1>1, WalkHere
<1>3. walker.want # Unknown /\ answer = "none" /\ at \notin Detecting
  BY <1>1, WalkHere
<1>4. j + 1 \in 1..Len(Archive) + 1 /\ Len(Archive) \in Nat
  BY <1>2, ArchiveEntries
<1> HIDE DEF n
<1>5. n \in Nat /\ n <= Ata!HeaderOf(Len(Archive) + 1)
  <2>1. Len(Archive) + 1 \in 1..Len(Archive) + 1 /\ j + 1 <= Len(Archive) + 1
    BY <1>4
  <2>2. Ata!HeaderOf(j + 1) \in Nat /\ Ata!HeaderOf(Len(Archive) + 1) \in Nat
    BY <1>4, <2>1, HeadersRise
  <2>3. CASE j + 1 = Len(Archive) + 1
    BY <1>2, <2>2, <2>3
  <2>4. CASE j + 1 < Len(Archive) + 1
    <3>1. Ata!HeaderOf(j + 1) + 1 + Ata!Blocks(Archive[j + 1].size) <= Ata!HeaderOf(Len(Archive) + 1)
          /\ Ata!Blocks(Archive[j + 1].size) \in Nat
      BY <1>4, <2>1, <2>4, HeadersRise
    <3> QED BY <1>2, <2>2, <3>1
  <2> QED BY <1>4, <2>1, <2>3, <2>4
<1>6. n % Wrap = n
  <2>1. Wrap \in Nat \ {0} /\ n < Wrap
    <3>1. Ata!HeaderOf(Len(Archive) + 1) \in Nat /\ Ata!HeaderOf(Len(Archive) + 1) <= found[mounted].size
          /\ found[mounted].size < Wrap /\ found[mounted].size \in Nat /\ Wrap \in Nat \ {0}
      BY <1>3, ArchiveEnds, Numbers
    <3> QED BY <1>5, <3>1
  <2> QED BY <1>5, <2>1
<1>7. job'.then = "header" /\ job'.addr = n /\ at' = "select"
  <2>1. job \in Jobs
    BY DEF DiskInv, DiskTypes
  <2>2. Ata!Access(mounted, "read", n, Unknown, "header")
    BY <1>1, <1>6 DEF Ata!GetBlock
  <2> QED BY <2>1, <2>2 DEF Ata!Access, Jobs
<1>8. walker'.block = n /\ walker'.index = n /\ walker'.want = walker.want
  BY <1>1, CallerTypes DEF WalkRecords
<1>9. \A i \in 1..j + 1 - 1 : Archive[i].name # walker.want
  <2>1. \A i \in 1..j - 1 : Archive[i].name # walker.want
    BY <1>2 DEF WalkAt
  <2>2. Archive[j].name # walker.want
    BY <1>1, <1>2
  <2>3. \A i \in 1..j + 1 - 1 : i \in 1..j - 1 \/ i = j
    BY <1>2
  <2> QED BY <2>1, <2>2, <2>3
<1>10. WalkAt(j + 1)'
  BY <1>2, <1>7, <1>8, <1>9 DEF WalkAt
<1>11. Walking' /\ FoundFirst' /\ Copying'
  <2>1. answer' = "none" /\ walker'.want # Unknown
    BY <1>1, <1>3, <1>8
  <2>2. Walking'
    BY <1>4, <1>10, <2>1 DEF Walking
  <2> QED BY <1>7, <2>1, <2>2 DEF FoundFirst, Copying
<1> QED BY <1>1, <1>3, <1>7, <1>11 DEF WalkInv

\* What the walk says at its end.
LEMMA WalkSays ==
  ASSUME Ata!DiskBounds, Ata!Addressable, Ata!ArchiveFits, DiskInv, WalkInv, Ata!Finds \/ Ata!WalkEnds
  PROVE  WalkInv'
<1>1. at' = "idle" /\ job' = job /\ Ata!Examining
  BY DEF Ata!Finds, Ata!WalkEnds, Ata!Ends
<1>2. Walking' /\ Copying'
  BY <1>1 DEF Walking, Copying
<1>3. CASE Ata!Finds
  <2>1. /\ ok /\ got.name = walker.want /\ walker' = [walker EXCEPT !.size = got.size]
        /\ answer' = (IF got.file THEN "found" ELSE "no file")
    BY <1>3 DEF Ata!Finds
  <2>2. PICK j \in 1..Len(Archive) + 1 :
          /\ WalkAt(j) /\ j \in 1..Len(Archive) /\ got.name = Archive[j].name /\ got.size = Archive[j].size
    BY <1>1, <2>1, WalkHere
  <2>3. Ata!EntryOf(walker.want) = j /\ walker.want \in Ata!Names
    BY <2>1, <2>2, FirstEntry DEF WalkAt
  <2>4. walker'.want = walker.want /\ walker'.block = walker.block /\ walker'.size = got.size
    BY <2>1, CallerTypes DEF WalkRecords
  <2>5. FoundFirst'
    BY <2>2, <2>3, <2>4 DEF FoundFirst, WalkAt
  <2> QED BY <1>1, <1>2, <2>1, <2>5 DEF WalkInv
<1>4. CASE Ata!WalkEnds /\ answer' # "missing"
  <2>1. walker' = walker /\ answer' = "failed"
    BY <1>4 DEF Ata!WalkEnds, Ata!Ends
  <2> QED BY <1>1, <1>2, <2>1 DEF WalkInv, FoundFirst
<1>5. CASE Ata!WalkEnds /\ answer' = "missing"
  <2> DEFINE n == Ata!NextBlock(walker.block, got.size)
             L == Len(Archive)
             z == found[mounted].size
  <2>1. /\ ok /\ walker' = walker
        /\ \/ got.name = Unknown
           \/ /\ got.name # Unknown /\ got.name # walker.want
              /\ Ata!PastEnd(walker.index + 1) \/ Ata!PastEnd(n)
    BY <1>5 DEF Ata!WalkEnds, Ata!Ends
  <2>2. at \notin Detecting
    BY <1>1, <2>1, WalkHere
  <2>3. PICK j \in 1..L + 1 :
          /\ WalkAt(j) /\ Ata!HeaderOf(j) \in Nat
          /\ j # L + 1 => j \in 1..L /\ got.name = Archive[j].name /\ got.name # Unknown /\ n = Ata!HeaderOf(j + 1)
    BY <1>1, <2>1, WalkHere
  <2>4. L \in Nat /\ DOMAIN Archive = 1..L
    BY ArchiveEntries
  <2>5. z \in Nat /\ Ata!HeaderOf(L + 1) \in Nat /\ Ata!HeaderOf(L + 1) <= z /\ z < Wrap /\ Wrap \in Nat \ {0}
    BY <2>2, ArchiveEnds, Numbers
  <2>6. ASSUME j # L + 1 PROVE j = L /\ Archive[j].name # walker.want
    <3>1. got.name = Archive[j].name /\ got.name # Unknown /\ n = Ata!HeaderOf(j + 1) /\ j \in 1..L
      BY <2>3, <2>6
    <3>2. Archive[j].name # walker.want /\ (Ata!PastEnd(walker.index + 1) \/ Ata!PastEnd(n))
      BY <2>1, <3>1
    <3>3. ASSUME j # L PROVE FALSE
      <4>1. j + 1 \in 1..L + 1 /\ L + 1 \in 1..L + 1 /\ j < j + 1 /\ j + 1 < L + 1
        <5> HIDE DEF n, L, z
        <5> QED BY <2>4, <3>1, <3>3
      <4>2. Ata!HeaderOf(j + 1) \in Nat
        BY <4>1, HeadersRise
      <4>3. Ata!HeaderOf(j) + 1 + Ata!Blocks(Archive[j].size) <= Ata!HeaderOf(j + 1)
            /\ Ata!Blocks(Archive[j].size) \in Nat
        BY <4>1, HeadersRise
      <4>4. Ata!HeaderOf(j + 1) + 1 + Ata!Blocks(Archive[j + 1].size) <= Ata!HeaderOf(L + 1)
            /\ Ata!Blocks(Archive[j + 1].size) \in Nat
        BY <4>1, HeadersRise
      <4> DEFINE a == Ata!HeaderOf(j) + 1
                 b == Ata!HeaderOf(j + 1)
      <4>5. a \in Nat /\ b \in Nat /\ a < z /\ b < z /\ a < Wrap /\ b < Wrap
        <5> DEFINE x == Ata!HeaderOf(j)
                   y == Ata!HeaderOf(L + 1)
                   u == Ata!Blocks(Archive[j].size)
                   v == Ata!Blocks(Archive[j + 1].size)
        <5>1. x \in Nat /\ x + 1 + u <= b /\ u \in Nat /\ b + 1 + v <= y /\ v \in Nat /\ y \in Nat /\ y <= z
          BY <2>3, <2>5, <4>3, <4>4
        <5>2. a = x + 1 /\ b \in Nat
          BY <4>2
        <5> HIDE DEF a, b, x, y, u, v, n, L, z
        <5> QED BY <2>5, <5>1, <5>2
      <4>6. walker.index + 1 = a /\ n = b
        BY <2>3, <3>1 DEF WalkAt
      <4> HIDE DEF a, b, n, z
      <4>7. a % Wrap = a /\ b % Wrap = b
        BY <2>5, <4>5
      <4>8. a % Wrap >= z \/ b % Wrap >= z
        BY <3>2, <4>6 DEF Ata!PastEnd, z
      <4> QED BY <2>5, <4>5, <4>7, <4>8
    <3> QED BY <3>2, <3>3
  <2>7. \A i \in 1..L : Archive[i].name # walker.want
    <3>1. \A i \in 1..j - 1 : Archive[i].name # walker.want
      BY <2>3 DEF WalkAt
    <3>2. CASE j = L + 1
      BY <2>4, <3>1, <3>2
    <3>3. CASE j # L + 1
      <4>1. j = L /\ Archive[j].name # walker.want
        BY <2>6, <3>3
      <4>2. \A i \in 1..L : i \in 1..j - 1 \/ i = j
        <5> HIDE DEF n, L, z
        <5> QED BY <2>4, <4>1
      <4> QED BY <3>1, <4>1, <4>2
    <3> QED BY <3>2, <3>3
  <2>8. walker.want \notin Ata!Names
    BY <2>4, <2>7 DEF Ata!Names
  <2> QED BY <1>1, <1>2, <1>5, <2>1, <2>8 DEF WalkInv, FoundFirst
<1> QED BY <1>3, <1>4, <1>5

\* The blocks of an open file.
LEMMA BlockOfFile ==
  ASSUME Ata!DiskBounds, Ata!Addressable, Ata!ArchiveFits, DiskInv, WalkInv, at \notin Detecting, answer = "found",
         walker.done < walker.size
  PROVE  LET k == Ata!EntryOf(walker.want)
             n == Ata!HeaderOf(k) + 1 + (walker.done \div BlockSize)
         IN  /\ k \in 1..Len(Archive) /\ walker.block = Ata!HeaderOf(k)
             /\ n \in Nat /\ n >= Ata!HeaderOf(k) /\ n <= Ata!HeaderOf(k) + Ata!Blocks(Archive[k].size)
                /\ n % Wrap = n
<1> DEFINE k == Ata!EntryOf(walker.want)
           q == walker.done \div BlockSize
           L == Len(Archive)
           n == Ata!HeaderOf(k) + 1 + q
<1>1. walker.want \in Ata!Names /\ walker.block = Ata!HeaderOf(k) /\ walker.size = Archive[k].size
  BY DEF WalkInv, FoundFirst
<1>2. k \in 1..L
  BY <1>1, NamedEntry
<1>3. walker.done \in Nat /\ walker.size \in Nat
  BY CallerTypes
<1>4. q \in Nat /\ q + 1 <= Ata!Blocks(Archive[k].size)
  BY <1>1, <1>3, BlockBelow
<1>5. L \in Nat /\ k \in 1..L + 1 /\ L + 1 \in 1..L + 1 /\ k < L + 1
  BY <1>2, ArchiveEntries
<1>6. Ata!HeaderOf(k) \in Nat /\ Ata!HeaderOf(L + 1) \in Nat
  BY <1>5, HeadersRise
<1>7. Ata!HeaderOf(k) + 1 + Ata!Blocks(Archive[k].size) <= Ata!HeaderOf(L + 1)
      /\ Ata!Blocks(Archive[k].size) \in Nat
  BY <1>5, HeadersRise
<1>8. Ata!HeaderOf(L + 1) <= found[mounted].size /\ found[mounted].size < Wrap /\ found[mounted].size \in Nat
      /\ Wrap \in Nat \ {0}
  BY ArchiveEnds, Numbers
<1> HIDE DEF k, q
<1>9. n \in Nat /\ n >= Ata!HeaderOf(k) /\ n <= Ata!HeaderOf(k) + Ata!Blocks(Archive[k].size) /\ n < Wrap
  BY <1>4, <1>6, <1>7, <1>8
<1> HIDE DEF n
<1>10. n % Wrap = n
  BY <1>8, <1>9
<1> QED BY <1>1, <1>2, <1>9, <1>10 DEF k, q, n, L

\* A block of it is asked for.
LEMMA CopyAsked ==
  ASSUME Ata!DiskBounds, Ata!Addressable, Ata!ArchiveFits, DiskInv, WalkInv, at \in {"idle", "more"}, answer = "found",
         answer' = answer, NEW cnt, Ata!MoreToRead(cnt), Ata!CopyBlock(cnt)
  PROVE  WalkInv'
<1> DEFINE k == Ata!EntryOf(walker.want)
           q == walker.done \div BlockSize
           n == Ata!HeaderOf(k) + 1 + q
<1>1. at \notin Detecting /\ walker.done < walker.size
  BY DEF Detecting, Ata!MoreToRead
<1>2. walker.block = Ata!HeaderOf(k) /\ n % Wrap = n
  BY <1>1, BlockOfFile
<1>3. walker' = [walker EXCEPT !.left = cnt] /\ Ata!GetBlock(n, "content")
  BY <1>2 DEF Ata!CopyBlock
<1> HIDE DEF n
<1>4. job'.then = "content" /\ job'.addr = n /\ at' = "select"
  <2>1. job \in Jobs
    BY DEF DiskInv, DiskTypes
  <2>2. Ata!Access(mounted, "read", n, Unknown, "content")
    BY <1>2, <1>3 DEF Ata!GetBlock
  <2> QED BY <2>1, <2>2 DEF Ata!Access, Jobs
<1>5. walker'.want = walker.want /\ walker'.block = walker.block /\ walker'.size = walker.size
      /\ walker'.done = walker.done
  BY <1>3, CallerTypes DEF WalkRecords
<1>6. Walking' /\ FoundFirst'
  BY <1>4, <1>5 DEF Walking, FoundFirst, WalkInv
<1>7. Copying'
  BY <1>4, <1>5 DEF Copying, n
<1> QED BY <1>4, <1>6, <1>7 DEF WalkInv

\* Every step keeps it.
LEMMA WalkSteps ==
  ASSUME Ata!DiskBounds, Ata!Addressable, Ata!ArchiveFits, DiskInv, WalkInv, [Ata!Next]_(Ata!vars)
  PROVE  WalkInv'
<1>1. job \in Jobs
  BY DEF DiskInv, DiskTypes
<1>2. CASE Ata!vars' = Ata!vars \/ Ata!NoDisk
  BY <1>2, WalkStill DEF Ata!vars, Ata!device, Ata!driver, Ata!reader, Ata!NoDisk
<1>3. CASE \E d \in Ata!Drives : Ata!Complete(d) \/ Ata!DriveError(d)
  <2>1. UNCHANGED <<at, job, walker, answer>>
    BY <1>3 DEF Ata!Complete, Ata!DriveError, Ata!driver, Ata!reader
  <2> QED BY <2>1, WalkStill
<1>4. CASE Ata!Start /\ ~Ata!Mount /\ ~Ata!NoDisk /\ ~Ata!Probed
  <2>1. at \notin {"idle", "more"} /\ at' # "more" /\ UNCHANGED <<walker, answer>>
    BY <1>4 DEF Ata!Start, Ata!Detect, Ata!DetectSelect, Ata!Identify, Ata!DetectDisk, Ata!DetectPacket,
                Ata!PacketRead, Ata!DetectAbsent, Ata!DetectGivesUp, Ata!Detected, Ata!reader
  <2>2. job'.then = job.then /\ job'.addr = job.addr
    BY <1>1, <1>4 DEF Ata!Start, Ata!Detect, Ata!DetectSelect, Ata!Identify, Ata!DetectDisk, Ata!DetectPacket,
                      Ata!PacketRead, Ata!DetectAbsent,
                      Ata!DetectGivesUp, Ata!Detected, Jobs
  <2> QED BY <2>1, <2>2, WalkStill
<1>5. CASE Ata!Driver
  <2>1. at \notin {"idle", "more"} /\ at' # "more" /\ UNCHANGED <<walker, answer>>
    BY <1>5 DEF Ata!Driver, Ata!SelectDevice, Ata!Reset, Ata!SelectHead, Ata!SetRegisters, Ata!GiveCommand,
                Ata!ReadData, Ata!ReadFails, Ata!WriteData,
                Ata!Flush, Ata!Flushed, Ata!GivesUp, Ata!Return, Ata!reader
  <2>2. job'.then = job.then /\ job'.addr = job.addr
    BY <1>1, <1>5 DEF Ata!Driver, Ata!SelectDevice, Ata!Reset, Ata!SelectHead, Ata!SetRegisters, Ata!GiveCommand,
                      Ata!ReadData, Ata!ReadFails, Ata!WriteData,
                      Ata!Flush, Ata!Flushed, Ata!GivesUp, Ata!Return, Jobs
  <2> QED BY <2>1, <2>2, WalkStill
<1>6. CASE Ata!Probed \/ Ata!Written
  <2>1. at' = "idle" /\ UNCHANGED <<job, walker, answer>>
    BY <1>6 DEF Ata!Probed, Ata!Written, Ata!reader
  <2> QED BY <2>1, WalkStill
<1>7. CASE Ata!Mount \/ \E s \in Scratch, value \in Values : Ata!Write(s, value)
  <2>1. /\ at' = "select" /\ UNCHANGED <<walker, answer>>
        /\ job'.then \in {"probe", "written"}
    BY <1>1, <1>7 DEF Ata!Mount, Ata!Write, Ata!Access, Ata!reader, Jobs
  <2>2. Walking' /\ Copying' /\ FoundFirst'
    BY <2>1 DEF Walking, Copying, FoundFirst, WalkInv
  <2> QED BY <2>1, <2>2 DEF WalkInv
<1>8. CASE \E name \in Ata!Names \cup {Inner} : Ata!Find(name)
  <2>1. PICK name \in Ata!Names \cup {Inner} : Ata!Find(name)
    BY <1>8
  <2>2. walker' = [Ata!NoFile EXCEPT !.want = name] /\ answer' = "none" /\ Ata!GetBlock(0, "header")
    BY <2>1 DEF Ata!Find
  <2>3. name # Unknown
    <3>1. Inner # Unknown /\ \A i \in DOMAIN Archive : Archive[i].name # Unknown
      BY DEF Ata!DiskBounds
    <3> QED BY <2>1, <3>1 DEF Ata!Names
  <2>4. walker'.want = name /\ walker'.block = 0 /\ walker'.index = 0
    BY <2>2 DEF Ata!NoFile
  <2>5. 0 % Wrap = 0
    BY Numbers
  <2>6. job'.then = "header" /\ job'.addr = 0 /\ at' = "select"
    <3>1. Ata!Access(mounted, "read", 0, Unknown, "header")
      BY <2>2, <2>5 DEF Ata!GetBlock
    <3> QED BY <1>1, <3>1 DEF Ata!Access, Jobs
  <2>7. WalkAt(1)' /\ 1 \in 1..Len(Archive) + 1
    <3>1. Ata!HeaderOf(1) = 0 /\ Len(Archive) \in Nat
      BY HeaderNext, ArchiveEntries
    <3> QED BY <2>4, <2>6, <3>1 DEF WalkAt
  <2>8. Walking'
    BY <2>2, <2>3, <2>4, <2>7 DEF Walking
  <2>9. FoundFirst' /\ Copying'
    BY <2>2, <2>6 DEF FoundFirst, Copying
  <2> QED BY <2>2, <2>6, <2>8, <2>9 DEF WalkInv
<1>9. CASE Ata!Finds \/ Ata!WalkEnds \/ Ata!WalksOn
  BY <1>9, WalkSays, WalkGoesOn
<1>10. CASE \E cnt \in Counts : Ata!ReadFile(cnt)
  <2>1. PICK cnt \in Counts : Ata!ReadFile(cnt)
    BY <1>10
  <2> QED BY <2>1, CopyAsked DEF Ata!ReadFile
<1>11. CASE Ata!ReadsOn
  <2>1. answer = "found"
    BY <1>11 DEF Ata!ReadsOn, WalkInv
  <2> QED BY <1>11, <2>1, CopyAsked DEF Ata!ReadsOn
<1>12. CASE Ata!ContentRead \/ Ata!ReadEnds
  <2>1. /\ answer' = answer /\ job' = job /\ at' \in {"more", "idle"}
        /\ at' = "more" => at = "return" /\ job.then = "content"
    BY <1>12 DEF Ata!ContentRead, Ata!ReadEnds
  <2>2. walker'.want = walker.want /\ walker'.block = walker.block /\ walker'.size = walker.size
    BY <1>12, CallerTypes DEF Ata!ContentRead, Ata!ReadEnds, WalkRecords
  <2>3. at' = "more" => answer' = "found" /\ job'.then = "content"
    BY <2>1 DEF WalkInv, Copying
  <2>4. Walking' /\ Copying'
    BY <2>1, <2>3 DEF Walking, Copying
  <2>5. FoundFirst'
    BY <2>1, <2>2 DEF FoundFirst, WalkInv
  <2> QED BY <2>1, <2>2, <2>3, <2>4, <2>5 DEF WalkInv
<1> QED BY <1>2, <1>3, <1>4, <1>5, <1>6, <1>7, <1>8, <1>9, <1>10, <1>11, <1>12 DEF Ata!Next, Ata!Start,
                        Ata!Ustar, Ata!Writer

\* The invariants say what the run checks.
LEMMA WalkReady ==
  ASSUME Ata!DiskBounds, Ata!Addressable, Ata!ArchiveFits, DiskInv, WalkInv
  PROVE  Ata!ArchiveFaithful
<1> DEFINE k == Ata!EntryOf(walker.want)
           n == Ata!HeaderOf(k) + 1 + (walker.done \div BlockSize)
<1>1. answer = "found" => walker.want \in Ata!Names /\ walker.block = Ata!HeaderOf(k)
      /\ walker.size = Archive[k].size
  BY DEF WalkInv, FoundFirst
<1>2. Ata!Examining /\ ok => \E j \in DOMAIN Archive \cup {Len(Archive) + 1} : job.addr = Ata!HeaderOf(j)
  <2> SUFFICES ASSUME Ata!Examining, ok
               PROVE  \E j \in DOMAIN Archive \cup {Len(Archive) + 1} : job.addr = Ata!HeaderOf(j)
    OBVIOUS
  <2>1. PICK j \in 1..Len(Archive) + 1 : WalkAt(j)
    BY WalkHere
  <2>2. j \in DOMAIN Archive \cup {Len(Archive) + 1}
    BY ArchiveEntries
  <2> QED BY <2>1, <2>2 DEF WalkAt
<1>3. answer = "missing" => walker.want \notin Ata!Names
  BY DEF WalkInv
<1>4. ASSUME at = "return", job.then = "content", ok PROVE got.from = <<mounted, n>>
  <2>1. answer = "found" /\ job.addr = n /\ walker.done < walker.size /\ at \notin Detecting
    BY <1>4 DEF WalkInv, Copying, DiskInv, CopyInv, Detecting
  <2>2. job.op = "read"
    BY <1>4 DEF DiskInv, DiskTypes, Jobs, JobInv
  <2>3. got = Held(stored, mounted, n)
    BY <1>4, <2>1, <2>2 DEF DiskInv, ReadInv
  <2>4. k \in 1..Len(Archive) /\ n \in Nat /\ n >= Ata!HeaderOf(k)
        /\ n <= Ata!HeaderOf(k) + Ata!Blocks(Archive[k].size)
    BY <2>1, BlockOfFile
  <2> HIDE DEF n, k
  <2> QED BY <2>3, <2>4, ArchiveHeld
<1> QED BY <1>1, <1>2, <1>3, <1>4 DEF Ata!ArchiveFaithful

\* Ustar::findFile() finds the first header of the name and never data that look like one, misses
\* no file unless a read failed, and read() copies the file's own blocks.
THEOREM ArchiveIsFaithful ==
  ASSUME Ata!Addressable, Ata!Prompt, Ata!ArchiveFits PROVE StoreSpec => []ArchiveFaithful
<1>1. Ata!Init => DiskInv /\ WalkInv
  <2> SUFFICES ASSUME Ata!Init PROVE DiskInv /\ WalkInv
    OBVIOUS
  <2>1. job.then = "none" /\ answer = "none" /\ at = "detect"
    BY DEF Ata!Init
  <2> QED BY FilesOnDiskAssumption, <2>1, DiskInits DEF WalkInv, Walking, FoundFirst, Copying
<1>2. DiskInv /\ WalkInv /\ [Ata!Next]_(Ata!vars) => DiskInv' /\ WalkInv'
  BY FilesOnDiskAssumption, DiskSteps, WalkSteps
<1>3. DiskInv /\ WalkInv => ArchiveFaithful
  BY FilesOnDiskAssumption, WalkReady DEF ArchiveFaithful
<1> QED BY <1>1, <1>2, <1>3, StoreHasParts, PTL DEF Ata!Spec
================================================================================
