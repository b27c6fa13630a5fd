---------------------------- MODULE ClothesFSProofs ----------------------------
(***************************************************************************)
(* Proofs about modules ClothesFS and ClothesRead, for a volume and names   *)
(* of any size.                                                             *)
(*                                                                          *)
(*   VolumeStaysSound      no block is free and named, or named twice       *)
(*   AddedStays            what a call has added is never lost or changed   *)
(*   ReadingWritesNothing  reading leaves the volume alone                  *)
(*   ReadsAreOwn           read() returns the file's own contents           *)
(*   AddedIsFound          findFile() finds what was added                  *)
(*                                                                          *)
(* The first two follow from VolumeInv.  The free chain is always all the   *)
(* blocks from the header's one on, since blocks are formatted in order and *)
(* only ever taken from its front; that turns a walk along the chain into a *)
(* comparison of numbers.  Names of a predicate of a disk d and a chain h   *)
(* are about any disk, so that lemmas on a block that is written can speak  *)
(* of the disk before and after.                                            *)
(***************************************************************************)
EXTENDS ClothesRead, WellFoundedInduction, TLAPS

-----------------------------------------------------------------------------
(* A disk, apart from the variables                                          *)

BlockTypes == [kind: Kinds, word: [Words -> Nat], next: Blocks, text: Nat \X Nat]
Disks == [Blocks -> BlockTypes]

\* Where the entries of a block begin.
From(d, b) == IF d[b].kind \in Named THEN 4 + Rounded(d[b].word[3]) ELSE 1

\* Place i of block b names block c.
Points(d, b, i, c) ==
  /\ b \in 1..N /\ c # 0 /\ d[b].kind \in Meta
  /\ \/ i \in Words /\ i >= From(d, b) /\ d[b].word[i] = c
     \/ i = Last /\ d[b].next = c

\* The free chain that begins with block h is all the blocks from there on.
InChain(h, c) == h # 0 /\ c \in h..N

FreeBlock(b) == [Blank EXCEPT !.kind = "free", !.next = (b + 1) % (N + 1)]

ChainOk(d, h) == h \in {0} \cup 2..N /\ \A c \in Blocks : InChain(h, c) => d[c] = FreeBlock(c)

\* No block is free and named, or named twice.
Exclusive(d, h) ==
  /\ \A b \in Blocks, i \in 1..Last, c \in Blocks : Points(d, b, i, c) => c \in 2..N /\ ~InChain(h, c)
  /\ \A b1, b2 \in Blocks, i1, i2 \in 1..Last, c \in Blocks :
       Points(d, b1, i1, c) /\ Points(d, b2, i2, c) => b1 = b2 /\ i1 = i2
  /\ \A b \in Blocks, i \in Words : d[b].kind \in Meta /\ i >= From(d, b) => d[b].word[i] \in Blocks

\* A block that is taken and not yet entered.
Unnamed(d, h, c) ==
  /\ c \in 2..N /\ ~InChain(h, c) /\ d[c].kind = "free" /\ d[c].text = NoText
  /\ \A b \in Blocks, i \in 1..Last : ~Points(d, b, i, c)

\* A file or directory with its name: addToMeta() looks for a place behind it.
WellNamed(d, b) ==
  /\ d[b].kind \in Named /\ d[b].word[3] \in 1..4 * (Last - 5)
  /\ \A i \in 4..3 + Rounded(d[b].word[3]) : d[b].word[i] # 0

\* The payload block of the c-th part of a file.
HasChunk(d, b, c) ==
  /\ From(d, b) + c < Last
  /\ LET p == d[b].word[From(d, b) + c]
     IN p \in 2..N /\ d[p].kind \in {"payload", "raw"} /\ d[p].text = <<b, c>>

\* What holds of the disk and the free chain between any two writes once it is formatted.
Good(d, h) ==
  /\ ChainOk(d, h) /\ Exclusive(d, h)
  /\ d[0].kind = "blank" /\ d[1].kind = "dir" /\ WellNamed(d, 1)

-----------------------------------------------------------------------------
(* The invariant                                                             *)

Formatting == stage \in {"format", "root", "slash"}

Busy == ~Formatting /\ stage # "idle"

Entering == stage \in {"enter", "continue", "more"}

Writing == stage \in {"payload", "contents"}

\* The file has its name and its payload blocks are entered.
Filing == stage \in {"data", "payload", "contents"} \/ (Entering /\ job.meta # job.block)

JobType ==
  job \in [what: Named \cup {"none"}, parent: Blocks, namelen: Nat, left: Nat, block: Blocks,
           at: Blocks, meta: Blocks, cont: Blocks, plain: BOOLEAN]

\* Until the root has its name, format() runs, and begins again if it was cut short.
FormatOk ==
  Formatting =>
    /\ added = {} /\ job.what = "none"
    /\ \A b \in Blocks : b # 1 => disk[b].kind \in {"blank", "free"}
    /\ stage = "format" =>
         /\ job.at \in 1..N
         /\ \/ /\ job.meta = (job.at + 1) % (N + 1)
               /\ \A b \in job.at + 1..N : disk[b] = FreeBlock(b)
            \/ job.at = 1 /\ job.meta = 0 /\ broken
    /\ stage # "format" =>
         ChainOk(disk, freechain) /\ freechain \in {0, 2} /\ (~broken => freechain = 2)
    /\ stage = "slash" => disk[1] = [Blank EXCEPT !.kind = "dir"]

\* The header is no file.
ZeroOk == disk[0].kind = "blank"

\* After that the disk is good.
Ready == ~Formatting => Good(disk, freechain)

\* Only a block that another one goes on in is of a continued kind.
LinksOk ==
  ~Formatting =>
    /\ \A b, c \in Blocks : Points(disk, b, Last, c) => disk[c].kind \notin Named
    /\ \A c \in Blocks : disk[c].kind \in Cont => \E b \in Blocks : Points(disk, b, Last, c)

\* What a call works on.
JobOk ==
  Busy =>
    /\ stage \notin {"remove", "removed"}
    /\ job.what \in Named /\ job.namelen \in NameLens
    /\ (job.what = "dir" => job.left = 0) /\ (job.what = "file" => job.left > 0)
    /\ job.block \in 2..N /\ ~InChain(freechain, job.block)
    /\ job.meta \in 2..N /\ ~InChain(freechain, job.meta)
    /\ Filing => job.what = "file" /\ disk[job.block].kind = "file" /\ WellNamed(disk, job.block)
    /\ stage \in {"init", "name"} => job.meta = job.block
    /\ Writing => job.meta # job.block
    /\ Entering => Unnamed(disk, freechain, job.meta)
    /\ stage \in {"continue", "more"} =>
         /\ job.cont \in 2..N /\ job.cont # job.meta /\ ~InChain(freechain, job.cont) /\ ~job.plain
         /\ disk[job.cont].kind = "free"
         /\ ValidType(job.at, Into)
    /\ stage = "continue" => disk[job.at].next = 0 /\ Unnamed(disk, freechain, job.cont)
    /\ stage = "more" => disk[job.at].next = job.cont
    /\ stage = "init" => disk[job.block].kind = "free" /\ \A b \in Blocks : ~Points(disk, b, Last, job.block)
    /\ stage = "name" => disk[job.block] = [Blank EXCEPT !.kind = job.what]
    /\ stage = "payload" => disk[job.meta].kind = "free"
    /\ stage = "contents" => disk[job.meta].kind \in {"free", "payload"}
    /\ Writing => disk[job.meta].text = NoText

\* Payload blocks that the file has got so far, and the first place for them.
Finished == disk[job.block].word[1] - job.left
First == From(disk, job.block)

\* The first payload block is entered in the file's own block.
FilingOk ==
  Filing =>
    /\ Finished >= 0
    /\ Finished > 0 \/ Writing => disk[job.block].word[First] # 0
    /\ Entering => job.at = job.block \/ \E b \in Blocks : Points(disk, b, Last, job.at)
    /\ ~Writing /\ Finished = 0 =>
         /\ stage \in {"data", "enter"} /\ disk[job.block].word[First] = 0
         /\ stage = "enter" => job.at = job.block
    /\ Writing =>
         /\ disk[job.block].word[First] = job.meta <=> Finished = 0
         /\ \E b \in Blocks, i \in Words : Points(disk, b, i, job.meta)
                                           /\ (b = job.block \/ disk[b].kind = "filecont")

\* The first payload block of a file belongs to it.
FilesOk ==
  ~Formatting =>
    \A b \in Blocks :
      disk[b].kind = "file" =>
        IF WellNamed(disk, b)
        THEN LET p == disk[b].word[From(disk, b)]
             IN  p # 0 => p \in 2..N /\ disk[p].text \in {NoText, <<b, 0>>}
        ELSE disk[b].word = Zero

\* What a block is about to be.
Future(c) ==
  IF stage = "init" /\ c = job.block THEN job.what
  ELSE IF stage = "more" /\ c = job.cont THEN (IF Into = "file" THEN "filecont" ELSE "dircont")
  ELSE IF stage = "payload" /\ c = job.meta THEN "payload"
  ELSE disk[c].kind

\* What a block of a kind names at a place.
Expected(kind, i) ==
  IF kind \in {"dir", "dircont"} THEN (IF i = Last THEN {"dircont"} ELSE Named)
  ELSE (IF i = Last THEN {"filecont"} ELSE {"payload"})

\* Blocks that the call has taken and not entered yet.
Pending == (IF Entering THEN {job.meta} ELSE {}) \cup (IF stage = "continue" THEN {job.cont} ELSE {})

\* As long as no call failed, no block is lost and every block is what it is named for.
Described ==
  ~broken /\ ~Formatting =>
    /\ \A c \in 2..N : \/ InChain(freechain, c) \/ c \in Pending
                       \/ \E b \in Blocks, i \in 1..Last : Points(disk, b, i, c)
    /\ \A b \in Blocks, i \in 1..Last, c \in Blocks :
         Points(disk, b, i, c) => Future(c) \in Expected(disk[b].kind, i)
    /\ \A b \in Blocks : disk[b].kind \in Named => WellNamed(disk, b) \/ (stage = "name" /\ b = job.block)
    /\ stage = "contents" => disk[job.meta].kind = "payload"

\* Block b is an entry of directory p.
Listed(d, p, b) == \E i \in Words : Points(d, p, i, b)

\* What was added is on the disk.
Stored(d, h, g) ==
  /\ g.what \in Named /\ g.block \in 2..N /\ ~InChain(h, g.block)
  /\ d[g.block].kind = g.what /\ WellNamed(d, g.block)
  /\ g.parent \in Blocks /\ d[g.parent].kind \in Named
  /\ g.chunks \in Nat
  /\ g.what = "file" => \A c \in 0..g.chunks - 1 : HasChunk(d, g.block, c)

\* A call that runs has nothing to do with what earlier ones have added.
AddedOk ==
  \A g \in added :
    /\ Stored(disk, freechain, g)
    /\ Busy => g.block # job.block /\ g.parent # job.block
    /\ Complete(g.parent) => Listed(disk, g.parent, g.block)

\* How far a call is that has needed no block to go on in.
PlainOk ==
  Busy /\ job.plain =>
    /\ job.parent \in Blocks /\ disk[job.parent].kind \in Named /\ job.parent # job.block
    /\ stage = "enter" => job.at = (IF job.meta = job.block THEN job.parent ELSE job.block)
    /\ (stage \in {"init", "name"} \/ Filing) /\ Complete(job.parent) => Listed(disk, job.parent, job.block)
    /\ Filing =>
         /\ \A c \in 0..Finished - 1 : HasChunk(disk, job.block, c)
         /\ ~Writing => \A i \in Words : i >= First + Finished => disk[job.block].word[i] = 0
         /\ Writing => /\ First + Finished < Last /\ disk[job.block].word[First + Finished] = job.meta
                       /\ \A i \in Words : i > First + Finished => disk[job.block].word[i] = 0

\* The inductive invariant.
VolumeInv ==
  /\ TypeOK /\ JobType /\ FormatOk /\ ZeroOk /\ Ready /\ LinksOk /\ JobOk /\ FilingOk /\ FilesOk /\ Described
  /\ AddedOk /\ PlainOk

-----------------------------------------------------------------------------
(* Numbers                                                                   *)

\* A set of natural numbers has a least one: the induction principle of these proofs.
LEMMA LeastNat ==
  ASSUME NEW T \in SUBSET Nat, T # {}
  PROVE  \E n \in T : \A m \in T : n <= m
<1> DEFINE R == OpToRel(<, Nat)
<1>1. IsWellFoundedOn(R, Nat)
  BY NatLessThanWellFounded
<1> HIDE DEF R
<1>2. PICK n \in T : \A m \in T : ~(<<m, n>> \in R)
  BY <1>1, WFMin
<1>3. \A m \in T : <<m, n>> \in R <=> m < n
  BY DEF R, OpToRel
<1>4. n \in Nat /\ \A m \in T : m \in Nat
  OBVIOUS
<1>5. ASSUME NEW m \in T PROVE n <= m
  <2>1. ~(m < n)
    BY <1>2, <1>3
  <2> QED BY <1>4, <2>1
<1> QED BY <1>5

\* The constants and the numbers of blocks and words.
LEMMA Sizes ==
  /\ N \in Nat /\ N >= 2 /\ Last \in Nat /\ Last >= 6 /\ Blocks = 0..N /\ Words = 1..Last - 1
  /\ NameLens \subseteq 1..4 * (Last - 5) /\ Chunks \subseteq Nat \ {0} /\ MaxFaults \in Nat
  /\ NameWord \in Nat /\ NameWord # 0 /\ Last \notin Words /\ 3 \in Words /\ 1 \in Words /\ 4 \in Words
BY ClothesAssumption DEF Blocks, Words, NameWord

\* Words that a name takes.
LEMMA Roundings ==
  /\ \A n \in Nat : Rounded(n) \in Nat
  /\ \A n \in 1..4 * (Last - 5) : Rounded(n) \in 1..Last - 5
  /\ Rounded(0) = 0
<1>1. \A n \in Nat : (n + 3) \div 4 \in Nat
  OBVIOUS
<1>2. \A n \in 1..4 * (Last - 5) : (n + 3) \div 4 \in 1..Last - 5
  BY Sizes
<1>3. (0 + 3) \div 4 = 0
  OBVIOUS
<1> QED BY <1>1, <1>2, <1>3 DEF Rounded

\* The block after the last one is block 0, which ends the chain.
LEMMA Following ==
  ASSUME NEW b \in Blocks
  PROVE  (b + 1) % (N + 1) = IF b = N THEN 0 ELSE b + 1
<1>1. b \in 0..N /\ N \in Nat
  BY Sizes
<1>2. CASE b = N
  <2>1. (N + 1) % (N + 1) = 0
    BY <1>1
  <2> QED BY <1>2, <2>1
<1>3. CASE b # N
  <2>1. (b + 1) \in 0..N
    BY <1>1, <1>3
  <2>2. \A c \in 0..N : c % (N + 1) = c
    BY <1>1
  <2> QED BY <1>3, <2>1, <2>2
<1> QED BY <1>2, <1>3

-----------------------------------------------------------------------------
(* The free chain                                                            *)

\* at is what Chain describes.
IsWalk(d, h, at) ==
  at = [k \in 0..N + 1 |-> IF k = 0 THEN h ELSE IF at[k - 1] = 0 THEN 0 ELSE d[at[k - 1]].next]

\* The walk that Chain describes goes from block to block up to the last one.
LEMMA ChainWalk ==
  ASSUME NEW d \in Disks, NEW h, ChainOk(d, h), NEW at, IsWalk(d, h, at)
  PROVE  \A k \in 0..N + 1 : at[k] = IF h # 0 /\ h + k <= N THEN h + k ELSE 0
<1> DEFINE Here(k) == IF h # 0 /\ h + k <= N THEN h + k ELSE 0
           Wrong == {k \in 0..N + 1 : at[k] # Here(k)}
<1>0. at = [k \in 0..N + 1 |-> IF k = 0 THEN h ELSE IF at[k - 1] = 0 THEN 0 ELSE d[at[k - 1]].next]
  BY DEF IsWalk
<1>1. N \in Nat /\ h \in Nat /\ h <= N /\ Blocks = 0..N
  BY Sizes DEF ChainOk
<1>2. SUFFICES ASSUME Wrong # {} PROVE FALSE
  OBVIOUS
<1>3. PICK k \in Wrong : \A m \in Wrong : k <= m
  <2>1. Wrong \in SUBSET Nat
    BY <1>1
  <2> HIDE DEF Wrong
  <2> QED BY <1>2, <2>1, LeastNat
<1>4. k \in 0..N + 1 /\ at[k] # Here(k)
  OBVIOUS
<1>5. CASE k = 0
  <2>1. at[k] = h
    BY <1>0, <1>4, <1>5
  <2> QED BY <1>1, <1>4, <1>5, <2>1
<1>6. CASE k # 0
  <2>1. k - 1 \in 0..N + 1 /\ k \in Nat
    BY <1>1, <1>4, <1>6
  <2>2. at[k - 1] = Here(k - 1)
    <3>1. k - 1 \notin Wrong
      <4>1. ~(k <= k - 1)
        BY <1>1, <1>4
      <4> HIDE DEF Wrong
      <4> QED BY <1>3, <4>1
    <3> QED BY <2>1, <3>1
  <2>3. at[k] = IF at[k - 1] = 0 THEN 0 ELSE d[at[k - 1]].next
    BY <1>0, <1>4, <1>6
  <2>4. CASE at[k - 1] = 0
    <3>1. ~(h # 0 /\ h + k <= N)
      BY <1>1, <2>1, <2>2, <2>4
    <3> QED BY <1>4, <2>3, <2>4, <3>1
  <2>5. CASE at[k - 1] # 0
    <3> DEFINE c == h + (k - 1)
    <3>1. h # 0 /\ c <= N /\ at[k - 1] = c
      BY <2>2, <2>5
    <3>2. c \in Blocks /\ InChain(h, c)
      BY <1>1, <2>1, <3>1 DEF InChain
    <3>3. d[c].next = (c + 1) % (N + 1)
      BY <3>2 DEF ChainOk, FreeBlock, Blank
    <3>4. d[c].next = IF c = N THEN 0 ELSE c + 1
      BY <3>2, <3>3, Following
    <3>5. at[k] = IF c = N THEN 0 ELSE c + 1
      BY <2>3, <2>5, <3>1, <3>4
    <3> QED BY <1>1, <1>4, <2>1, <3>1, <3>5
  <2> QED BY <2>4, <2>5
<1> QED BY <1>5, <1>6

\* There is such a walk.
LEMMA ChainExists ==
  ASSUME NEW d \in Disks, NEW h, ChainOk(d, h)
  PROVE  \E at : IsWalk(d, h, at)
<1> DEFINE g == [k \in 0..N + 1 |-> IF h # 0 /\ h + k <= N THEN h + k ELSE 0]
           Goes(k) == IF k = 0 THEN h ELSE IF g[k - 1] = 0 THEN 0 ELSE d[g[k - 1]].next
<1>1. N \in Nat /\ h \in Nat /\ h <= N /\ Blocks = 0..N
  BY Sizes DEF ChainOk
<1>2. ASSUME NEW k \in 0..N + 1 PROVE g[k] = Goes(k)
  <2>1. CASE k = 0
    BY <1>1, <2>1
  <2>2. CASE k # 0
    <3>1. k - 1 \in 0..N + 1 /\ k \in Nat
      BY <1>1, <2>2
    <3>2. g[k - 1] = IF h # 0 /\ h + (k - 1) <= N THEN h + (k - 1) ELSE 0
      BY <3>1
    <3>3. g[k] = IF h # 0 /\ h + k <= N THEN h + k ELSE 0
      OBVIOUS
    <3>4. CASE h # 0 /\ h + (k - 1) <= N
      <4> DEFINE c == h + (k - 1)
      <4>1. c \in Blocks /\ InChain(h, c) /\ c # 0 /\ g[k - 1] = c
        BY <1>1, <3>1, <3>2, <3>4 DEF InChain
      <4>2. d[c].next = (c + 1) % (N + 1)
        BY <4>1 DEF ChainOk, FreeBlock, Blank
      <4>3. d[c].next = IF c = N THEN 0 ELSE c + 1
        BY <4>1, <4>2, Following
      <4>4. Goes(k) = IF c = N THEN 0 ELSE c + 1
        BY <2>2, <4>1, <4>3
      <4> HIDE DEF g, Goes
      <4> QED BY <1>1, <3>1, <3>3, <3>4, <4>4
    <3>5. CASE ~(h # 0 /\ h + (k - 1) <= N)
      <4>1. Goes(k) = 0
        BY <2>2, <3>2, <3>5
      <4> HIDE DEF g, Goes
      <4> QED BY <1>1, <3>1, <3>3, <3>5, <4>1
    <3> QED BY <3>4, <3>5
  <2> QED BY <2>1, <2>2
<1>3. g = [k \in 0..N + 1 |-> Goes(k)]
  <2>1. \A k \in 0..N + 1 : g[k] = Goes(k)
    BY <1>2
  <2>2. g = [k \in 0..N + 1 |-> g[k]]
    OBVIOUS
  <2> HIDE DEF g, Goes
  <2> QED BY <2>1, <2>2
<1> HIDE DEF g
<1>4. IsWalk(d, h, g)
  BY <1>3 DEF IsWalk
<1> QED BY <1>4

\* So the blocks of the chain are those from freechain on.
LEMMA ChainIs ==
  ASSUME disk \in Disks, ChainOk(disk, freechain)
  PROVE  Chain[N + 1] = 0 /\ FreeBlocks = {c \in Blocks : InChain(freechain, c)}
<1>1. PICK h : h = freechain
  OBVIOUS
<1>2. PICK d : d = disk
  OBVIOUS
<1>3. Chain = CHOOSE at : IsWalk(d, h, at)
  BY <1>1, <1>2 DEF Chain, IsWalk
<1>4. d \in Disks /\ ChainOk(d, h)
  BY <1>1, <1>2
<1>5. IsWalk(d, h, Chain)
  BY <1>3, <1>4, ChainExists
<1>6. PICK ch : ch = Chain
  OBVIOUS
<1>7. IsWalk(d, h, ch)
  BY <1>5, <1>6
<1>8. \A k \in 0..N + 1 : ch[k] = IF h # 0 /\ h + k <= N THEN h + k ELSE 0
  BY <1>4, <1>7, ChainWalk
<1>9. DOMAIN ch = 0..N + 1
  BY <1>7 DEF IsWalk
<1>10. N \in Nat /\ h \in Nat /\ h <= N /\ Blocks = 0..N
  BY <1>1, Sizes DEF ChainOk
<1>11. ch[N + 1] = 0
  BY <1>8, <1>10
<1>12. FreeBlocks = {ch[k] : k \in 0..N + 1} \ {0}
  BY <1>6, <1>9 DEF FreeBlocks
<1>13. ASSUME NEW c PROVE c \in FreeBlocks <=> c \in Blocks /\ InChain(h, c)
  <2>1. ASSUME c \in FreeBlocks PROVE c \in Blocks /\ InChain(h, c)
    <3>1. PICK k \in 0..N + 1 : c = ch[k] /\ c # 0
      BY <1>12, <2>1
    <3>2. h # 0 /\ h + k <= N /\ c = h + k
      BY <1>8, <3>1
    <3> QED BY <1>10, <3>1, <3>2 DEF InChain
  <2>2. ASSUME c \in Blocks, InChain(h, c) PROVE c \in FreeBlocks
    <3>1. c - h \in 0..N + 1 /\ h # 0 /\ h + (c - h) = c /\ c <= N /\ c # 0
      BY <1>10, <2>2 DEF InChain
    <3>2. ch[c - h] = c
      BY <1>8, <3>1
    <3> QED BY <1>12, <3>1, <3>2
  <2> QED BY <2>1, <2>2
<1> QED BY <1>1, <1>6, <1>11, <1>13

\* The first block of the chain can be taken: the rest is the chain from the next block on.
LEMMA TakenFirst ==
  ASSUME NEW d \in Disks, NEW h, Good(d, h), h # 0
  PROVE  /\ h \in 2..N /\ d[h] = FreeBlock(h) /\ d[h].next \in {0} \cup 2..N
         /\ \A c \in Blocks : InChain(d[h].next, c) <=> InChain(h, c) /\ c # h
         /\ Good(d, d[h].next) /\ Unnamed(d, d[h].next, h)
<1>1. N \in Nat /\ Blocks = 0..N /\ h \in 2..N
  BY Sizes DEF Good, ChainOk
<1>2. h \in Blocks /\ InChain(h, h)
  BY <1>1 DEF InChain
<1>3. d[h] = FreeBlock(h)
  BY <1>2 DEF Good, ChainOk
<1>4. d[h].next = (h + 1) % (N + 1) /\ d[h].kind = "free" /\ d[h].text = NoText
  BY <1>3 DEF FreeBlock, Blank
<1>5. d[h].next = IF h = N THEN 0 ELSE h + 1
  BY <1>2, <1>4, Following
<1>6. d[h].next \in {0} \cup 2..N
  BY <1>1, <1>5
<1>7. PICK n : n = d[h].next
  OBVIOUS
<1>8. \A c \in Blocks : InChain(n, c) <=> InChain(h, c) /\ c # h
  BY <1>1, <1>5, <1>7 DEF InChain
<1>9. ChainOk(d, n)
  BY <1>6, <1>7, <1>8 DEF Good, ChainOk
<1>10. ASSUME NEW b \in Blocks, NEW i \in 1..Last, NEW c \in Blocks, Points(d, b, i, c)
      PROVE  c \in 2..N /\ ~InChain(h, c) /\ ~InChain(n, c)
  BY <1>8, <1>10 DEF Good, Exclusive
<1>11. Exclusive(d, n)
  BY <1>10 DEF Good, Exclusive
<1>12. Good(d, n)
  BY <1>9, <1>11 DEF Good
<1>13. Unnamed(d, n, h)
  BY <1>1, <1>2, <1>4, <1>8, <1>10 DEF Unnamed
<1> QED BY <1>1, <1>3, <1>6, <1>7, <1>8, <1>12, <1>13

-----------------------------------------------------------------------------
(* Writing a block                                                           *)

\* What a block of a disk is made of.
LEMMA DiskTypes ==
  ASSUME NEW d \in Disks, NEW b \in Blocks
  PROVE  /\ d[b] \in BlockTypes /\ d[b].kind \in Kinds /\ d[b].word \in [Words -> Nat]
         /\ d[b].next \in Blocks /\ d[b].text \in Nat \X Nat
         /\ From(d, b) \in Nat /\ From(d, b) >= 1
         /\ d[b].kind \in Named => From(d, b) = 4 + Rounded(d[b].word[3])
         /\ d[b].kind \notin Named => From(d, b) = 1
<1>1. d[b] \in BlockTypes
  BY DEF Disks
<1>2. d[b].kind \in Kinds /\ d[b].word \in [Words -> Nat] /\ d[b].next \in Blocks /\ d[b].text \in Nat \X Nat
  BY <1>1 DEF BlockTypes
<1>3. Rounded(d[b].word[3]) \in Nat
  BY <1>2, Sizes, Roundings
<1> QED BY <1>1, <1>2, <1>3 DEF From

\* The entries of a block with a name begin behind the name and before the last word.
LEMMA NamePlaces ==
  ASSUME NEW d \in Disks, NEW b \in Blocks, WellNamed(d, b)
  PROVE  /\ From(d, b) = 4 + Rounded(d[b].word[3]) /\ From(d, b) \in 5..Last - 1
         /\ d[b].word[From(d, b) - 1] # 0 /\ d[b].word[3] # 0 /\ d[b].kind \in Meta
<1>1. d[b].kind \in Named /\ d[b].word[3] \in 1..4 * (Last - 5)
      /\ \A i \in 4..3 + Rounded(d[b].word[3]) : d[b].word[i] # 0
  BY DEF WellNamed
<1>2. From(d, b) = 4 + Rounded(d[b].word[3])
  BY <1>1, DiskTypes
<1>3. PICK r : r = Rounded(d[b].word[3])
  OBVIOUS
<1>4. r \in 1..Last - 5 /\ Last \in Nat
  BY <1>1, <1>3, Roundings, Sizes
<1>5. 3 + r \in 4..3 + r /\ 4 + r \in 5..Last - 1 /\ 4 + r - 1 = 3 + r
  BY <1>4
<1>6. d[b].word[3 + r] # 0
  BY <1>1, <1>3, <1>5
<1>7. From(d, b) = 4 + r /\ From(d, b) - 1 = 3 + r
  BY <1>2, <1>3, <1>4
<1>8. d[b].word[3] # 0 /\ d[b].kind \in Meta
  BY <1>1 DEF Meta
<1> QED BY <1>2, <1>5, <1>6, <1>7, <1>8

\* The disk e is d with block b written.
Written(d, e, b, v) == e = [d EXCEPT ![b] = v]

\* Word i of block a gets m.
EnteredAt(d, e, a, i, m) == e = [d EXCEPT ![a] = [d[a] EXCEPT !.word = [@ EXCEPT ![i] = m]]]

\* Block a goes on in m.
LinkedTo(d, e, a, m) == e = [d EXCEPT ![a] = [d[a] EXCEPT !.next = m]]

\* A block that names none and is written so that it names none.
LEMMA Filled ==
  ASSUME NEW d \in Disks, NEW h, Good(d, h), NEW b \in 2..N, ~InChain(h, b),
         NEW v \in BlockTypes, NEW e, Written(d, e, b, v),
         \A i \in 1..Last, c \in Blocks : ~Points(d, b, i, c),
         v.kind \in Meta => v.next = 0 /\ \A i \in Words : i >= From(e, b) => v.word[i] = 0
  PROVE  /\ e \in Disks /\ Good(e, h) /\ e[b] = v
         /\ \A x \in Blocks, i \in 1..Last, c \in Blocks : Points(e, x, i, c) <=> Points(d, x, i, c)
         /\ \A x \in Blocks : x # b => /\ e[x] = d[x] /\ From(e, x) = From(d, x)
                                       /\ (WellNamed(e, x) <=> WellNamed(d, x))
<1>1. N \in Nat /\ Blocks = 0..N /\ b \in Blocks /\ 0 \in Blocks /\ 1 \in Blocks /\ b # 0 /\ b # 1
  BY Sizes
<1>2. e \in Disks /\ e[b] = v /\ \A x \in Blocks : x # b => e[x] = d[x]
  BY <1>1 DEF Disks, Written
<1>3. \A x \in Blocks : x # b => From(e, x) = From(d, x) /\ (WellNamed(e, x) <=> WellNamed(d, x))
  BY <1>2 DEF From, WellNamed
<1>4. \A i \in 1..Last, c \in Blocks : ~Points(e, b, i, c)
  <2> SUFFICES ASSUME NEW i \in 1..Last, NEW c \in Blocks, Points(e, b, i, c) PROVE FALSE
    OBVIOUS
  <2>1. v.kind \in Meta /\ c # 0 /\ ((i \in Words /\ i >= From(e, b) /\ v.word[i] = c) \/ (i = Last /\ v.next = c))
    BY <1>2 DEF Points
  <2> QED BY <2>1
<1>5. \A x \in Blocks, i \in 1..Last, c \in Blocks : x # b => (Points(e, x, i, c) <=> Points(d, x, i, c))
  BY <1>2, <1>3 DEF Points
<1>6. \A x \in Blocks, i \in 1..Last, c \in Blocks : Points(e, x, i, c) <=> Points(d, x, i, c)
  BY <1>4, <1>5
<1>7. ChainOk(e, h)
  BY <1>2 DEF Good, ChainOk
<1>8. Exclusive(e, h)
  <2>1. \A x \in Blocks, i \in Words : e[x].kind \in Meta /\ i >= From(e, x) => e[x].word[i] \in Blocks
    <3> SUFFICES ASSUME NEW x \in Blocks, NEW i \in Words, e[x].kind \in Meta, i >= From(e, x)
                 PROVE  e[x].word[i] \in Blocks
      OBVIOUS
    <3>1. CASE x = b
      BY <1>1, <1>2, <3>1
    <3>2. CASE x # b
      BY <1>2, <1>3, <3>2 DEF Good, Exclusive
    <3> QED BY <3>1, <3>2
  <2>2. \A x \in Blocks, i \in 1..Last, c \in Blocks : Points(e, x, i, c) => c \in 2..N /\ ~InChain(h, c)
    BY <1>6 DEF Good, Exclusive
  <2>3. ASSUME NEW x \in Blocks, NEW y \in Blocks, NEW j \in 1..Last, NEW k \in 1..Last, NEW c \in Blocks,
               Points(e, x, j, c), Points(e, y, k, c)
        PROVE  x = y /\ j = k
    <3>1. Points(d, x, j, c) /\ Points(d, y, k, c)
      BY <1>6, <2>3
    <3> QED BY <3>1 DEF Good, Exclusive
  <2> QED BY <2>1, <2>2, <2>3 DEF Exclusive
<1>9. e[0].kind = "blank" /\ e[1].kind = "dir" /\ WellNamed(e, 1)
  BY <1>1, <1>2, <1>3 DEF Good
<1>10. Good(e, h)
  BY <1>7, <1>8, <1>9 DEF Good
<1> QED BY <1>2, <1>3, <1>6, <1>10

\* A place of a block gets the number of a block that nobody names.  If the place is behind the
\* name, no other place is lost.
LEMMA Entered ==
  ASSUME NEW d \in Disks, NEW h, Good(d, h), NEW a \in 1..N, d[a].kind \in Meta,
         NEW i \in Words, d[a].word[i] = 0, i >= 3 + Rounded(d[a].word[3]),
         NEW m \in Blocks, Unnamed(d, h, m),
         NEW e, EnteredAt(d, e, a, i, m)
  PROVE  /\ e \in Disks /\ Good(e, h)
         /\ \A x \in Blocks : /\ e[x].kind = d[x].kind /\ e[x].next = d[x].next
                              /\ e[x].text = d[x].text /\ (x # a => e[x] = d[x])
         /\ \A x \in Blocks, j \in Words :
              e[x].word[j] = IF x = a /\ j = i THEN m ELSE d[x].word[j]
         /\ \A x \in Blocks : WellNamed(d, x) => WellNamed(e, x) /\ From(e, x) = From(d, x)
         /\ \A x \in Blocks, j \in 1..Last, c \in Blocks :
              Points(e, x, j, c) => Points(d, x, j, c) \/ (x = a /\ j = i /\ c = m)
         /\ WellNamed(d, a) \/ d[a].kind \in Cont =>
              /\ i >= From(d, a) /\ From(e, a) = From(d, a)
              /\ \A x \in Blocks, j \in 1..Last, c \in Blocks :
                   Points(e, x, j, c) <=> Points(d, x, j, c) \/ (x = a /\ j = i /\ c = m)
<1>1. /\ N \in Nat /\ Blocks = 0..N /\ a \in Blocks /\ 0 \in Blocks /\ 1 \in Blocks /\ a # 0
      /\ Last \in Nat /\ Words = 1..Last - 1 /\ 3 \in Words /\ i \in Nat
      /\ Named \cap Cont = {} /\ Meta = Named \cup Cont
  BY Sizes DEF Meta, Named, Cont
<1>2. m \in 2..N /\ ~InChain(h, m) /\ d[m].kind = "free" /\ m # 0 /\ m \in Nat
      /\ \A x \in Blocks, j \in 1..Last : ~Points(d, x, j, m)
  BY <1>1 DEF Unnamed
<1>3. d[a] \in BlockTypes /\ d[a].word \in [Words -> Nat] /\ \A x \in Blocks : From(d, x) \in Nat
  BY <1>1, DiskTypes
<1> DEFINE w == [d[a].word EXCEPT ![i] = m]
           u == [d[a] EXCEPT !.word = w]
<1>4. e = [d EXCEPT ![a] = u]
  BY DEF EnteredAt
<1>5. w \in [Words -> Nat] /\ \A j \in Words : w[j] = IF j = i THEN m ELSE d[a].word[j]
  BY <1>2, <1>3
<1> HIDE DEF w
<1>6. u \in BlockTypes /\ u.kind = d[a].kind /\ u.next = d[a].next /\ u.text = d[a].text /\ u.word = w
  BY <1>3, <1>5 DEF BlockTypes
<1> HIDE DEF u
<1>7. e \in Disks /\ e[a] = u /\ \A x \in Blocks : x # a => e[x] = d[x]
  BY <1>1, <1>4, <1>6 DEF Disks
<1>8. \A x \in Blocks : /\ e[x].kind = d[x].kind /\ e[x].next = d[x].next
                        /\ e[x].text = d[x].text /\ (x # a => e[x] = d[x])
  BY <1>6, <1>7
<1>9. \A x \in Blocks, j \in Words : e[x].word[j] = IF x = a /\ j = i THEN m ELSE d[x].word[j]
  <2> SUFFICES ASSUME NEW x \in Blocks, NEW j \in Words
               PROVE  e[x].word[j] = IF x = a /\ j = i THEN m ELSE d[x].word[j]
    OBVIOUS
  <2>1. CASE x = a
    BY <1>5, <1>6, <1>7, <2>1
  <2>2. CASE x # a
    BY <1>7, <2>2
  <2> QED BY <2>1, <2>2
<1>10. \A x \in Blocks : x # a => From(e, x) = From(d, x) /\ (WellNamed(e, x) <=> WellNamed(d, x))
  BY <1>7 DEF From, WellNamed
<1>11. WellNamed(d, a) => WellNamed(e, a) /\ From(e, a) = From(d, a) /\ i >= From(d, a)
  <2> SUFFICES ASSUME WellNamed(d, a) PROVE WellNamed(e, a) /\ From(e, a) = From(d, a) /\ i >= From(d, a)
    OBVIOUS
  <2>1. /\ From(d, a) = 4 + Rounded(d[a].word[3]) /\ From(d, a) \in 5..Last - 1
        /\ d[a].word[From(d, a) - 1] # 0
    BY <1>1, NamePlaces
  <2>2. PICK r : r = Rounded(d[a].word[3])
    OBVIOUS
  <2>3. r \in Nat /\ r >= 1 /\ i >= 3 + r /\ d[a].word[3 + r] # 0
    <3>1. r \in 1..Last - 5
      BY <2>2, Roundings DEF WellNamed
    <3>2. From(d, a) = 4 + r /\ From(d, a) - 1 = 3 + r
      BY <2>1, <2>2, <3>1
    <3>3. i >= 3 + r
      BY <2>2
    <3> QED BY <1>1, <2>1, <3>1, <3>2, <3>3
  <2>4. i # 3 + r /\ i >= 4 + r /\ i # 3
    BY <1>1, <2>3
  <2>5. e[a].word[3] = d[a].word[3] /\ e[a].kind = d[a].kind
    BY <1>1, <1>8, <1>9, <2>4
  <2>6. From(e, a) = From(d, a)
    BY <2>5 DEF From
  <2>7. ASSUME NEW j \in 4..3 + r PROVE e[a].word[j] # 0
    <3>1. j \in Words /\ j # i
      BY <1>1, <2>1, <2>2, <2>3, <2>4
    <3>2. d[a].word[j] # 0
      BY <2>2, <2>7 DEF WellNamed
    <3> QED BY <1>1, <1>9, <3>1, <3>2
  <2>8. WellNamed(e, a)
    BY <2>2, <2>5, <2>7 DEF WellNamed
  <2> QED BY <2>1, <2>2, <2>4, <2>6, <2>8
<1>12. d[a].kind \in Cont => From(e, a) = From(d, a) /\ i >= From(d, a)
  BY <1>1, <1>8 DEF From
<1>13. From(e, a) >= From(d, a) /\ From(e, a) \in Nat
  <2>1. CASE d[a].kind \in Cont
    BY <1>1, <1>3, <1>12, <2>1
  <2>2. CASE d[a].kind \in Named /\ i # 3
    <3>1. From(e, a) = From(d, a)
      BY <1>1, <1>8, <1>9, <2>2 DEF From
    <3> QED BY <1>1, <1>3, <3>1
  <2>3. CASE d[a].kind \in Named /\ i = 3
    <3>1. From(d, a) = 4 + 0
      BY <2>3, Roundings DEF From
    <3>2. e[a].word[3] = m /\ e[a].kind \in Named
      BY <1>1, <1>8, <1>9, <2>3
    <3>3. From(e, a) = 4 + Rounded(m)
      BY <3>2 DEF From
    <3>4. Rounded(m) \in Nat
      BY <1>2, Roundings
    <3> QED BY <3>1, <3>3, <3>4
  <2> QED BY <1>1, <2>1, <2>2, <2>3
<1>14. \A x \in Blocks, j \in 1..Last, c \in Blocks :
         Points(e, x, j, c) => Points(d, x, j, c) \/ (x = a /\ j = i /\ c = m)
  <2> SUFFICES ASSUME NEW x \in Blocks, NEW j \in 1..Last, NEW c \in Blocks, Points(e, x, j, c)
               PROVE  Points(d, x, j, c) \/ (x = a /\ j = i /\ c = m)
    OBVIOUS
  <2>1. From(e, x) >= From(d, x) /\ From(e, x) \in Nat /\ From(d, x) \in Nat
    <3>1. CASE x = a
      BY <1>1, <1>3, <1>13, <3>1
    <3>2. CASE x # a
      <4>1. From(e, x) = From(d, x) /\ From(d, x) \in Nat
        BY <1>3, <1>10, <3>2
      <4> QED BY <4>1
    <3> QED BY <3>1, <3>2
  <2>2. j \in Nat
    BY <1>1
  <2>3. j >= From(e, x) => j >= From(d, x)
    BY <2>1, <2>2
  <2> QED BY <1>8, <1>9, <2>3 DEF Points
<1>15. WellNamed(d, a) \/ d[a].kind \in Cont =>
         \A x \in Blocks, j \in 1..Last, c \in Blocks :
           Points(e, x, j, c) <=> Points(d, x, j, c) \/ (x = a /\ j = i /\ c = m)
  <2> SUFFICES ASSUME WellNamed(d, a) \/ d[a].kind \in Cont,
                      NEW x \in Blocks, NEW j \in 1..Last, NEW c \in Blocks,
                      Points(d, x, j, c) \/ (x = a /\ j = i /\ c = m)
               PROVE  Points(e, x, j, c)
    BY <1>14
  <2>1. From(e, x) = From(d, x)
    BY <1>10, <1>11, <1>12
  <2>2. CASE x = a /\ j = i /\ c = m
    BY <1>2, <1>8, <1>9, <1>11, <1>12, <2>1, <2>2 DEF Points
  <2>3. CASE Points(d, x, j, c)
    <3>1. j \in Words => ~(x = a /\ j = i)
      <4>1. c # 0 /\ (j \in Words => d[x].word[j] = c)
        BY <1>1, <2>3 DEF Points
      <4> QED BY <4>1
    <3> QED BY <1>8, <1>9, <2>1, <2>3, <3>1 DEF Points
  <2> QED BY <2>2, <2>3
<1>16. \A x \in Blocks : InChain(h, x) => x # a
  <2>1. \A x \in Blocks : InChain(h, x) => d[x].kind = "free"
    BY DEF Good, ChainOk, FreeBlock, Blank
  <2>2. d[a].kind # "free"
    BY DEF Meta, Named, Cont
  <2> QED BY <2>1, <2>2
<1>17. ChainOk(e, h)
  BY <1>8, <1>16 DEF Good, ChainOk
<1>18. Exclusive(e, h)
  <2>1. \A x \in Blocks, j \in Words : e[x].kind \in Meta /\ j >= From(e, x) => e[x].word[j] \in Blocks
    <3> SUFFICES ASSUME NEW x \in Blocks, NEW j \in Words, e[x].kind \in Meta, j >= From(e, x)
                 PROVE  e[x].word[j] \in Blocks
      OBVIOUS
    <3>1. j \in Nat /\ From(e, x) \in Nat /\ From(d, x) \in Nat /\ From(e, x) >= From(d, x)
      <4>1. CASE x = a
        BY <1>1, <1>3, <1>13, <4>1
      <4>2. CASE x # a
        <5>1. From(e, x) = From(d, x) /\ From(d, x) \in Nat
          BY <1>3, <1>10, <4>2
        <5> QED BY <1>1, <5>1
      <4> QED BY <4>1, <4>2
    <3>2. j >= From(d, x) /\ d[x].kind \in Meta
      BY <1>8, <3>1
    <3>3. d[x].word[j] \in Blocks
      BY <3>2 DEF Good, Exclusive
    <3> QED BY <1>9, <3>3
  <2>2. \A x \in Blocks, j \in 1..Last, c \in Blocks : Points(e, x, j, c) => c \in 2..N /\ ~InChain(h, c)
    BY <1>2, <1>14 DEF Good, Exclusive
  <2>3. ASSUME NEW x \in Blocks, NEW y \in Blocks, NEW j \in 1..Last, NEW k \in 1..Last, NEW c \in Blocks,
               Points(e, x, j, c), Points(e, y, k, c)
        PROVE  x = y /\ j = k
    <3>1. Points(d, x, j, c) \/ (x = a /\ j = i /\ c = m)
      BY <1>14, <2>3
    <3>2. Points(d, y, k, c) \/ (y = a /\ k = i /\ c = m)
      BY <1>14, <2>3
    <3>3. Points(d, x, j, c) /\ Points(d, y, k, c) => x = y /\ j = k
      BY DEF Good, Exclusive
    <3>4. ~Points(d, x, j, m) /\ ~Points(d, y, k, m)
      BY <1>2
    <3> QED BY <3>1, <3>2, <3>3, <3>4
  <2> QED BY <2>1, <2>2, <2>3 DEF Exclusive
<1>19. Good(e, h)
  BY <1>1, <1>8, <1>10, <1>11, <1>17, <1>18 DEF Good
<1> QED BY <1>7, <1>8, <1>9, <1>10, <1>11, <1>12, <1>14, <1>15, <1>19

\* A block goes on in a block that nobody names.
LEMMA Continued ==
  ASSUME NEW d \in Disks, NEW h, Good(d, h), NEW a \in 1..N, d[a].kind \in Meta, d[a].next = 0,
         NEW m \in Blocks, Unnamed(d, h, m),
         NEW e, LinkedTo(d, e, a, m)
  PROVE  /\ e \in Disks /\ Good(e, h) /\ e[a].next = m
         /\ \A x \in Blocks : /\ e[x].kind = d[x].kind /\ e[x].word = d[x].word /\ e[x].text = d[x].text
                              /\ (x # a => e[x] = d[x])
                              /\ From(e, x) = From(d, x) /\ (WellNamed(e, x) <=> WellNamed(d, x))
         /\ \A x \in Blocks, j \in 1..Last, c \in Blocks :
              Points(e, x, j, c) <=> Points(d, x, j, c) \/ (x = a /\ j = Last /\ c = m)
<1>1. /\ N \in Nat /\ Blocks = 0..N /\ a \in Blocks /\ 0 \in Blocks /\ 1 \in Blocks /\ a # 0
      /\ Last \in Nat /\ Words = 1..Last - 1 /\ Last \notin Words /\ Last \in 1..Last
  BY Sizes
<1>2. m \in 2..N /\ ~InChain(h, m) /\ m # 0 /\ \A x \in Blocks, j \in 1..Last : ~Points(d, x, j, m)
  BY <1>1 DEF Unnamed
<1>3. d[a] \in BlockTypes
  BY <1>1, DiskTypes
<1> DEFINE u == [d[a] EXCEPT !.next = m]
<1>4. e = [d EXCEPT ![a] = u]
  BY DEF LinkedTo
<1>5. u \in BlockTypes /\ u.kind = d[a].kind /\ u.next = m /\ u.text = d[a].text /\ u.word = d[a].word
  BY <1>3 DEF BlockTypes
<1> HIDE DEF u
<1>6. e \in Disks /\ e[a] = u /\ \A x \in Blocks : x # a => e[x] = d[x]
  BY <1>1, <1>4, <1>5 DEF Disks
<1>7. \A x \in Blocks : /\ e[x].kind = d[x].kind /\ e[x].word = d[x].word /\ e[x].text = d[x].text
                        /\ (x # a => e[x] = d[x])
  BY <1>5, <1>6
<1>8. \A x \in Blocks : From(e, x) = From(d, x) /\ (WellNamed(e, x) <=> WellNamed(d, x))
  BY <1>7 DEF From, WellNamed
<1>9. \A x \in Blocks, j \in 1..Last, c \in Blocks :
        Points(e, x, j, c) <=> Points(d, x, j, c) \/ (x = a /\ j = Last /\ c = m)
  <2> SUFFICES ASSUME NEW x \in Blocks, NEW j \in 1..Last, NEW c \in Blocks
               PROVE  Points(e, x, j, c) <=> Points(d, x, j, c) \/ (x = a /\ j = Last /\ c = m)
    OBVIOUS
  <2>1. CASE x # a
    BY <1>7, <1>8, <2>1 DEF Points
  <2>2. CASE x = a
    <3>1. e[x].next = m /\ d[x].next = 0
      BY <1>5, <1>6, <2>2
    <3> QED BY <1>1, <1>2, <1>7, <1>8, <2>2, <3>1 DEF Points
  <2> QED BY <2>1, <2>2
<1>10. ChainOk(e, h)
  <2>1. \A x \in Blocks : InChain(h, x) => d[x].kind = "free"
    BY DEF Good, ChainOk, FreeBlock, Blank
  <2>2. d[a].kind # "free"
    BY DEF Meta, Named, Cont
  <2> QED BY <1>7, <2>1, <2>2 DEF Good, ChainOk
<1>11. Exclusive(e, h)
  <2>1. \A x \in Blocks, j \in Words : e[x].kind \in Meta /\ j >= From(e, x) => e[x].word[j] \in Blocks
    BY <1>7, <1>8 DEF Good, Exclusive
  <2>2. \A x \in Blocks, j \in 1..Last, c \in Blocks : Points(e, x, j, c) => c \in 2..N /\ ~InChain(h, c)
    BY <1>2, <1>9 DEF Good, Exclusive
  <2>3. ASSUME NEW x \in Blocks, NEW y \in Blocks, NEW j \in 1..Last, NEW k \in 1..Last, NEW c \in Blocks,
               Points(e, x, j, c), Points(e, y, k, c)
        PROVE  x = y /\ j = k
    <3>1. Points(d, x, j, c) \/ (x = a /\ j = Last /\ c = m)
      BY <1>9, <2>3
    <3>2. Points(d, y, k, c) \/ (y = a /\ k = Last /\ c = m)
      BY <1>9, <2>3
    <3>3. Points(d, x, j, c) /\ Points(d, y, k, c) => x = y /\ j = k
      BY DEF Good, Exclusive
    <3>4. ~Points(d, x, j, m) /\ ~Points(d, y, k, m)
      BY <1>2
    <3> QED BY <3>1, <3>2, <3>3, <3>4
  <2> QED BY <2>1, <2>2, <2>3 DEF Exclusive
<1>12. Good(e, h)
  BY <1>1, <1>7, <1>8, <1>10, <1>11 DEF Good
<1> QED BY <1>5, <1>6, <1>7, <1>8, <1>9, <1>12

-----------------------------------------------------------------------------
(* What a write leaves alone                                                 *)

\* A block that keeps its kind, its name, its size and the entries that it has.
Keeps(d, e, x) ==
  /\ e[x].kind = d[x].kind /\ e[x].text = d[x].text /\ e[x].word[1] = d[x].word[1]
  /\ WellNamed(d, x) => WellNamed(e, x) /\ From(e, x) = From(d, x)
  /\ \A j \in Words : d[x].word[j] # 0 => e[x].word[j] = d[x].word[j]

\* An entry stays where its directory stays what it is.
LEMMA ListedKept ==
  ASSUME NEW d \in Disks, NEW e \in Disks, NEW p \in Blocks, NEW b \in Blocks,
         WellNamed(d, p), Keeps(d, e, p), Listed(d, p, b)
  PROVE  Listed(e, p, b)
<1>1. PICK i \in Words : Points(d, p, i, b)
  BY DEF Listed
<1>2. Last \notin Words
  BY Sizes
<1>3. p \in 1..N /\ b # 0 /\ d[p].kind \in Meta /\ i >= From(d, p) /\ d[p].word[i] = b
  BY <1>1, <1>2 DEF Points
<1>4. e[p].kind = d[p].kind /\ From(e, p) = From(d, p) /\ e[p].word[i] = b
  BY <1>3 DEF Keeps
<1>5. Points(e, p, i, b)
  BY <1>3, <1>4 DEF Points
<1> QED BY <1>5 DEF Listed

\* A payload block stays as it is if it and its file are not written.
LEMMA ChunkKept ==
  ASSUME NEW d \in Disks, NEW e \in Disks, NEW b \in Blocks, NEW c \in Nat, b # 0,
         WellNamed(d, b), Keeps(d, e, b), HasChunk(d, b, c),
         \A x \in Blocks : Keeps(d, e, x) \/ d[x].kind \notin {"payload", "raw"} \/ d[x].text = NoText
  PROVE  HasChunk(e, b, c)
<1>1. PICK f : f = From(d, b)
  OBVIOUS
<1>2. f \in 5..Last - 1 /\ Words = 1..Last - 1 /\ Last \in Nat /\ Blocks = 0..N
  BY <1>1, NamePlaces, Sizes
<1>3. f + c < Last /\ f + c \in Words
  BY <1>1, <1>2 DEF HasChunk
<1>4. PICK p : p = d[b].word[f + c]
  OBVIOUS
<1>5. p \in 2..N /\ d[p].kind \in {"payload", "raw"} /\ d[p].text = <<b, c>>
  BY <1>1, <1>4 DEF HasChunk
<1>6. From(e, b) = f /\ e[b].word[f + c] = p
  <2>1. p # 0
    BY <1>2, <1>5, Sizes
  <2> QED BY <1>1, <1>3, <1>4, <2>1 DEF Keeps
<1>7. p \in Blocks /\ d[p].text # NoText
  BY <1>2, <1>5, Sizes DEF NoText
<1>8. e[p].kind = d[p].kind /\ e[p].text = d[p].text
  BY <1>5, <1>7 DEF Keeps
<1> QED BY <1>3, <1>5, <1>6, <1>8 DEF HasChunk

\* What was added stays on the disk if its own blocks keep what they have.
LEMMA StoredKept ==
  ASSUME NEW d \in Disks, NEW e \in Disks, NEW h, NEW k, NEW g, Stored(d, h, g),
         \A c \in Blocks : InChain(k, c) => InChain(h, c),
         Keeps(d, e, g.block), Keeps(d, e, g.parent),
         \A x \in Blocks : Keeps(d, e, x) \/ d[x].kind \notin {"payload", "raw"} \/ d[x].text = NoText
  PROVE  Stored(e, k, g)
<1>1. /\ g.what \in Named /\ g.block \in 2..N /\ ~InChain(h, g.block)
      /\ d[g.block].kind = g.what /\ WellNamed(d, g.block)
      /\ g.parent \in Blocks /\ d[g.parent].kind \in Named /\ g.chunks \in Nat
      /\ g.what = "file" => \A c \in 0..g.chunks - 1 : HasChunk(d, g.block, c)
  BY DEF Stored
<1>2. g.block \in Blocks /\ g.block # 0
  BY <1>1, Sizes
<1>3. ~InChain(k, g.block) /\ e[g.block].kind = g.what /\ WellNamed(e, g.block) /\ e[g.parent].kind \in Named
  BY <1>1, <1>2 DEF Keeps
<1>4. ASSUME g.what = "file", NEW c \in 0..g.chunks - 1 PROVE HasChunk(e, g.block, c)
  <2>1. c \in Nat
    BY <1>1
  <2>2. HasChunk(d, g.block, c)
    BY <1>1, <1>4
  <2> QED BY <1>1, <1>2, <2>1, <2>2, ChunkKept
<1> QED BY <1>1, <1>3, <1>4 DEF Stored

-----------------------------------------------------------------------------
(* Calls that only read                                                      *)

\* The types of the variables in one place.
LEMMA Types ==
  ASSUME VolumeInv
  PROVE  /\ disk \in Disks /\ freechain \in Blocks /\ stage \in Stages /\ broken \in BOOLEAN
         /\ faults \in 0..MaxFaults /\ JobType
         /\ job.what \in Named \cup {"none"} /\ job.left \in Nat /\ job.plain \in BOOLEAN
         /\ job.namelen \in Nat /\ job.parent \in Blocks /\ job.block \in Blocks /\ job.at \in Blocks
         /\ job.meta \in Blocks /\ job.cont \in Blocks
BY DEF VolumeInv, TypeOK, JobType, Disks, BlockTypes

\* Block 0 and the blocks of the chain are no files or directories.
LEMMA NotMeta ==
  ASSUME NEW d \in Disks, NEW h, Good(d, h), NEW b \in Blocks, d[b].kind \in Meta
  PROVE  b \in 1..N /\ ~InChain(h, b)
<1>1. d[b].kind \notin {"blank", "free"}
  BY DEF Meta, Named, Cont
<1>2. b # 0 /\ b \in 0..N
  BY <1>1, Sizes DEF Good
<1>3. ~InChain(h, b)
  BY <1>1 DEF Good, ChainOk, FreeBlock, Blank
<1> QED BY <1>2, <1>3

\* A directory that was made is one that lists.
LEMMA CompleteNamed ==
  ASSUME VolumeInv, ~Formatting, NEW p \in Blocks, Complete(p)
  PROVE  WellNamed(disk, p)
<1>1. CASE p = 1
  BY <1>1 DEF VolumeInv, Ready, Good
<1>2. ASSUME NEW f \in added, f.block = p PROVE WellNamed(disk, p)
  BY <1>2 DEF VolumeInv, AddedOk, Stored
<1> QED BY <1>1, <1>2 DEF Complete

\* takeFreeBlock()
LEMMA Popped ==
  ASSUME VolumeInv, ~Formatting, freechain # 0, freechain' = disk[freechain].next, disk' = disk
  PROVE  /\ freechain \in 2..N /\ disk[freechain].kind = "free" /\ disk[freechain].text = NoText
         /\ freechain' \in Blocks /\ Good(disk', freechain')
         /\ \A c \in Blocks : InChain(freechain', c) <=> InChain(freechain, c) /\ c # freechain
         /\ InChain(freechain, freechain) /\ ~InChain(freechain', freechain)
         /\ Unnamed(disk', freechain', freechain)
         /\ \A c \in Blocks : Unnamed(disk, freechain, c) => Unnamed(disk', freechain', c) /\ c # freechain
<1>1. disk \in Disks /\ freechain \in Blocks /\ Good(disk, freechain)
  BY Types DEF VolumeInv, Ready
<1>2. /\ freechain \in 2..N /\ disk[freechain] = FreeBlock(freechain)
      /\ disk[freechain].next \in {0} \cup 2..N
      /\ \A c \in Blocks : InChain(disk[freechain].next, c) <=> InChain(freechain, c) /\ c # freechain
      /\ Good(disk, disk[freechain].next) /\ Unnamed(disk, disk[freechain].next, freechain)
  BY <1>1, TakenFirst
<1>3. disk[freechain].kind = "free" /\ disk[freechain].text = NoText
  BY <1>2 DEF FreeBlock, Blank
<1>4. InChain(freechain, freechain)
  BY <1>2, Sizes DEF InChain
<1>5. freechain' \in Blocks
  BY <1>2, Sizes
<1>6. ~InChain(freechain', freechain)
  BY <1>1, <1>2
<1>7. \A c \in Blocks : Unnamed(disk, freechain, c) => Unnamed(disk', freechain', c) /\ c # freechain
  BY <1>2, <1>4 DEF Unnamed
<1> QED BY <1>2, <1>3, <1>4, <1>5, <1>6, <1>7

\* What was added stays.
LEMMA AddedKept ==
  ASSUME VolumeInv, ~Formatting, disk' \in Disks,
         \A c \in Blocks : InChain(freechain', c) => InChain(freechain, c),
         \A x \in Blocks : Keeps(disk, disk', x) \/ disk[x].kind \notin {"payload", "raw"} \/ disk[x].text = NoText,
         NEW g \in added, Keeps(disk, disk', g.block), Keeps(disk, disk', g.parent)
  PROVE  /\ Stored(disk', freechain', g)
         /\ Complete(g.parent) => Listed(disk', g.parent, g.block)
<1>1. disk \in Disks /\ Stored(disk, freechain, g) /\ (Complete(g.parent) => Listed(disk, g.parent, g.block))
  BY Types DEF VolumeInv, AddedOk
<1>2. g.parent \in Blocks /\ g.block \in Blocks
  BY <1>1, Sizes DEF Stored
<1>3. Stored(disk', freechain', g)
  BY <1>1, StoredKept
<1>4. Complete(g.parent) => WellNamed(disk, g.parent)
  BY <1>2, CompleteNamed
<1> QED BY <1>1, <1>2, <1>3, <1>4, ListedKept

\* A step that leaves the disk alone.
LEMMA SameDisk ==
  ASSUME VolumeInv, ~Formatting, disk' = disk, added' = added,
         \A c \in Blocks : InChain(freechain', c) => InChain(freechain, c),
         Busy' => \A g \in added : g.block # job'.block /\ g.parent # job'.block
  PROVE  LinksOk' /\ FilesOk' /\ AddedOk' /\ ZeroOk'
<1>1. LinksOk' /\ FilesOk' /\ ZeroOk'
  BY DEF VolumeInv, LinksOk, FilesOk, ZeroOk
<1>2. ASSUME NEW g \in added
      PROVE  Stored(disk', freechain', g) /\ (Complete(g.parent) => Listed(disk', g.parent, g.block))
  <2>1. disk' \in Disks /\ \A x : Keeps(disk, disk', x)
    BY Types DEF Keeps
  <2> QED BY <2>1, AddedKept
<1>3. \A p : Complete(p)' <=> Complete(p)
  BY DEF Complete
<1>4. AddedOk'
  BY <1>2, <1>3 DEF AddedOk
<1> QED BY <1>1, <1>4

\* A call takes the block for its file or directory.
LEMMA AddKeeps ==
  ASSUME VolumeInv, NEW what \in Named, NEW parent \in Blocks, NEW n \in NameLens, NEW c \in Chunks,
         Add(what, parent, n, c)
  PROVE  VolumeInv'
<1>1. /\ stage = "idle" /\ stage' = "enter" /\ disk[parent].kind \in Named /\ freechain # 0
      /\ freechain' = disk[freechain].next /\ disk' = disk /\ UNCHANGED history
  BY DEF Add, Taken
<1>2. job' = [what |-> what, parent |-> parent, namelen |-> n, left |-> IF what = "file" THEN c ELSE 0,
              block |-> freechain, at |-> parent, meta |-> freechain, cont |-> 0, plain |-> TRUE]
  BY DEF Add, Taken, Idle
<1>3. ~Formatting /\ ~Formatting' /\ Busy' /\ Entering' /\ ~Writing' /\ ~Filing'
  BY <1>1, <1>2 DEF Formatting, Busy, Entering, Writing, Filing
<1>4. UNCHANGED <<faults, broken, added>>
  BY <1>1 DEF history
<1>5. /\ freechain \in 2..N /\ disk[freechain].kind = "free" /\ disk[freechain].text = NoText
      /\ freechain' \in Blocks /\ Good(disk', freechain')
      /\ \A b \in Blocks : InChain(freechain', b) <=> InChain(freechain, b) /\ b # freechain
      /\ InChain(freechain, freechain) /\ ~InChain(freechain', freechain)
      /\ Unnamed(disk', freechain', freechain)
  BY <1>1, <1>3, Popped
<1>6. n \in Nat /\ c \in Nat /\ c > 0 /\ 0 \in Blocks /\ parent # freechain
  BY <1>1, <1>5, Sizes DEF Named
<1>7. TypeOK' /\ JobType'
  <2>1. stage' \in Stages
    BY <1>1 DEF Stages
  <2> QED BY <1>1, <1>2, <1>4, <1>5, <1>6, <2>1 DEF VolumeInv, TypeOK, JobType
<1>8. FormatOk' /\ Ready'
  BY <1>3, <1>5 DEF FormatOk, Ready
<1>9. LinksOk' /\ FilesOk' /\ AddedOk' /\ ZeroOk'
  <2>1. ASSUME NEW g \in added PROVE g.block # job'.block /\ g.parent # job'.block
    <3>1. Stored(disk, freechain, g)
      BY DEF VolumeInv, AddedOk
    <3> QED BY <1>2, <1>5, <3>1 DEF Stored, Named
  <2> QED BY <1>1, <1>3, <1>4, <1>5, <2>1, SameDisk
<1>10. JobOk'
  BY <1>1, <1>2, <1>3, <1>5, <1>6 DEF JobOk
<1>11. FilingOk'
  BY <1>3 DEF FilingOk
<1>12. Described'
  <2> SUFFICES ASSUME ~broken PROVE Described'
    BY <1>4 DEF Described
  <2>1. \A b \in Blocks : Future(b)' = Future(b)
    BY <1>1 DEF Future
  <2>2. Pending' = {freechain} /\ Pending = {}
    BY <1>1, <1>2 DEF Pending, Entering
  <2>3. \A b \in 2..N : b \in Blocks
    BY Sizes
  <2> QED BY <1>1, <1>3, <1>5, <2>1, <2>2, <2>3 DEF VolumeInv, Described
<1>13. PlainOk'
  BY <1>1, <1>2, <1>3, <1>6 DEF PlainOk
<1> QED BY <1>7, <1>8, <1>9, <1>10, <1>11, <1>12, <1>13 DEF VolumeInv

\* A file takes its next payload block.
LEMMA TakeDataKeeps ==
  ASSUME VolumeInv, TakeData
  PROVE  VolumeInv'
<1>1. /\ stage = "data" /\ stage' = "enter" /\ freechain # 0
      /\ freechain' = disk[freechain].next /\ disk' = disk /\ UNCHANGED history
      /\ job' = [job EXCEPT !.at = job.block, !.meta = freechain]
  BY DEF TakeData, Taken
<1>2. JobType /\ freechain \in Blocks /\ job.block \in Blocks
  BY Types
<1>3. /\ job'.at = job.block /\ job'.meta = freechain /\ job'.what = job.what /\ job'.parent = job.parent
      /\ job'.namelen = job.namelen /\ job'.left = job.left /\ job'.block = job.block
      /\ job'.cont = job.cont /\ job'.plain = job.plain /\ JobType'
  BY <1>1, <1>2 DEF JobType
<1>4. Busy /\ Filing /\ ~Writing /\ ~Formatting /\ ~Entering
  BY <1>1 DEF Formatting, Busy, Writing, Filing, Entering
<1>5. UNCHANGED <<faults, broken, added>>
  BY <1>1 DEF history
<1>6. /\ freechain \in 2..N /\ disk[freechain].kind = "free" /\ disk[freechain].text = NoText
      /\ freechain' \in Blocks /\ Good(disk', freechain')
      /\ \A b \in Blocks : InChain(freechain', b) <=> InChain(freechain, b) /\ b # freechain
      /\ InChain(freechain, freechain) /\ ~InChain(freechain', freechain)
      /\ Unnamed(disk', freechain', freechain)
  BY <1>1, <1>4, Popped
<1>7. /\ job.what = "file" /\ job.namelen \in NameLens /\ job.left > 0
      /\ job.block \in 2..N /\ ~InChain(freechain, job.block)
      /\ disk[job.block].kind = "file" /\ WellNamed(disk, job.block)
  BY <1>1, <1>4 DEF VolumeInv, JobOk
<1>8. job.block # freechain
  BY <1>6, <1>7
<1>9. ~Formatting' /\ Busy' /\ Entering' /\ ~Writing' /\ Filing'
  BY <1>1, <1>3, <1>8 DEF Formatting, Busy, Entering, Writing, Filing
<1>10. TypeOK' /\ JobType'
  <2>1. stage' \in Stages
    BY <1>1 DEF Stages
  <2> QED BY <1>1, <1>2, <1>3, <1>5, <1>6, <2>1 DEF VolumeInv, TypeOK
<1>11. FormatOk' /\ Ready'
  BY <1>6, <1>9 DEF FormatOk, Ready
<1>12. LinksOk' /\ FilesOk' /\ AddedOk' /\ ZeroOk'
  <2>1. ASSUME NEW g \in added PROVE g.block # job'.block /\ g.parent # job'.block
    BY <1>3, <1>4 DEF VolumeInv, AddedOk
  <2> QED BY <1>1, <1>4, <1>5, <1>6, <2>1, SameDisk
<1>13. JobOk'
  <2>1. disk'[job'.block].kind = "file" /\ WellNamed(disk', job'.block) /\ ~InChain(freechain', job'.block)
    BY <1>1, <1>2, <1>3, <1>6, <1>7
  <2> QED BY <1>1, <1>3, <1>6, <1>7, <1>9, <2>1, Sizes DEF JobOk, Named
<1>14. Finished' = Finished /\ First' = First
  BY <1>1, <1>3 DEF Finished, First
<1>15. FilingOk'
  BY <1>1, <1>3, <1>4, <1>9, <1>14 DEF VolumeInv, FilingOk
<1>16. Described'
  <2> SUFFICES ASSUME ~broken PROVE Described'
    BY <1>5 DEF Described
  <2>1. \A b \in Blocks : Future(b)' = Future(b)
    BY <1>1 DEF Future
  <2>2. Pending' = {freechain} /\ Pending = {}
    BY <1>1, <1>3, <1>4, <1>9 DEF Pending
  <2>3. \A b \in 2..N : b \in Blocks
    BY Sizes
  <2> QED BY <1>1, <1>4, <1>6, <1>9, <2>1, <2>2, <2>3 DEF VolumeInv, Described
<1>17. PlainOk'
  <2> SUFFICES ASSUME job.plain PROVE PlainOk'
    BY <1>3 DEF PlainOk
  <2>1. \A p : Complete(p)' <=> Complete(p)
    BY <1>5 DEF Complete
  <2> QED BY <1>1, <1>3, <1>4, <1>8, <1>9, <1>14, <2>1 DEF VolumeInv, PlainOk
<1> QED BY <1>10, <1>11, <1>12, <1>13, <1>15, <1>16, <1>17 DEF VolumeInv

\* addToMeta() has a place in a file's own block for its first payload block.
LEMMA FirstIsPlace ==
  ASSUME VolumeInv, Filing, disk[job.block].word[First] = 0
  PROVE  First \in Places(job.block)
<1>1. WellNamed(disk, job.block) /\ disk \in Disks /\ job.block \in Blocks
  <2>1. Busy
    BY DEF Filing, Busy, Formatting, Entering
  <2> QED BY <2>1, Types DEF VolumeInv, JobOk
<1>2. First = 4 + Rounded(disk[job.block].word[3]) /\ First \in 5..Last - 1
  BY <1>1, NamePlaces DEF First
<1>3. Rounded(disk[job.block].word[3]) \in Nat
  BY <1>1, Roundings DEF WellNamed
<1>4. FirstTried(job.block) = 3 + Rounded(disk[job.block].word[3])
  BY DEF FirstTried
<1>5. First \in Words /\ First >= FirstTried(job.block)
  BY <1>2, <1>3, <1>4, Sizes
<1> QED BY <1>5 DEF Places

\* addToMeta() in the next block.
LEMMA EnterNextKeeps ==
  ASSUME VolumeInv, EnterNext
  PROVE  VolumeInv'
<1>1. /\ stage = "enter" /\ stage' = "enter" /\ ValidType(job.at, Into) /\ Places(job.at) = {}
      /\ disk[job.at].next # 0
      /\ freechain' = freechain /\ disk' = disk /\ UNCHANGED history
      /\ job' = [job EXCEPT !.at = disk[job.at].next, !.plain = FALSE]
  BY DEF EnterNext
<1>2. /\ JobType /\ freechain \in Blocks /\ job.block \in Blocks /\ job.at \in Blocks /\ disk \in Disks
      /\ disk[job.at].next \in Blocks
  BY Types, DiskTypes
<1>3. /\ job'.at = disk[job.at].next /\ job'.meta = job.meta /\ job'.what = job.what
      /\ job'.parent = job.parent /\ job'.namelen = job.namelen /\ job'.left = job.left
      /\ job'.block = job.block /\ job'.cont = job.cont /\ job'.plain = FALSE /\ JobType'
  BY <1>1, <1>2 DEF JobType
<1>4. Busy /\ ~Writing /\ ~Formatting /\ Entering /\ Busy' /\ ~Writing' /\ ~Formatting' /\ Entering'
      /\ (Filing' <=> Filing)
  BY <1>1, <1>3 DEF Formatting, Busy, Writing, Filing, Entering
<1>5. UNCHANGED <<faults, broken, added>>
  BY <1>1 DEF history
<1>6. Points(disk, job.at, Last, job'.at)
  <2>1. disk[job.at].kind \in Meta
    BY <1>1 DEF ValidType, Meta, Named, Cont
  <2>2. job.at \in 1..N
    BY <1>2, <1>4, <2>1, NotMeta DEF VolumeInv, Ready
  <2> QED BY <1>1, <1>3, <2>1, <2>2 DEF Points
<1>7. TypeOK' /\ JobType'
  <2>1. stage' \in Stages
    BY <1>1 DEF Stages
  <2> QED BY <1>1, <1>2, <1>3, <1>5, <2>1 DEF VolumeInv, TypeOK
<1>8. FormatOk' /\ Ready'
  BY <1>1, <1>4 DEF VolumeInv, FormatOk, Ready
<1>9. LinksOk' /\ FilesOk' /\ AddedOk' /\ ZeroOk'
  <2>1. ASSUME NEW g \in added PROVE g.block # job'.block /\ g.parent # job'.block
    BY <1>3, <1>4 DEF VolumeInv, AddedOk
  <2> QED BY <1>1, <1>4, <1>5, <2>1, SameDisk
<1>10. JobOk'
  BY <1>1, <1>3, <1>4 DEF VolumeInv, JobOk
<1>11. Finished' = Finished /\ First' = First
  BY <1>1, <1>3 DEF Finished, First
<1>12. FilingOk'
  <2> SUFFICES ASSUME Filing PROVE FilingOk'
    BY <1>4 DEF FilingOk
  <2>1. Finished # 0
    <3> SUFFICES ASSUME Finished = 0 PROVE FALSE
      OBVIOUS
    <3>1. disk[job.block].word[First] = 0 /\ job.at = job.block
      BY <1>1, <1>4 DEF VolumeInv, FilingOk
    <3>2. First \in Places(job.block)
      BY <3>1, FirstIsPlace
    <3> QED BY <1>1, <3>1, <3>2
  <2>2. \E b \in Blocks : Points(disk', b, Last, job'.at)
    BY <1>1, <1>2, <1>6
  <2> QED BY <1>1, <1>3, <1>4, <1>11, <2>1, <2>2 DEF VolumeInv, FilingOk
<1>13. Described'
  <2> SUFFICES ASSUME ~broken PROVE Described'
    BY <1>5 DEF Described
  <2>1. \A b \in Blocks : Future(b)' = Future(b)
    BY <1>1 DEF Future
  <2>2. Pending' = Pending
    BY <1>1, <1>3, <1>4 DEF Pending
  <2> QED BY <1>1, <1>4, <2>1, <2>2 DEF VolumeInv, Described
<1>14. PlainOk'
  BY <1>3 DEF PlainOk
<1> QED BY <1>7, <1>8, <1>9, <1>10, <1>12, <1>13, <1>14 DEF VolumeInv

\* addToMeta() takes a block to go on in.
LEMMA EnterMoreKeeps ==
  ASSUME VolumeInv, EnterMore
  PROVE  VolumeInv'
<1>1. /\ stage = "enter" /\ stage' = "continue" /\ ValidType(job.at, Into) /\ Places(job.at) = {}
      /\ disk[job.at].next = 0 /\ freechain # 0
      /\ freechain' = disk[freechain].next /\ disk' = disk /\ UNCHANGED history
      /\ job' = [job EXCEPT !.cont = freechain, !.plain = FALSE]
  BY DEF EnterMore, Taken
<1>2. JobType /\ freechain \in Blocks /\ job.block \in Blocks /\ job.at \in Blocks /\ job.meta \in Blocks
  BY Types
<1>3. /\ job'.at = job.at /\ job'.meta = job.meta /\ job'.what = job.what
      /\ job'.parent = job.parent /\ job'.namelen = job.namelen /\ job'.left = job.left
      /\ job'.block = job.block /\ job'.cont = freechain /\ job'.plain = FALSE /\ JobType'
  BY <1>1, <1>2 DEF JobType
<1>4. Busy /\ ~Writing /\ ~Formatting /\ Entering /\ Busy' /\ ~Writing' /\ ~Formatting' /\ Entering'
      /\ (Filing' <=> Filing)
  BY <1>1, <1>3 DEF Formatting, Busy, Writing, Filing, Entering
<1>5. UNCHANGED <<faults, broken, added>>
  BY <1>1 DEF history
<1>6. /\ freechain \in 2..N /\ disk[freechain].kind = "free"
      /\ freechain' \in Blocks /\ Good(disk', freechain')
      /\ \A b \in Blocks : InChain(freechain', b) <=> InChain(freechain, b) /\ b # freechain
      /\ ~InChain(freechain', freechain)
      /\ Unnamed(disk', freechain', freechain)
      /\ \A c \in Blocks : Unnamed(disk, freechain, c) => Unnamed(disk', freechain', c) /\ c # freechain
  BY <1>1, <1>4, Popped
<1>7. Unnamed(disk', freechain', job.meta) /\ job.meta # freechain
  BY <1>2, <1>4, <1>6 DEF VolumeInv, JobOk
<1>8. TypeOK' /\ JobType'
  <2>1. stage' \in Stages
    BY <1>1 DEF Stages
  <2> QED BY <1>1, <1>2, <1>3, <1>5, <1>6, <2>1 DEF VolumeInv, TypeOK
<1>9. FormatOk' /\ Ready'
  BY <1>4, <1>6 DEF FormatOk, Ready
<1>10. LinksOk' /\ FilesOk' /\ AddedOk' /\ ZeroOk'
  <2>1. ASSUME NEW g \in added PROVE g.block # job'.block /\ g.parent # job'.block
    BY <1>3, <1>4 DEF VolumeInv, AddedOk
  <2> QED BY <1>1, <1>4, <1>5, <1>6, <2>1, SameDisk
<1>11. JobOk'
  <2>1. ~InChain(freechain', job.block) /\ ~InChain(freechain', job.meta)
    BY <1>2, <1>4, <1>6 DEF VolumeInv, JobOk
  <2>2. ValidType(job.at, Into)'
    BY <1>1, <1>3 DEF ValidType, Into
  <2> QED BY <1>1, <1>3, <1>4, <1>6, <1>7, <2>1, <2>2 DEF VolumeInv, JobOk
<1>12. Finished' = Finished /\ First' = First
  BY <1>1, <1>3 DEF Finished, First
<1>13. FilingOk'
  <2> SUFFICES ASSUME Filing PROVE FilingOk'
    BY <1>4 DEF FilingOk
  <2>1. Finished # 0
    <3> SUFFICES ASSUME Finished = 0 PROVE FALSE
      OBVIOUS
    <3>1. disk[job.block].word[First] = 0 /\ job.at = job.block
      BY <1>1, <1>4 DEF VolumeInv, FilingOk
    <3>2. First \in Places(job.block)
      BY <3>1, FirstIsPlace
    <3> QED BY <1>1, <3>1, <3>2
  <2> QED BY <1>1, <1>3, <1>4, <1>12, <2>1 DEF VolumeInv, FilingOk
<1>14. Described'
  <2> SUFFICES ASSUME ~broken PROVE Described'
    BY <1>5 DEF Described
  <2>1. \A b \in Blocks : Future(b)' = Future(b)
    BY <1>1 DEF Future
  <2>2. Pending = {job.meta} /\ Pending' = {job.meta, freechain}
    BY <1>1, <1>3, <1>4 DEF Pending
  <2>3. \A b \in 2..N : b \in Blocks
    BY Sizes
  <2> QED BY <1>1, <1>4, <1>6, <2>1, <2>2, <2>3 DEF VolumeInv, Described
<1>15. PlainOk'
  BY <1>3 DEF PlainOk
<1> QED BY <1>8, <1>9, <1>10, <1>11, <1>13, <1>14, <1>15 DEF VolumeInv

-----------------------------------------------------------------------------
(* Crashes and failures                                                      *)

\* A call that ends early leaves what it has written.
LEMMA GiveUpKeeps ==
  ASSUME VolumeInv, stage # "idle", GiveUp, broken' = TRUE, faults' \in 0..MaxFaults
  PROVE  VolumeInv'
<1>1. /\ stage' = IF Formatting THEN "format" ELSE "idle"
      /\ job' = IF Formatting THEN [Idle EXCEPT !.at = N] ELSE Idle
      /\ UNCHANGED <<disk, freechain, added>>
  BY DEF GiveUp, Formatting
<1>2. JobType' /\ job'.what = "none" /\ job'.meta = 0 /\ (Formatting => job'.at = N)
  <2>1. N \in Blocks /\ 0 \in Blocks
    BY Sizes
  <2>2. Idle = [what |-> "none", parent |-> 0, namelen |-> 0, left |-> 0, block |-> 0,
                at |-> 0, meta |-> 0, cont |-> 0, plain |-> TRUE]
    BY DEF Idle
  <2>3. CASE Formatting
    <3>1. job' = [what |-> "none", parent |-> 0, namelen |-> 0, left |-> 0, block |-> 0,
                  at |-> N, meta |-> 0, cont |-> 0, plain |-> TRUE]
      BY <1>1, <2>2, <2>3
    <3> QED BY <2>1, <3>1 DEF JobType
  <2>4. CASE ~Formatting
    <3>1. job' = [what |-> "none", parent |-> 0, namelen |-> 0, left |-> 0, block |-> 0,
                  at |-> 0, meta |-> 0, cont |-> 0, plain |-> TRUE]
      BY <1>1, <2>2, <2>4
    <3> QED BY <2>1, <2>4, <3>1 DEF JobType
  <2> QED BY <2>3, <2>4
<1>3. TypeOK'
  <2>1. stage' \in Stages
    BY <1>1 DEF Stages
  <2> QED BY <1>1, <1>2, <2>1 DEF VolumeInv, TypeOK, JobType
<1>4. ~Busy' /\ (Formatting' <=> Formatting)
  BY <1>1 DEF Busy, Formatting
<1>5. FormatOk'
  <2> SUFFICES ASSUME Formatting PROVE FormatOk'
    BY <1>4 DEF FormatOk
  <2>1. stage' = "format" /\ job'.at = N /\ N \in Nat /\ N \in 1..N /\ N \in Blocks
    BY <1>1, <1>2, Sizes
  <2>2. (N + 1) % (N + 1) = 0 /\ N + 1..N = {}
    BY <2>1, Following
  <2> QED BY <1>1, <1>2, <2>1, <2>2 DEF VolumeInv, FormatOk
<1>6. Ready' /\ LinksOk' /\ FilesOk' /\ ZeroOk'
  BY <1>1, <1>4 DEF VolumeInv, Ready, LinksOk, FilesOk, ZeroOk
<1>7. AddedOk'
  BY <1>1, <1>4 DEF VolumeInv, AddedOk, Complete
<1>8. JobOk' /\ PlainOk'
  BY <1>4 DEF JobOk, PlainOk
<1>9. FilingOk' /\ Described'
  BY <1>1 DEF FilingOk, Filing, Entering, Described
<1> QED BY <1>2, <1>3, <1>5, <1>6, <1>7, <1>8, <1>9 DEF VolumeInv

\* The wrong type, no block left, a failing write or a crash.
LEMMA FailuresKeep ==
  ASSUME VolumeInv, EnterFails \/ Abort
  PROVE  VolumeInv'
<1>1. CASE EnterFails
  <2>1. stage # "idle" /\ GiveUp /\ broken' = TRUE /\ faults' = faults
    BY <1>1 DEF EnterFails
  <2> QED BY <2>1, Types, GiveUpKeeps
<1>2. CASE Abort
  <2>1. stage # "idle" /\ GiveUp /\ broken' = TRUE /\ faults < MaxFaults /\ faults' = faults + 1
    BY <1>2 DEF Abort, Fault
  <2>2. faults' \in 0..MaxFaults
    BY <2>1, Types, Sizes
  <2> QED BY <2>1, <2>2, GiveUpKeeps
<1> QED BY <1>1, <1>2

-----------------------------------------------------------------------------
(* format()                                                                  *)

\* Blocks that format() writes.
LEMMA FormatBlocks ==
  /\ Zero \in [Words -> Nat] /\ \A i \in Words : Zero[i] = 0
  /\ Blank \in BlockTypes /\ NoText \in Nat \X Nat
  /\ \A k \in Kinds : [Blank EXCEPT !.kind = k] \in BlockTypes
  /\ \A b \in Blocks : FreeBlock(b) \in BlockTypes
  /\ Named \subseteq Kinds /\ Cont \subseteq Kinds /\ {"blank", "free", "payload", "raw"} \subseteq Kinds
<1>1. Zero \in [Words -> Nat] /\ \A i \in Words : Zero[i] = 0
  BY DEF Zero
<1>2. Named \subseteq Kinds /\ Cont \subseteq Kinds /\ {"blank", "free", "payload", "raw"} \subseteq Kinds
  BY DEF Kinds, Meta
<1>3. 0 \in Blocks /\ NoText \in Nat \X Nat
  BY Sizes DEF NoText
<1>4. ASSUME NEW k \in Kinds, NEW n \in Blocks
      PROVE  [kind |-> k, word |-> Zero, next |-> n, text |-> NoText] \in BlockTypes
  BY <1>1, <1>3, <1>4 DEF BlockTypes
<1>5. \A k \in Kinds : [Blank EXCEPT !.kind = k] = [kind |-> k, word |-> Zero, next |-> 0, text |-> NoText]
  BY DEF Blank
<1>6. Blank = [kind |-> "blank", word |-> Zero, next |-> 0, text |-> NoText]
  BY DEF Blank
<1>7. \A b \in Blocks : FreeBlock(b) = [kind |-> "free", word |-> Zero, next |-> (b + 1) % (N + 1), text |-> NoText]
  <2>1. \A n \in Nat : [Blank EXCEPT !.kind = "free", !.next = n]
                     = [kind |-> "free", word |-> Zero, next |-> n, text |-> NoText]
    <3> TAKE n \in Nat
    <3>1. PICK b : b = [Blank EXCEPT !.kind = "free"]
      OBVIOUS
    <3>2. b = [kind |-> "free", word |-> Zero, next |-> 0, text |-> NoText]
      BY <3>1 DEF Blank
    <3>3. [Blank EXCEPT !.kind = "free", !.next = n] = [b EXCEPT !.next = n]
      BY <3>1
    <3>4. [b EXCEPT !.next = n] = [kind |-> "free", word |-> Zero, next |-> n, text |-> NoText]
      BY <3>2
    <3> QED BY <3>3, <3>4
  <2>2. \A b \in Blocks : (b + 1) % (N + 1) \in Nat
    BY Following, Sizes
  <2> QED BY <2>1, <2>2 DEF FreeBlock
<1>8. \A b \in Blocks : (b + 1) % (N + 1) \in Blocks
  BY Following, Sizes
<1> QED BY <1>1, <1>2, <1>3, <1>4, <1>5, <1>6, <1>7, <1>8

\* While the disk is formatted nothing is promised but the chain.
LEMMA FormatSteps ==
  ASSUME VolumeInv, FormatBlock \/ FormatFails \/ FormatHeader \/ FormatRoot
  PROVE  VolumeInv'
<1>1. Formatting /\ Formatting'
  BY DEF FormatBlock, FormatFails, FormatHeader, FormatRoot, Formatting
<1>2. added' = added /\ added = {} /\ job.what = "none"
  BY <1>1 DEF VolumeInv, FormatOk, FormatBlock, FormatFails, FormatHeader, FormatRoot, Fault, history
<1>3. ~Busy' /\ ~Filing'
  BY <1>1 DEF Busy, Formatting, Filing, Entering
<1>4. Ready' /\ LinksOk' /\ FilesOk' /\ JobOk' /\ PlainOk' /\ AddedOk' /\ FilingOk' /\ Described'
  BY <1>1, <1>2, <1>3 DEF Ready, LinksOk, FilesOk, JobOk, PlainOk, AddedOk, FilingOk, Described
<1>5. disk \in Disks /\ freechain \in Blocks /\ JobType /\ job.meta \in Blocks /\ job.at \in Blocks
      /\ N \in Nat /\ N >= 2 /\ Blocks = 0..N /\ 0 \in Blocks /\ 1 \in Blocks
  BY Types, Sizes
<1>6. ASSUME disk' \in Disks, JobType', freechain' \in Blocks, stage' \in Stages,
             faults' \in 0..MaxFaults, broken' \in BOOLEAN
      PROVE  TypeOK'
  BY <1>6 DEF TypeOK, JobType, Disks, BlockTypes
<1>7. TypeOK' /\ JobType' /\ FormatOk'
  <2>1. CASE FormatBlock
    <3>1. /\ stage = "format" /\ stage' = "format" /\ job.at >= 2 /\ freechain' = freechain
          /\ disk' = [disk EXCEPT ![job.at] = FreeBlock(job.at)] /\ UNCHANGED <<faults, broken>>
          /\ job' = [job EXCEPT !.at = job.at - 1, !.meta = job.at]
      BY <2>1 DEF FormatBlock, Put, history, FreeBlock
    <3>2. job.at \in 1..N /\ job.meta = (job.at + 1) % (N + 1)
          /\ \A b \in job.at + 1..N : disk[b] = FreeBlock(b)
      BY <1>1, <3>1 DEF VolumeInv, FormatOk
    <3>3. job.at - 1 \in 1..N /\ job.at - 1 \in Blocks /\ (job.at - 1 + 1) % (N + 1) = job.at
          /\ job.at # 1 /\ job.at - 1 + 1 = job.at
      <4>1. job.at - 1 \in 1..N /\ job.at - 1 \in Blocks /\ job.at - 1 + 1 = job.at /\ job.at - 1 # N
        BY <1>5, <3>1, <3>2
      <4>2. (job.at - 1 + 1) % (N + 1) = job.at - 1 + 1
        BY <4>1, Following
      <4> QED BY <1>5, <3>1, <4>1, <4>2
    <3>4. JobType' /\ job'.at = job.at - 1 /\ job'.meta = job.at /\ job'.what = job.what
      BY <1>5, <3>1, <3>3 DEF JobType
    <3>5. disk' \in Disks /\ disk'[job.at] = FreeBlock(job.at) /\ \A b \in Blocks : b # job.at => disk'[b] = disk[b]
      BY <1>5, <3>1, FormatBlocks DEF Disks
    <3>6. \A b \in job.at..N : disk'[b] = FreeBlock(b)
      <4>1. \A b \in job.at..N : b \in Blocks /\ (b # job.at => b \in job.at + 1..N)
        BY <1>5, <3>2
      <4> QED BY <3>2, <3>5, <4>1
    <3>7. \A b \in Blocks : b # 1 => disk'[b].kind \in {"blank", "free"}
      <4>1. FreeBlock(job.at).kind = "free"
        BY DEF FreeBlock, Blank
      <4> QED BY <1>1, <3>5, <4>1 DEF VolumeInv, FormatOk
    <3>8. TypeOK'
      BY <1>5, <1>6, <3>1, <3>4, <3>5, Types
    <3>9. FormatOk'
      BY <1>2, <3>1, <3>3, <3>4, <3>6, <3>7 DEF FormatOk
    <3> QED BY <3>4, <3>8, <3>9
  <2>2. CASE FormatFails
    <3>1. /\ stage = "format" /\ stage' = "format" /\ UNCHANGED <<disk, freechain>>
          /\ broken' = TRUE /\ faults < MaxFaults /\ faults' = faults + 1
          /\ job' = [job EXCEPT !.at = 1, !.meta = 0]
      BY <2>2 DEF FormatFails, Fault
    <3>2. JobType' /\ job'.at = 1 /\ job'.meta = 0 /\ job'.what = job.what
      BY <1>5, <3>1 DEF JobType
    <3>3. faults' \in 0..MaxFaults
      <4>1. faults \in 0..MaxFaults /\ MaxFaults \in Nat
        BY Types, Sizes
      <4> QED BY <3>1, <4>1
    <3>4. TypeOK'
      BY <1>5, <1>6, <3>1, <3>2, <3>3, Types
    <3>5. FormatOk'
      BY <1>1, <1>2, <1>5, <3>1, <3>2 DEF VolumeInv, FormatOk
    <3> QED BY <3>2, <3>4, <3>5
  <2>3. CASE FormatHeader
    <3>1. /\ stage = "format" /\ job.at = 1 /\ stage' = "root" /\ freechain' = job.meta
          /\ UNCHANGED <<disk, job, faults, broken>>
      BY <2>3 DEF FormatHeader, history
    <3>2. \/ job.meta = (1 + 1) % (N + 1) /\ \A b \in 1 + 1..N : disk[b] = FreeBlock(b)
          \/ job.meta = 0 /\ broken
      BY <1>1, <3>1 DEF VolumeInv, FormatOk
    <3>3. (1 + 1) % (N + 1) = 2
      BY <1>5, Following
    <3>4. ChainOk(disk, job.meta) /\ job.meta \in {0, 2} /\ (~broken => job.meta = 2)
      <4>1. CASE job.meta = 0 /\ broken
        BY <4>1 DEF ChainOk, InChain
      <4>2. CASE job.meta = 2 /\ \A b \in 2..N : disk[b] = FreeBlock(b)
        BY <1>5, <4>2 DEF ChainOk, InChain
      <4> QED BY <3>2, <3>3, <4>1, <4>2
    <3>5. TypeOK' /\ JobType'
      BY <1>5, <1>6, <3>1, Types DEF JobType, Stages
    <3>6. FormatOk'
      BY <1>1, <1>2, <3>1, <3>4 DEF VolumeInv, FormatOk
    <3> QED BY <3>5, <3>6
  <2>4. CASE FormatRoot
    <3>1. /\ stage = "root" /\ stage' = "slash" /\ disk' = [disk EXCEPT ![1] = [Blank EXCEPT !.kind = "dir"]]
          /\ UNCHANGED <<freechain, job, faults, broken>>
      BY <2>4 DEF FormatRoot, Put, history
    <3>2. disk' \in Disks /\ disk'[1] = [Blank EXCEPT !.kind = "dir"] /\ \A b \in Blocks : b # 1 => disk'[b] = disk[b]
      BY <1>5, <3>1, FormatBlocks DEF Disks, Named
    <3>3. TypeOK' /\ JobType'
      BY <1>5, <1>6, <3>1, <3>2, Types DEF JobType, Stages
    <3>4. ChainOk(disk, freechain) /\ freechain \in {0, 2} /\ (~broken => freechain = 2)
      BY <1>1, <3>1 DEF VolumeInv, FormatOk
    <3>5. ChainOk(disk', freechain)
      <4>1. \A b \in Blocks : InChain(freechain, b) => b # 1
        BY <1>5, <3>4 DEF InChain
      <4> QED BY <3>2, <3>4, <4>1 DEF ChainOk
    <3>6. FormatOk'
      BY <1>1, <1>2, <3>1, <3>2, <3>4, <3>5 DEF VolumeInv, FormatOk
    <3> QED BY <3>3, <3>6
  <2> QED BY <2>1, <2>2, <2>3, <2>4
<1>8. ZeroOk'
  <2>1. job.at >= 2 => job.at # 0
    BY <1>5
  <2>2. disk'[0] = disk[0]
    BY <1>5, <2>1 DEF FormatBlock, FormatFails, FormatHeader, FormatRoot, Put, Disks
  <2> QED BY <2>2 DEF VolumeInv, ZeroOk
<1> QED BY <1>4, <1>7, <1>8 DEF VolumeInv

\* The root gets its name: from now on the disk is good.
LEMMA FormatSlashKeeps ==
  ASSUME VolumeInv, FormatSlash
  PROVE  VolumeInv'
<1>1. /\ stage = "slash" /\ stage' = "idle" /\ job' = Idle /\ UNCHANGED <<freechain, faults, broken, added>>
      /\ disk' = [disk EXCEPT ![1] = [disk[1] EXCEPT !.word = [@ EXCEPT ![3] = 1, ![4] = NameWord]]]
  BY DEF FormatSlash, Put, history
<1>2. /\ disk \in Disks /\ freechain \in Blocks /\ N \in Nat /\ N >= 2 /\ Blocks = 0..N /\ 0 \in Blocks /\ 1 \in Blocks
      /\ Last \in Nat /\ Last >= 6 /\ Words = 1..Last - 1 /\ 3 \in Words /\ 4 \in Words /\ Last \notin Words
      /\ NameWord \in Nat /\ NameWord # 0
  BY Types, Sizes
<1>3. Formatting /\ ~Formatting' /\ ~Busy' /\ ~Filing'
  BY <1>1 DEF Formatting, Busy, Filing, Entering
<1>4. /\ added = {} /\ ChainOk(disk, freechain) /\ freechain \in {0, 2} /\ (~broken => freechain = 2)
      /\ disk[1] = [Blank EXCEPT !.kind = "dir"]
      /\ \A b \in Blocks : b # 1 => disk[b].kind \in {"blank", "free"}
  BY <1>1, <1>3 DEF VolumeInv, FormatOk
<1> DEFINE w == [disk[1].word EXCEPT ![3] = 1, ![4] = NameWord]
           v == [disk[1] EXCEPT !.word = w]
<1>5. disk' = [disk EXCEPT ![1] = v]
  BY <1>1
<1>6. disk[1].kind = "dir" /\ disk[1].word = Zero /\ disk[1].next = 0 /\ disk[1].text = NoText
      /\ disk[1] \in BlockTypes
  BY <1>2, <1>4, DiskTypes DEF Blank
<1>7. w \in [Words -> Nat] /\ w[3] = 1 /\ w[4] = NameWord /\ \A i \in Words : i \notin {3, 4} => w[i] = 0
  BY <1>2, <1>6, FormatBlocks
<1> HIDE DEF w
<1>8. v \in BlockTypes /\ v.kind = "dir" /\ v.next = 0 /\ v.text = NoText /\ v.word = w
  BY <1>6, <1>7 DEF BlockTypes
<1> HIDE DEF v
<1>9. disk' \in Disks /\ disk'[1] = v /\ \A b \in Blocks : b # 1 => disk'[b] = disk[b]
  BY <1>2, <1>5, <1>8 DEF Disks
<1>10. Rounded(1) = 1 /\ From(disk', 1) = 5 /\ WellNamed(disk', 1)
  <2>1. Rounded(1) = 1
    BY DEF Rounded
  <2>2. disk'[1].kind \in Named /\ disk'[1].word[3] = 1
    BY <1>7, <1>8, <1>9 DEF Named
  <2>3. From(disk', 1) = 5
    BY <2>1, <2>2 DEF From
  <2>4. 1 \in 1..4 * (Last - 5) /\ \A i \in 4..3 + 1 : i = 4
    BY <1>2
  <2>5. WellNamed(disk', 1)
    BY <1>2, <1>7, <1>8, <1>9, <2>1, <2>2, <2>4 DEF WellNamed
  <2> QED BY <2>1, <2>3, <2>5
<1>11. \A b \in Blocks : disk'[b].kind \in {"blank", "free"} \/ b = 1
  BY <1>4, <1>9
<1>12. \A b \in Blocks : disk'[b].kind \in Meta => b = 1
  BY <1>11 DEF Meta, Named, Cont
<1>13. \A i \in Words : i >= 5 => disk'[1].word[i] = 0
  BY <1>2, <1>7, <1>8, <1>9
<1>14. \A b \in Blocks, i \in 1..Last, c \in Blocks : ~Points(disk', b, i, c)
  <2> SUFFICES ASSUME NEW b \in Blocks, NEW i \in 1..Last, NEW c \in Blocks, Points(disk', b, i, c) PROVE FALSE
    OBVIOUS
  <2>1. b = 1
    BY <1>12 DEF Points
  <2>2. c # 0 /\ ((i \in Words /\ i >= 5 /\ disk'[1].word[i] = c) \/ (i = Last /\ disk'[1].next = c))
    <3>1. Points(disk', 1, i, c)
      BY <2>1
    <3>2. c # 0 /\ ((i \in Words /\ i >= From(disk', 1) /\ disk'[1].word[i] = c) \/ (i = Last /\ disk'[1].next = c))
      BY <3>1 DEF Points
    <3> QED BY <1>10, <3>2
  <2> QED BY <1>8, <1>9, <1>13, <2>2
<1>15. ChainOk(disk', freechain)
  <2>1. \A b \in Blocks : InChain(freechain, b) => b # 1
    BY <1>2, <1>4 DEF InChain
  <2> QED BY <1>4, <1>9, <2>1 DEF ChainOk
<1>16. Exclusive(disk', freechain)
  <2>1. \A b \in Blocks, i \in Words : disk'[b].kind \in Meta /\ i >= From(disk', b) => disk'[b].word[i] \in Blocks
    BY <1>2, <1>10, <1>12, <1>13
  <2> QED BY <1>14, <2>1 DEF Exclusive
<1>17. disk'[0].kind = "blank"
  <2>1. disk[0].kind = "blank"
    BY <1>1 DEF VolumeInv, ZeroOk
  <2> QED BY <1>2, <1>9, <2>1
<1>18. Good(disk', freechain')
  BY <1>1, <1>8, <1>9, <1>10, <1>15, <1>16, <1>17 DEF Good
<1>19. TypeOK' /\ JobType'
  <2>1. JobType'
    BY <1>1, <1>2 DEF JobType, Idle
  <2>2. disk' \in [Blocks -> [kind: Kinds, word: [Words -> Nat], next: Blocks, text: Nat \X Nat]]
    BY <1>9 DEF Disks, BlockTypes
  <2>3. stage' \in Stages
    BY <1>1 DEF Stages
  <2>4. /\ job'.what \in Named \cup {"none"} /\ job'.left \in Nat /\ job'.plain \in BOOLEAN
        /\ {job'.parent, job'.block, job'.at, job'.meta, job'.cont} \subseteq Blocks
    BY <2>1 DEF JobType
  <2> QED BY <1>1, <1>2, <2>1, <2>2, <2>3, <2>4, Types DEF TypeOK
<1>20. FormatOk' /\ Ready' /\ JobOk' /\ PlainOk' /\ FilingOk'
  BY <1>3, <1>18 DEF FormatOk, Ready, JobOk, PlainOk, FilingOk
<1>21. LinksOk'
  <2>1. \A b \in Blocks : disk'[b].kind \notin Cont
    BY <1>8, <1>9, <1>11 DEF Cont
  <2>2. Last \in 1..Last
    BY <1>2
  <2> QED BY <1>14, <2>1, <2>2 DEF LinksOk
<1>22. FilesOk' /\ AddedOk'
  <2>1. \A b \in Blocks : disk'[b].kind # "file"
    BY <1>8, <1>9, <1>11
  <2> QED BY <1>1, <1>4, <2>1 DEF FilesOk, AddedOk
<1>23. Described'
  <2> SUFFICES ASSUME ~broken PROVE Described'
    BY <1>1 DEF Described
  <2>1. \A c \in 2..N : InChain(freechain', c)
    BY <1>1, <1>2, <1>4 DEF InChain
  <2>2. \A b \in Blocks : disk'[b].kind \in Named => WellNamed(disk', b)
    BY <1>10, <1>12 DEF Meta
  <2> QED BY <1>1, <1>14, <2>1, <2>2 DEF Described
<1>24. ZeroOk'
  BY <1>17 DEF ZeroOk
<1> QED BY <1>19, <1>20, <1>21, <1>22, <1>23, <1>24 DEF VolumeInv

\* At first there is nothing to keep.
LEMMA InitInv ==
  ASSUME Init
  PROVE  VolumeInv
<1>1. /\ disk = [b \in Blocks |-> Blank] /\ freechain = 0 /\ stage = "format"
      /\ job = [Idle EXCEPT !.at = N] /\ faults = 0 /\ broken = FALSE /\ added = {}
  BY DEF Init
<1>2. N \in Nat /\ N \in Blocks /\ N \in 1..N /\ 0 \in Blocks /\ MaxFaults \in Nat
  BY Sizes
<1>3. job = [what |-> "none", parent |-> 0, namelen |-> 0, left |-> 0, block |-> 0,
             at |-> N, meta |-> 0, cont |-> 0, plain |-> TRUE]
  <2>1. Idle = [what |-> "none", parent |-> 0, namelen |-> 0, left |-> 0, block |-> 0,
                at |-> 0, meta |-> 0, cont |-> 0, plain |-> TRUE]
    BY DEF Idle
  <2> QED BY <1>1, <2>1
<1>4. disk \in Disks /\ \A b \in Blocks : disk[b].kind = "blank"
  <2>1. Blank.kind = "blank"
    BY DEF Blank
  <2> QED BY <1>1, <2>1, FormatBlocks DEF Disks
<1>5. TypeOK /\ JobType
  <2>1. JobType
    BY <1>2, <1>3 DEF JobType
  <2>2. /\ job.what \in Named \cup {"none"} /\ job.left \in Nat /\ job.plain \in BOOLEAN
        /\ {job.parent, job.block, job.at, job.meta, job.cont} \subseteq Blocks
    BY <2>1 DEF JobType
  <2>3. stage \in Stages /\ faults \in 0..MaxFaults
    BY <1>1, <1>2 DEF Stages
  <2> QED BY <1>1, <1>2, <1>4, <2>1, <2>2, <2>3 DEF TypeOK, Disks, BlockTypes
<1>6. Formatting /\ ~Busy /\ ~Filing
  BY <1>1 DEF Formatting, Busy, Filing, Entering
<1>7. FormatOk
  <2>1. (N + 1) % (N + 1) = 0 /\ N + 1..N = {}
    BY <1>2, Following
  <2> QED BY <1>1, <1>2, <1>3, <1>4, <2>1 DEF FormatOk
<1>8. Ready /\ LinksOk /\ FilesOk /\ JobOk /\ PlainOk /\ AddedOk /\ FilingOk /\ Described /\ ZeroOk
  BY <1>1, <1>2, <1>4, <1>6 DEF Ready, LinksOk, FilesOk, JobOk, PlainOk, AddedOk, FilingOk, Described, ZeroOk
<1> QED BY <1>5, <1>7, <1>8 DEF VolumeInv

-----------------------------------------------------------------------------
(* Calls that write                                                          *)

\* A block is written from scratch.
LEMMA WriteFacts ==
  ASSUME VolumeInv, ~Formatting, NEW b \in 2..N, ~InChain(freechain, b), NEW v \in BlockTypes,
         Written(disk, disk', b, v), freechain' = freechain,
         \A i \in 1..Last, c \in Blocks : ~Points(disk, b, i, c),
         v.kind \in Meta => v.next = 0 /\ \A i \in Words : i >= From(disk', b) => v.word[i] = 0
  PROVE  /\ disk' \in Disks /\ Good(disk', freechain') /\ disk'[b] = v /\ b \in Blocks
         /\ \A x \in Blocks, i \in 1..Last, c \in Blocks : Points(disk', x, i, c) <=> Points(disk, x, i, c)
         /\ \A x \in Blocks : x # b => /\ disk'[x] = disk[x] /\ From(disk', x) = From(disk, x)
                                       /\ (WellNamed(disk', x) <=> WellNamed(disk, x))
                                       /\ Keeps(disk, disk', x)
<1>1. disk \in Disks /\ Good(disk, freechain)
  BY Types DEF VolumeInv, Ready
<1>2. /\ disk' \in Disks /\ Good(disk', freechain) /\ disk'[b] = v
      /\ \A x \in Blocks, i \in 1..Last, c \in Blocks : Points(disk', x, i, c) <=> Points(disk, x, i, c)
      /\ \A x \in Blocks : x # b => /\ disk'[x] = disk[x] /\ From(disk', x) = From(disk, x)
                                    /\ (WellNamed(disk', x) <=> WellNamed(disk, x))
  <2>1. PICK d : d = disk
    OBVIOUS
  <2>2. PICK e : e = disk'
    OBVIOUS
  <2>3. PICK h : h = freechain
    OBVIOUS
  <2>4. /\ d \in Disks /\ Good(d, h) /\ ~InChain(h, b) /\ Written(d, e, b, v)
        /\ \A i \in 1..Last, c \in Blocks : ~Points(d, b, i, c)
        /\ v.kind \in Meta => v.next = 0 /\ \A i \in Words : i >= From(e, b) => v.word[i] = 0
    BY <1>1, <2>1, <2>2, <2>3
  <2>5. /\ e \in Disks /\ Good(e, h) /\ e[b] = v
        /\ \A x \in Blocks, i \in 1..Last, c \in Blocks : Points(e, x, i, c) <=> Points(d, x, i, c)
        /\ \A x \in Blocks : x # b => /\ e[x] = d[x] /\ From(e, x) = From(d, x)
                                      /\ (WellNamed(e, x) <=> WellNamed(d, x))
    BY <2>4, Filled
  <2> QED BY <2>1, <2>2, <2>3, <2>5
<1>3. \A x \in Blocks : x # b => Keeps(disk, disk', x)
  BY <1>2 DEF Keeps
<1>4. b \in Blocks
  BY Sizes
<1> QED BY <1>2, <1>3, <1>4

\* The list of who names whom is the same.
LEMMA SameLists ==
  ASSUME NEW d, NEW e,
         \A x \in Blocks, i \in 1..Last, c \in Blocks : Points(e, x, i, c) <=> Points(d, x, i, c)
  PROVE  \A x \in Blocks, c \in Blocks : Listed(e, x, c) <=> Listed(d, x, c)
<1>1. \A i \in Words : i \in 1..Last
  BY Sizes
<1> QED BY <1>1 DEF Listed

\* What was added is not in the block that a call writes.
LEMMA RestKept ==
  ASSUME VolumeInv, Busy, disk' \in Disks, freechain' = freechain,
         \A x \in Blocks : \/ Keeps(disk, disk', x)
                           \/ /\ x = job.block \/ disk[x].kind \notin Named
                              /\ disk[x].kind \notin {"payload", "raw"} \/ disk[x].text = NoText
  PROVE  /\ \A g \in added : /\ Stored(disk', freechain', g)
                             /\ Complete(g.parent) => Listed(disk', g.parent, g.block)
         /\ added' = added /\ job'.block = job.block => AddedOk'
<1>1. ~Formatting
  BY DEF Busy
<1>2. ASSUME NEW g \in added
      PROVE  Stored(disk', freechain', g) /\ (Complete(g.parent) => Listed(disk', g.parent, g.block))
  <2>1. Stored(disk, freechain, g) /\ g.block # job.block /\ g.parent # job.block
    BY DEF VolumeInv, AddedOk
  <2>2. /\ g.block \in Blocks /\ g.parent \in Blocks
        /\ disk[g.block].kind \in Named /\ disk[g.parent].kind \in Named
    BY <2>1, Sizes DEF Stored
  <2>3. Keeps(disk, disk', g.block) /\ Keeps(disk, disk', g.parent)
    BY <2>1, <2>2
  <2> QED BY <1>1, <2>3, AddedKept
<1>3. ASSUME added' = added, job'.block = job.block PROVE AddedOk'
  <2>1. \A p : Complete(p)' <=> Complete(p)
    BY <1>3 DEF Complete
  <2> QED BY <1>2, <1>3, <2>1 DEF VolumeInv, AddedOk
<1> QED BY <1>2, <1>3

\* initMeta() of the file or directory.
LEMMA InitMetaKeeps ==
  ASSUME VolumeInv, InitMeta
  PROVE  VolumeInv'
<1> DEFINE v == [Blank EXCEPT !.kind = job.what]
<1>1. /\ stage = "init" /\ stage' = "name" /\ disk' = [disk EXCEPT ![job.block] = v]
      /\ UNCHANGED <<freechain, job, faults, broken, added>>
  BY DEF InitMeta, Put, history
<1>2. Busy /\ ~Formatting /\ ~Entering /\ ~Filing /\ Busy' /\ ~Formatting' /\ ~Entering' /\ ~Filing' /\ ~Writing'
  BY <1>1 DEF Formatting, Busy, Writing, Filing, Entering
<1>3. /\ disk \in Disks /\ Good(disk, freechain) /\ job.what \in Named /\ job.meta = job.block
      /\ job.block \in 2..N /\ ~InChain(freechain, job.block) /\ disk[job.block].kind = "free"
      /\ \A b \in Blocks : ~Points(disk, b, Last, job.block)
  BY <1>1, <1>2, Types DEF VolumeInv, Ready, JobOk
<1>4. v \in BlockTypes /\ v.kind = job.what /\ v.word = Zero /\ v.next = 0 /\ v.text = NoText
  <2>1. Blank = [kind |-> "blank", word |-> Zero, next |-> 0, text |-> NoText]
    BY DEF Blank
  <2>2. v = [kind |-> job.what, word |-> Zero, next |-> 0, text |-> NoText]
    BY <2>1
  <2>3. job.what \in Kinds /\ 0 \in Blocks
    BY <1>3, Sizes DEF Kinds, Meta
  <2> HIDE DEF v
  <2> QED BY <2>2, <2>3, FormatBlocks DEF BlockTypes
<1> HIDE DEF v
<1>5. \A i \in 1..Last, c \in Blocks : ~Points(disk, job.block, i, c)
  BY <1>3 DEF Points, Meta, Named, Cont
<1>6. /\ disk' \in Disks /\ Good(disk', freechain') /\ disk'[job.block] = v /\ job.block \in Blocks
      /\ \A x \in Blocks, i \in 1..Last, c \in Blocks : Points(disk', x, i, c) <=> Points(disk, x, i, c)
      /\ \A x \in Blocks : x # job.block => /\ disk'[x] = disk[x] /\ From(disk', x) = From(disk, x)
                                            /\ (WellNamed(disk', x) <=> WellNamed(disk, x))
                                            /\ Keeps(disk, disk', x)
  <2>1. Written(disk, disk', job.block, v)
    BY <1>1 DEF Written
  <2> QED BY <1>1, <1>2, <1>3, <1>4, <1>5, <2>1, FormatBlocks, WriteFacts
<1>7. TypeOK' /\ JobType'
  <2>1. stage' \in Stages
    BY <1>1 DEF Stages
  <2> QED BY <1>1, <1>6, <2>1 DEF VolumeInv, TypeOK, JobType, Disks, BlockTypes
<1>8. FormatOk' /\ Ready' /\ ZeroOk' /\ FilingOk'
  BY <1>2, <1>6 DEF FormatOk, Ready, ZeroOk, Good, FilingOk
<1>9. LinksOk'
  <2>1. Last \in 1..Last
    BY Sizes
  <2>2. \A c \in Blocks : c # job.block => disk'[c].kind = disk[c].kind
    BY <1>6
  <2>3. disk'[job.block].kind \notin Cont
    BY <1>3, <1>4, <1>6 DEF Named, Cont
  <2> QED BY <1>2, <1>3, <1>6, <2>1, <2>2, <2>3 DEF VolumeInv, LinksOk
<1>10. JobOk'
  <2>1. ~InChain(freechain', job.block)
    BY <1>1, <1>3
  <2> QED BY <1>1, <1>2, <1>3, <1>6, <2>1 DEF VolumeInv, JobOk, v
<1>11. FilesOk'
  <2> SUFFICES ASSUME NEW b \in Blocks, disk'[b].kind = "file"
               PROVE  IF WellNamed(disk', b)
                      THEN disk'[b].word[From(disk', b)] # 0 =>
                             /\ disk'[b].word[From(disk', b)] \in 2..N
                             /\ disk'[disk'[b].word[From(disk', b)]].text \in {NoText, <<b, 0>>}
                      ELSE disk'[b].word = Zero
    BY DEF FilesOk
  <2>1. CASE b = job.block
    <3>1. disk'[b].word[3] = 0
      BY <1>4, <1>6, <2>1, FormatBlocks, Sizes
    <3>2. ~WellNamed(disk', b)
      BY <3>1 DEF WellNamed
    <3> QED BY <1>4, <1>6, <2>1, <3>2
  <2>2. CASE b # job.block
    <3>1. disk'[b] = disk[b] /\ From(disk', b) = From(disk, b) /\ (WellNamed(disk', b) <=> WellNamed(disk, b))
      BY <1>6, <2>2
    <3>2. CASE WellNamed(disk, b)
      <4>1. PICK p : p = disk[b].word[From(disk, b)]
        OBVIOUS
      <4>2. p # 0 => p \in 2..N /\ disk[p].text \in {NoText, <<b, 0>>}
        BY <1>2, <3>1, <3>2, <4>1 DEF VolumeInv, FilesOk
      <4>3. p \in 2..N => p \in Blocks
        BY Sizes
      <4>4. p # 0 => disk'[p].text \in {NoText, <<b, 0>>}
        BY <1>4, <1>6, <4>2, <4>3
      <4> QED BY <3>1, <3>2, <4>1, <4>2, <4>4
    <3>3. CASE ~WellNamed(disk, b)
      BY <1>2, <3>1, <3>3 DEF VolumeInv, FilesOk
    <3> QED BY <3>2, <3>3
  <2> QED BY <2>1, <2>2
<1>12. Described'
  <2> SUFFICES ASSUME ~broken PROVE Described'
    BY <1>1 DEF Described
  <2>1. \A c \in Blocks : Future(c)' = Future(c)
    BY <1>1, <1>4, <1>6 DEF Future
  <2>2. Pending' = Pending
    BY <1>1, <1>2 DEF Pending
  <2>3. \A b \in Blocks, i \in 1..Last, c \in Blocks : Points(disk', b, i, c) => disk'[b].kind = disk[b].kind
    BY <1>5, <1>6
  <2>4. /\ \A c \in 2..N : \/ InChain(freechain', c) \/ c \in Pending'
                           \/ \E b \in Blocks, i \in 1..Last : Points(disk', b, i, c)
    <3>1. \A c \in 2..N : c \in Blocks
      BY Sizes
    <3> QED BY <1>1, <1>2, <1>6, <2>2, <3>1 DEF VolumeInv, Described
  <2>5. \A b \in Blocks, i \in 1..Last, c \in Blocks :
          Points(disk', b, i, c) => Future(c)' \in Expected(disk'[b].kind, i)
    BY <1>2, <1>6, <2>1, <2>3 DEF VolumeInv, Described
  <2>6. \A b \in Blocks : disk'[b].kind \in Named => WellNamed(disk', b) \/ b = job.block
    BY <1>1, <1>2, <1>6 DEF VolumeInv, Described
  <2> QED BY <1>1, <2>4, <2>5, <2>6 DEF Described
<1>13. AddedOk'
  <2>1. disk[job.block].kind \notin {"payload", "raw"}
    BY <1>3
  <2> QED BY <1>1, <1>2, <1>6, <2>1, RestKept
<1>14. PlainOk'
  <2> SUFFICES ASSUME job.plain PROVE PlainOk'
    BY <1>1 DEF PlainOk
  <2>1. \A p : Complete(p)' <=> Complete(p)
    BY <1>1 DEF Complete
  <2>2. /\ job.parent \in Blocks /\ disk[job.parent].kind \in Named /\ job.parent # job.block
        /\ Complete(job.parent) => Listed(disk, job.parent, job.block)
    BY <1>1, <1>2 DEF VolumeInv, PlainOk
  <2>3. Listed(disk', job.parent, job.block) <=> Listed(disk, job.parent, job.block)
    <3>1. \A x \in Blocks, c \in Blocks : Listed(disk', x, c) <=> Listed(disk, x, c)
      BY <1>6, SameLists
    <3> QED BY <1>6, <2>2, <3>1
  <2>4. disk'[job.parent].kind \in Named
    BY <1>6, <2>2
  <2> QED BY <1>1, <1>2, <2>1, <2>2, <2>3, <2>4 DEF PlainOk
<1> QED BY <1>7, <1>8, <1>9, <1>10, <1>11, <1>12, <1>13, <1>14 DEF VolumeInv

\* The call that returns true leaves what it has added.
LEMMA DoneKeeps ==
  ASSUME VolumeInv, Busy, Done, disk' \in Disks, freechain' = freechain, faults' = faults, broken' = broken,
         Ready', ZeroOk', LinksOk', FilesOk', Described',
         \A g \in added : /\ Stored(disk', freechain', g)
                          /\ Complete(g.parent) => Listed(disk', g.parent, g.block),
         NEW r, r = [what |-> job.what, parent |-> job.parent, block |-> job.block,
                     chunks |-> disk[job.block].word[1]],
         job.plain => /\ Stored(disk', freechain', r)
                      /\ Complete(job.parent) => Listed(disk', job.parent, job.block)
  PROVE  VolumeInv'
<1>1. stage' = "idle" /\ job' = Idle /\ added' = IF job.plain THEN added \cup {r} ELSE added
  BY DEF Done
<1>2. ~Formatting' /\ ~Busy' /\ ~Filing'
  BY <1>1 DEF Formatting, Busy, Filing, Entering
<1>3. TypeOK' /\ JobType'
  <2>1. 0 \in Blocks
    BY Sizes
  <2>2. JobType'
    BY <1>1, <2>1 DEF JobType, Idle
  <2>3. /\ job'.what \in Named \cup {"none"} /\ job'.left \in Nat /\ job'.plain \in BOOLEAN
        /\ {job'.parent, job'.block, job'.at, job'.meta, job'.cont} \subseteq Blocks
    BY <2>2 DEF JobType
  <2>4. stage' \in Stages
    BY <1>1 DEF Stages
  <2> QED BY <2>2, <2>3, <2>4, Types DEF TypeOK, Disks, BlockTypes
<1>4. FormatOk' /\ JobOk' /\ FilingOk' /\ PlainOk'
  BY <1>2 DEF FormatOk, JobOk, FilingOk, PlainOk
<1>5. AddedOk'
  <2>1. \A p : Complete(p)' => Complete(p) \/ p = job.block
    BY <1>1 DEF Complete
  <2>2. ASSUME NEW g \in added
        PROVE  Stored(disk', freechain', g) /\ (Complete(g.parent)' => Listed(disk', g.parent, g.block))
    BY <2>1 DEF VolumeInv, AddedOk
  <2>3. ASSUME job.plain
        PROVE  Stored(disk', freechain', r) /\ (Complete(r.parent)' => Listed(disk', r.parent, r.block))
    <3>1. job.parent # job.block /\ r.parent = job.parent /\ r.block = job.block
      BY <2>3 DEF VolumeInv, PlainOk
    <3> QED BY <2>1, <2>3, <3>1
  <2> QED BY <1>1, <1>2, <2>2, <2>3 DEF AddedOk
<1> QED BY <1>3, <1>4, <1>5 DEF VolumeInv

\* updateMeta(): the file or directory gets its name; a directory is done.
LEMMA UpdateMetaKeeps ==
  ASSUME VolumeInv, UpdateMeta
  PROVE  VolumeInv'
<1> DEFINE w == [i \in Words |-> CASE i = 1 -> job.left
                                   [] i = 3 -> job.namelen
                                   [] i \in 4..3 + Rounded(job.namelen) -> NameWord
                                   [] OTHER -> disk[job.block].word[i]]
           v == [disk[job.block] EXCEPT !.word = w]
<1>1. /\ stage = "name" /\ disk' = [disk EXCEPT ![job.block] = v]
      /\ UNCHANGED <<freechain, faults, broken>>
      /\ IF job.what = "dir" THEN Done ELSE stage' = "data" /\ UNCHANGED <<job, added>>
  BY DEF UpdateMeta, Put
<1>2. Busy /\ ~Formatting /\ ~Entering /\ ~Filing /\ ~Formatting' /\ ~Entering' /\ ~Writing'
      /\ stage' \in {"idle", "data"}
  BY <1>1 DEF Formatting, Busy, Writing, Filing, Entering, Done
<1>3. /\ disk \in Disks /\ Good(disk, freechain) /\ job.what \in Named /\ job.meta = job.block
      /\ job.block \in 2..N /\ ~InChain(freechain, job.block) /\ job.left \in Nat
      /\ disk[job.block] = [Blank EXCEPT !.kind = job.what] /\ job.namelen \in NameLens
  BY <1>1, <1>2, Types DEF VolumeInv, Ready, JobOk
<1>4. /\ disk[job.block].kind = job.what /\ disk[job.block].word = Zero /\ disk[job.block].next = 0
      /\ disk[job.block].text = NoText /\ job.block \in Blocks /\ disk[job.block] \in BlockTypes
  <2>1. job.block \in Blocks
    BY <1>3, Sizes
  <2> QED BY <1>3, <2>1, DiskTypes DEF Blank
<1>5. PICK r : r = Rounded(job.namelen)
  OBVIOUS
<1>6. /\ job.namelen \in 1..4 * (Last - 5) /\ job.namelen \in Nat /\ r \in 1..Last - 5 /\ Last \in Nat
      /\ Last >= 6 /\ Words = 1..Last - 1 /\ NameWord \in Nat /\ NameWord # 0
  BY <1>3, <1>5, Sizes, Roundings
<1>7. w \in [Words -> Nat]
  <2> SUFFICES ASSUME NEW i \in Words PROVE w[i] \in Nat
    OBVIOUS
  <2> QED BY <1>3, <1>4, <1>6, FormatBlocks
<1>8. w[1] = job.left /\ w[3] = job.namelen /\ (\A i \in 4..3 + r : w[i] = NameWord)
      /\ (\A i \in Words : i >= 4 + r => w[i] = 0)
  <2>1. w[1] = job.left /\ w[3] = job.namelen
    BY <1>6
  <2>2. ASSUME NEW i \in 4..3 + r PROVE w[i] = NameWord
    <3>1. i \in Words /\ i # 1 /\ i # 3
      BY <1>6
    <3> QED BY <1>5, <3>1
  <2>3. ASSUME NEW i \in Words, i >= 4 + r PROVE w[i] = 0
    <3>1. i # 1 /\ i # 3 /\ i \notin 4..3 + r
      BY <1>6, <2>3
    <3>2. w[i] = disk[job.block].word[i]
      BY <1>5, <3>1
    <3> QED BY <1>4, <3>2, FormatBlocks
  <2> QED BY <2>1, <2>2, <2>3
<1> HIDE DEF w
<1>9. v \in BlockTypes /\ v.kind = job.what /\ v.word = w /\ v.next = 0 /\ v.text = NoText
  BY <1>4, <1>7 DEF BlockTypes
<1> HIDE DEF v
<1>10. \A i \in 1..Last, c \in Blocks : ~Points(disk, job.block, i, c)
  BY <1>4, FormatBlocks DEF Points
<1>11. disk'[job.block] = v
  BY <1>1, <1>3, <1>4 DEF Disks
<1>12. From(disk', job.block) = 4 + r /\ WellNamed(disk', job.block)
  BY <1>3, <1>5, <1>6, <1>8, <1>9, <1>11 DEF From, WellNamed
<1>13. \A i \in Words : i >= From(disk', job.block) => v.word[i] = 0
  BY <1>8, <1>9, <1>12
<1>14. /\ disk' \in Disks /\ Good(disk', freechain')
       /\ \A x \in Blocks, i \in 1..Last, c \in Blocks : Points(disk', x, i, c) <=> Points(disk, x, i, c)
       /\ \A x \in Blocks : x # job.block => /\ disk'[x] = disk[x] /\ From(disk', x) = From(disk, x)
                                             /\ (WellNamed(disk', x) <=> WellNamed(disk, x))
                                             /\ Keeps(disk, disk', x)
  <2>1. Written(disk, disk', job.block, v)
    BY <1>1 DEF Written
  <2> QED BY <1>1, <1>2, <1>3, <1>9, <1>10, <1>13, <2>1, WriteFacts
<1>15. \A x \in Blocks : disk'[x].kind = disk[x].kind /\ disk'[x].text = disk[x].text
  BY <1>4, <1>9, <1>11, <1>14
<1>16. Ready' /\ ZeroOk'
  BY <1>14 DEF Ready, ZeroOk, Good
<1>17. LinksOk'
  <2>1. Last \in 1..Last
    BY <1>6
  <2> QED BY <1>2, <1>14, <1>15, <2>1 DEF VolumeInv, LinksOk
<1>18. disk'[job.block].word[From(disk', job.block)] = 0
  <2>1. 4 + r \in Words /\ 4 + r >= 4 + r
    BY <1>6
  <2> QED BY <1>9, <1>11, <1>12, <1>13, <2>1
<1>19. FilesOk'
  <2> SUFFICES ASSUME NEW b \in Blocks, disk'[b].kind = "file"
               PROVE  IF WellNamed(disk', b)
                      THEN disk'[b].word[From(disk', b)] # 0 =>
                             /\ disk'[b].word[From(disk', b)] \in 2..N
                             /\ disk'[disk'[b].word[From(disk', b)]].text \in {NoText, <<b, 0>>}
                      ELSE disk'[b].word = Zero
    BY DEF FilesOk
  <2>1. CASE b = job.block
    BY <1>12, <1>18, <2>1
  <2>2. CASE b # job.block
    <3>1. disk'[b] = disk[b] /\ From(disk', b) = From(disk, b) /\ (WellNamed(disk', b) <=> WellNamed(disk, b))
      BY <1>14, <2>2
    <3>2. \A p \in 2..N : p \in Blocks
      BY Sizes
    <3> QED BY <1>2, <1>15, <3>1, <3>2 DEF VolumeInv, FilesOk
  <2> QED BY <2>1, <2>2
<1>20. Described'
  <2> SUFFICES ASSUME ~broken PROVE Described'
    BY <1>1 DEF Described
  <2>1. \A c \in Blocks : Future(c)' = Future(c)
    BY <1>1, <1>2, <1>15 DEF Future
  <2>2. Pending' = Pending
    BY <1>1, <1>2 DEF Pending
  <2>3. \A c \in 2..N : \/ InChain(freechain', c) \/ c \in Pending'
                        \/ \E b \in Blocks, i \in 1..Last : Points(disk', b, i, c)
    <3>1. \A c \in 2..N : c \in Blocks
      BY Sizes
    <3> QED BY <1>1, <1>2, <1>14, <2>2, <3>1 DEF VolumeInv, Described
  <2>4. \A b \in Blocks, i \in 1..Last, c \in Blocks :
          Points(disk', b, i, c) => Future(c)' \in Expected(disk'[b].kind, i)
    BY <1>2, <1>14, <1>15, <2>1 DEF VolumeInv, Described
  <2>5. \A b \in Blocks : disk'[b].kind \in Named => WellNamed(disk', b)
    BY <1>1, <1>2, <1>12, <1>14 DEF VolumeInv, Described
  <2> QED BY <1>2, <2>3, <2>4, <2>5 DEF Described
<1>21. /\ \A g \in added : /\ Stored(disk', freechain', g)
                           /\ Complete(g.parent) => Listed(disk', g.parent, g.block)
       /\ added' = added /\ job'.block = job.block => AddedOk'
  <2>1. disk[job.block].kind \notin {"payload", "raw"}
    BY <1>3, <1>4 DEF Named
  <2> QED BY <1>1, <1>2, <1>14, <2>1, RestKept
<1>22. job.plain => /\ job.parent \in Blocks /\ disk'[job.parent].kind \in Named /\ job.parent # job.block
                    /\ Complete(job.parent) => Listed(disk', job.parent, job.block)
  <2> SUFFICES ASSUME job.plain
               PROVE  /\ job.parent \in Blocks /\ disk'[job.parent].kind \in Named /\ job.parent # job.block
                      /\ Complete(job.parent) => Listed(disk', job.parent, job.block)
    OBVIOUS
  <2>1. /\ job.parent \in Blocks /\ disk[job.parent].kind \in Named /\ job.parent # job.block
        /\ Complete(job.parent) => Listed(disk, job.parent, job.block)
    BY <1>1, <1>2 DEF VolumeInv, PlainOk
  <2>2. \A x \in Blocks, c \in Blocks : Listed(disk', x, c) <=> Listed(disk, x, c)
    BY <1>14, SameLists
  <2> QED BY <1>4, <1>15, <2>1, <2>2
<1>23. CASE job.what = "dir"
  <2> DEFINE g == [what |-> job.what, parent |-> job.parent, block |-> job.block,
                   chunks |-> disk[job.block].word[1]]
  <2>1. Done
    BY <1>1, <1>23
  <2>2. job.plain => Stored(disk', freechain', g)
    <3> SUFFICES ASSUME job.plain PROVE Stored(disk', freechain', g)
      OBVIOUS
    <3>1. g.what = "dir" /\ g.what \in Named /\ g.block = job.block /\ g.parent = job.parent /\ g.chunks = 0
      <4>1. disk[job.block].word[1] = 0
        BY <1>4, <1>6, FormatBlocks
      <4>2. /\ g.what = job.what /\ g.block = job.block /\ g.parent = job.parent
            /\ g.chunks = disk[job.block].word[1]
        OBVIOUS
      <4> HIDE DEF g
      <4>3. job.what \in Named
        BY <1>23 DEF Named
      <4> QED BY <1>23, <4>1, <4>2, <4>3
    <3>2. disk'[g.block].kind = g.what
      BY <1>4, <1>15, <3>1
    <3>3. g.block \in 2..N /\ ~InChain(freechain', g.block) /\ WellNamed(disk', g.block)
      BY <1>1, <1>3, <1>12, <3>1
    <3> HIDE DEF g
    <3> QED BY <1>22, <3>1, <3>2, <3>3 DEF Stored
  <2>3. PICK q : q = g
    OBVIOUS
  <2> QED BY <1>1, <1>2, <1>14, <1>16, <1>17, <1>19, <1>20, <1>21, <1>22, <2>1, <2>2, <2>3, DoneKeeps
<1>24. CASE job.what = "file"
  <2>1. stage' = "data" /\ UNCHANGED <<job, added>>
    BY <1>1, <1>24
  <2>2. Busy' /\ Filing' /\ ~Formatting'
    BY <2>1 DEF Busy, Filing, Formatting
  <2>3. TypeOK' /\ JobType'
    <3>1. stage' \in Stages
      BY <2>1 DEF Stages
    <3> QED BY <1>1, <1>14, <2>1, <3>1 DEF VolumeInv, TypeOK, JobType, Disks, BlockTypes
  <2>4. Finished' = 0 /\ First' = 4 + r /\ Finished' >= 0
    BY <1>3, <1>8, <1>9, <1>11, <1>12, <2>1 DEF Finished, First
  <2>5. FormatOk'
    BY <1>2 DEF FormatOk
  <2>6. AddedOk'
    BY <1>21, <2>1
  <2>7. JobOk'
    <3>1. disk'[job.block].kind = "file" /\ ~InChain(freechain', job.block)
      BY <1>1, <1>3, <1>4, <1>15, <1>24
    <3> QED BY <1>1, <1>2, <1>12, <1>24, <2>1, <3>1 DEF VolumeInv, JobOk
  <2>8. FilingOk'
    BY <1>2, <1>12, <1>18, <2>1, <2>4 DEF FilingOk
  <2>9. PlainOk'
    <3> SUFFICES ASSUME job.plain PROVE PlainOk'
      BY <2>1 DEF PlainOk
    <3>1. \A p : Complete(p)' <=> Complete(p)
      BY <2>1 DEF Complete
    <3>2. 0..Finished' - 1 = {}
      BY <2>4
    <3>3. \A i \in Words : i >= First' + Finished' => disk'[job'.block].word[i] = 0
      <4>1. First' + Finished' = 4 + r
        BY <1>6, <2>4
      <4> QED BY <1>9, <1>11, <1>12, <1>13, <2>1, <4>1
    <3> QED BY <1>2, <1>22, <2>1, <2>2, <3>1, <3>2, <3>3 DEF PlainOk
  <2> QED BY <1>16, <1>17, <1>19, <1>20, <2>3, <2>5, <2>6, <2>7, <2>8, <2>9 DEF VolumeInv
<1> QED BY <1>3, <1>23, <1>24 DEF Named

\* A payload block is written: nothing that is named changes.
LEMMA PayloadFacts ==
  ASSUME VolumeInv, Writing, NEW v \in BlockTypes, v.kind \in {"payload", "raw"},
         v.text \in {NoText, <<job.block, Finished>>},
         disk' = [disk EXCEPT ![job.meta] = v], freechain' = freechain,
         stage' \in {"contents", "data", "idle"}, broken' = broken, ~broken => v.kind = "payload",
         stage' = "contents" => job'.meta = job.meta
  PROVE  /\ disk' \in Disks /\ disk'[job.meta] = v /\ disk'[job.block] = disk[job.block]
         /\ From(disk', job.block) = From(disk, job.block) /\ WellNamed(disk', job.block)
         /\ \A x \in Blocks, i \in 1..Last, c \in Blocks : Points(disk', x, i, c) <=> Points(disk, x, i, c)
         /\ \A x \in Blocks : x # job.meta => disk'[x] = disk[x]
         /\ Ready' /\ ZeroOk' /\ LinksOk' /\ FilesOk' /\ FormatOk'
         /\ \A g \in added : /\ Stored(disk', freechain', g)
                             /\ Complete(g.parent) => Listed(disk', g.parent, g.block)
         /\ added' = added /\ job'.block = job.block => AddedOk'
         /\ \A c \in Nat : HasChunk(disk, job.block, c) => HasChunk(disk', job.block, c)
         /\ \A x \in Blocks, c \in Blocks : Listed(disk', x, c) <=> Listed(disk, x, c)
         /\ Described'
<1>1. Busy /\ Filing /\ ~Formatting /\ ~Entering /\ ~Formatting' /\ ~Entering' /\ stage \in {"payload", "contents"}
      /\ stage' # "init" /\ stage' # "name" /\ stage' # "payload" /\ stage' # "more" /\ stage # "init"
  BY DEF Formatting, Busy, Writing, Filing, Entering
<1>2. /\ disk \in Disks /\ Good(disk, freechain)
      /\ job.block \in 2..N /\ job.meta \in 2..N /\ ~InChain(freechain, job.meta) /\ job.meta # job.block
      /\ disk[job.block].kind = "file" /\ WellNamed(disk, job.block)
      /\ disk[job.meta].kind \in {"free", "payload"} /\ disk[job.meta].text = NoText
      /\ stage = "payload" => disk[job.meta].kind = "free"
  BY <1>1, Types DEF VolumeInv, Ready, JobOk
<1>3. job.block \in Blocks /\ job.meta \in Blocks /\ job.block # 0
  BY <1>2, Sizes
<1>4. disk[job.meta].kind \notin Meta /\ v.kind \notin Meta /\ disk[job.meta].kind \notin Named
  BY <1>2 DEF Meta, Named, Cont
<1>5. \A i \in 1..Last, c \in Blocks : ~Points(disk, job.meta, i, c)
  BY <1>4 DEF Points
<1>6. /\ disk' \in Disks /\ Good(disk', freechain') /\ disk'[job.meta] = v
      /\ \A x \in Blocks, i \in 1..Last, c \in Blocks : Points(disk', x, i, c) <=> Points(disk, x, i, c)
      /\ \A x \in Blocks : x # job.meta => /\ disk'[x] = disk[x] /\ From(disk', x) = From(disk, x)
                                           /\ (WellNamed(disk', x) <=> WellNamed(disk, x))
                                           /\ Keeps(disk, disk', x)
  <2>1. Written(disk, disk', job.meta, v)
    BY DEF Written
  <2> QED BY <1>1, <1>2, <1>4, <1>5, <2>1, WriteFacts
<1>7. Ready' /\ ZeroOk' /\ FormatOk'
  BY <1>1, <1>6 DEF Ready, ZeroOk, Good, FormatOk
<1>8. LinksOk'
  <2>1. Last \in 1..Last
    BY Sizes
  <2>2. \A c \in Blocks : c # job.meta => disk'[c].kind = disk[c].kind
    BY <1>6
  <2>3. disk'[job.meta].kind \notin Cont /\ disk'[job.meta].kind \notin Named
    BY <1>4, <1>6 DEF Meta
  <2> QED BY <1>1, <1>6, <2>1, <2>2, <2>3 DEF VolumeInv, LinksOk
<1>9. FilesOk'
  <2> SUFFICES ASSUME NEW b \in Blocks, disk'[b].kind = "file"
               PROVE  IF WellNamed(disk', b)
                      THEN disk'[b].word[From(disk', b)] # 0 =>
                             /\ disk'[b].word[From(disk', b)] \in 2..N
                             /\ disk'[disk'[b].word[From(disk', b)]].text \in {NoText, <<b, 0>>}
                      ELSE disk'[b].word = Zero
    BY DEF FilesOk
  <2>1. b # job.meta
    BY <1>6
  <2>2. disk'[b] = disk[b] /\ From(disk', b) = From(disk, b) /\ (WellNamed(disk', b) <=> WellNamed(disk, b))
    BY <1>6, <2>1
  <2>3. CASE ~WellNamed(disk, b)
    BY <1>1, <2>2, <2>3 DEF VolumeInv, FilesOk
  <2>4. CASE WellNamed(disk, b)
    <3>1. PICK p : p = disk[b].word[From(disk, b)]
      OBVIOUS
    <3>2. p # 0 => p \in 2..N /\ disk[p].text \in {NoText, <<b, 0>>}
      BY <1>1, <2>2, <2>4, <3>1 DEF VolumeInv, FilesOk
    <3>3. p \in 2..N => p \in Blocks /\ p # 0
      BY Sizes
    <3>4. p = job.meta => v.text \in {NoText, <<b, 0>>}
      <4> SUFFICES ASSUME p = job.meta PROVE v.text \in {NoText, <<b, 0>>}
        OBVIOUS
      <4>1. From(disk, b) \in Words /\ From(disk, b) \in 1..Last /\ disk[b].kind \in Meta
        BY <1>2, <2>4, NamePlaces, Sizes
      <4>2. b \in 1..N
        BY <1>2, <4>1, NotMeta
      <4>3. Points(disk, b, From(disk, b), job.meta)
        <5>1. From(disk, b) \in Nat
          BY <1>2, DiskTypes
        <5> QED BY <3>1, <3>3, <1>2, <4>1, <4>2, <5>1 DEF Points
      <4>4. PICK y \in Blocks, i \in Words : Points(disk, y, i, job.meta) /\ (y = job.block \/ disk[y].kind = "filecont")
        BY <1>1 DEF VolumeInv, FilingOk
      <4>5. i \in 1..Last
        BY Sizes
      <4>6. y = b
        BY <1>2, <1>3, <4>1, <4>3, <4>4, <4>5 DEF Good, Exclusive
      <4>7. b = job.block
        BY <2>2, <4>4, <4>6
      <4>8. Finished = 0
        BY <1>1, <3>1, <4>7 DEF VolumeInv, FilingOk, First
      <4> QED BY <4>7, <4>8
    <3>5. p # 0 => p \in 2..N /\ disk'[p].text \in {NoText, <<b, 0>>}
      <4>1. CASE p = job.meta
        BY <1>6, <3>2, <3>4, <4>1
      <4>2. CASE p # job.meta
        BY <1>6, <3>2, <3>3, <4>2
      <4> QED BY <4>1, <4>2
    <3> QED BY <2>2, <2>4, <3>1, <3>5
  <2> QED BY <2>3, <2>4
<1>10. /\ \A g \in added : /\ Stored(disk', freechain', g)
                           /\ Complete(g.parent) => Listed(disk', g.parent, g.block)
       /\ added' = added /\ job'.block = job.block => AddedOk'
  BY <1>1, <1>2, <1>4, <1>6, RestKept
<1>11. \A c \in Nat : HasChunk(disk, job.block, c) => HasChunk(disk', job.block, c)
  BY <1>2, <1>3, <1>6, ChunkKept
<1>12. \A x \in Blocks, c \in Blocks : Listed(disk', x, c) <=> Listed(disk, x, c)
  BY <1>6, SameLists
<1>13. Described'
  <2> SUFFICES ASSUME ~broken PROVE Described'
    BY DEF Described
  <2>1. \A c \in Blocks : Future(c)' = Future(c)
    <3>1. \A c \in Blocks : Future(c)' = disk'[c].kind
      BY <1>1 DEF Future
    <3>2. Future(job.meta) = "payload"
      BY <1>1 DEF Future, VolumeInv, Described
    <3>3. \A c \in Blocks : c # job.meta => Future(c) = disk[c].kind
      BY <1>1 DEF Future
    <3> QED BY <1>6, <3>1, <3>2, <3>3
  <2>2. Pending' = Pending
    BY <1>1 DEF Pending, Entering
  <2>3. \A b \in Blocks, i \in 1..Last, c \in Blocks : Points(disk', b, i, c) => disk'[b].kind = disk[b].kind
    BY <1>5, <1>6
  <2>4. \A c \in 2..N : \/ InChain(freechain', c) \/ c \in Pending'
                        \/ \E b \in Blocks, i \in 1..Last : Points(disk', b, i, c)
    <3>1. \A c \in 2..N : c \in Blocks
      BY Sizes
    <3> QED BY <1>1, <1>6, <2>2, <3>1 DEF VolumeInv, Described
  <2>5. \A b \in Blocks, i \in 1..Last, c \in Blocks :
          Points(disk', b, i, c) => Future(c)' \in Expected(disk'[b].kind, i)
    <3> SUFFICES ASSUME NEW b \in Blocks, NEW i \in 1..Last, NEW c \in Blocks, Points(disk', b, i, c)
                 PROVE  Future(c)' \in Expected(disk'[b].kind, i)
      OBVIOUS
    <3>1. Points(disk, b, i, c) /\ disk'[b].kind = disk[b].kind
      BY <1>6, <2>3
    <3>2. Future(c) \in Expected(disk[b].kind, i)
      BY <1>1, <3>1 DEF VolumeInv, Described
    <3> QED BY <2>1, <3>1, <3>2
  <2>6. \A b \in Blocks : disk'[b].kind \in Named => WellNamed(disk', b)
    BY <1>1, <1>4, <1>6 DEF VolumeInv, Described, Meta
  <2>7. stage' = "contents" => disk'[job'.meta].kind = "payload"
    BY <1>6
  <2> QED BY <1>1, <2>4, <2>5, <2>6, <2>7 DEF Described
<1>14. From(disk', job.block) = From(disk, job.block) /\ WellNamed(disk', job.block) /\ disk'[job.block] = disk[job.block]
  BY <1>2, <1>3, <1>6
<1> QED BY <1>6, <1>7, <1>8, <1>9, <1>10, <1>11, <1>12, <1>13, <1>14

\* initData(): the header of a payload block, or a write that fails without being noticed.
LEMMA InitDataKeeps ==
  ASSUME VolumeInv, InitData
  PROVE  VolumeInv'
<1> DEFINE v == [Blank EXCEPT !.kind = "payload"]
<1>1. /\ stage = "payload" /\ stage' = "contents" /\ UNCHANGED <<freechain, job, added>>
      /\ \/ disk' = [disk EXCEPT ![job.meta] = v] /\ UNCHANGED <<faults, broken>>
         \/ faults < MaxFaults /\ faults' = faults + 1 /\ broken' = TRUE /\ UNCHANGED disk
  BY DEF InitData, Put, Fault
<1>2. /\ Writing /\ Busy /\ Filing /\ ~Formatting /\ ~Entering
      /\ Writing' /\ Busy' /\ Filing' /\ ~Formatting' /\ ~Entering'
  BY <1>1 DEF Formatting, Busy, Writing, Filing, Entering
<1>3. /\ disk \in Disks /\ job.block \in Blocks /\ job.meta \in Blocks
      /\ disk[job.meta].kind = "free" /\ disk[job.meta].text = NoText
      /\ disk[job.block].kind = "file" /\ WellNamed(disk, job.block)
  BY <1>1, <1>2, Types DEF VolumeInv, JobOk
<1>4. v \in BlockTypes /\ v.kind = "payload" /\ v.text = NoText
  <2>1. Blank = [kind |-> "blank", word |-> Zero, next |-> 0, text |-> NoText]
    BY DEF Blank
  <2>2. v = [kind |-> "payload", word |-> Zero, next |-> 0, text |-> NoText]
    BY <2>1
  <2>3. "payload" \in Kinds /\ 0 \in Blocks
    BY Sizes DEF Kinds
  <2> HIDE DEF v
  <2> QED BY <2>2, <2>3, FormatBlocks DEF BlockTypes
<1> HIDE DEF v
<1>5. faults' \in 0..MaxFaults /\ broken' \in BOOLEAN
  <2>1. faults \in 0..MaxFaults /\ MaxFaults \in Nat
    BY Types, Sizes
  <2>2. broken \in BOOLEAN
    BY Types
  <2>3. CASE UNCHANGED <<faults, broken>>
    BY <2>1, <2>2, <2>3
  <2>4. CASE faults < MaxFaults /\ faults' = faults + 1 /\ broken' = TRUE
    <3>1. faults' \in 0..MaxFaults
      BY <2>1, <2>4
    <3> QED BY <2>4, <3>1
  <2> QED BY <1>1, <2>3, <2>4
<1>6. /\ disk' \in Disks /\ disk'[job.block] = disk[job.block]
      /\ From(disk', job.block) = From(disk, job.block) /\ WellNamed(disk', job.block)
      /\ \A x \in Blocks, i \in 1..Last, c \in Blocks : Points(disk', x, i, c) <=> Points(disk, x, i, c)
      /\ \A x \in Blocks : x # job.meta => disk'[x] = disk[x]
      /\ disk'[job.meta].kind \in {"free", "payload"} /\ disk'[job.meta].text = NoText
      /\ Ready' /\ ZeroOk' /\ LinksOk' /\ FilesOk' /\ FormatOk' /\ AddedOk' /\ Described'
      /\ \A c \in Nat : HasChunk(disk, job.block, c) => HasChunk(disk', job.block, c)
      /\ \A x \in Blocks, c \in Blocks : Listed(disk', x, c) <=> Listed(disk, x, c)
  <2>1. CASE disk' = [disk EXCEPT ![job.meta] = v] /\ UNCHANGED <<faults, broken>>
    <3>1. /\ v.kind \in {"payload", "raw"} /\ v.text \in {NoText, <<job.block, Finished>>}
          /\ stage' \in {"contents", "data", "idle"} /\ job'.meta = job.meta
          /\ disk' = [disk EXCEPT ![job.meta] = v] /\ freechain' = freechain /\ broken' = broken
      BY <1>1, <1>4, <2>1
    <3>2. /\ disk' \in Disks /\ disk'[job.meta] = v /\ disk'[job.block] = disk[job.block]
          /\ From(disk', job.block) = From(disk, job.block) /\ WellNamed(disk', job.block)
          /\ \A x \in Blocks, i \in 1..Last, c \in Blocks : Points(disk', x, i, c) <=> Points(disk, x, i, c)
          /\ \A x \in Blocks : x # job.meta => disk'[x] = disk[x]
          /\ Ready' /\ ZeroOk' /\ LinksOk' /\ FilesOk' /\ FormatOk'
          /\ added' = added /\ job'.block = job.block => AddedOk'
          /\ \A c \in Nat : HasChunk(disk, job.block, c) => HasChunk(disk', job.block, c)
          /\ \A x \in Blocks, c \in Blocks : Listed(disk', x, c) <=> Listed(disk, x, c)
          /\ Described'
      BY <1>2, <1>4, <3>1, PayloadFacts
    <3> QED BY <1>1, <1>4, <3>2
  <2>2. CASE broken' = TRUE /\ UNCHANGED disk
    <3>1. Ready' /\ FormatOk' /\ Described'
      BY <1>1, <1>2, <2>2 DEF VolumeInv, Ready, FormatOk, Described
    <3>2. LinksOk' /\ FilesOk' /\ AddedOk' /\ ZeroOk'
      <4>1. ASSUME NEW g \in added PROVE g.block # job'.block /\ g.parent # job'.block
        BY <1>1, <1>2 DEF VolumeInv, AddedOk
      <4> QED BY <1>1, <1>2, <2>2, <4>1, SameDisk
    <3> QED BY <1>3, <2>2, <3>1, <3>2
  <2> QED BY <1>1, <2>1, <2>2
<1>7. TypeOK' /\ JobType'
  <2>1. stage' \in Stages
    BY <1>1 DEF Stages
  <2> QED BY <1>1, <1>5, <1>6, <2>1 DEF VolumeInv, TypeOK, JobType, Disks, BlockTypes
<1>8. JobOk'
  <2>1. disk'[job.block].kind = "file"
    BY <1>3, <1>6
  <2> QED BY <1>1, <1>2, <1>6, <2>1 DEF VolumeInv, JobOk
<1>9. Finished' = Finished /\ First' = First
  BY <1>1, <1>6 DEF Finished, First
<1>10. FilingOk'
  <2>1. /\ Finished >= 0 /\ disk[job.block].word[First] # 0
        /\ disk[job.block].word[First] = job.meta <=> Finished = 0
    BY <1>2 DEF VolumeInv, FilingOk
  <2>2. \E b \in Blocks, i \in Words : Points(disk', b, i, job.meta) /\ (b = job.block \/ disk'[b].kind = "filecont")
    <3>1. PICK b \in Blocks, i \in Words : Points(disk, b, i, job.meta) /\ (b = job.block \/ disk[b].kind = "filecont")
      BY <1>2 DEF VolumeInv, FilingOk
    <3>2. i \in 1..Last
      BY Sizes
    <3>3. b # job.meta
      BY <1>3, <3>1 DEF Points, Meta, Named, Cont
    <3> QED BY <1>3, <1>6, <3>1, <3>2, <3>3
  <2> QED BY <1>1, <1>2, <1>6, <1>9, <2>1, <2>2 DEF FilingOk
<1>11. PlainOk'
  <2> SUFFICES ASSUME job.plain PROVE PlainOk'
    BY <1>1 DEF PlainOk
  <2>1. \A p : Complete(p)' <=> Complete(p)
    BY <1>1 DEF Complete
  <2>2. /\ job.parent \in Blocks /\ disk[job.parent].kind \in Named /\ job.parent # job.block
        /\ Complete(job.parent) => Listed(disk, job.parent, job.block)
        /\ \A c \in 0..Finished - 1 : HasChunk(disk, job.block, c)
        /\ First + Finished < Last /\ disk[job.block].word[First + Finished] = job.meta
        /\ \A i \in Words : i > First + Finished => disk[job.block].word[i] = 0
    BY <1>2 DEF VolumeInv, PlainOk
  <2>3. disk'[job.parent].kind \in Named
    <3>1. job.parent # job.meta
      BY <1>3, <2>2 DEF Named
    <3> QED BY <1>6, <2>2, <3>1
  <2>4. \A c \in 0..Finished - 1 : HasChunk(disk', job.block, c)
    <3>1. Finished \in Int
      <4>1. disk[job.block].word \in [Words -> Nat] /\ job.left \in Nat
        BY <1>3, Types, DiskTypes
      <4>2. disk[job.block].word[1] \in Nat
        BY <4>1, Sizes
      <4> QED BY <4>1, <4>2 DEF Finished
    <3>2. \A c \in 0..Finished - 1 : c \in Nat
      BY <3>1
    <3> QED BY <1>6, <2>2, <3>2
  <2> QED BY <1>1, <1>2, <1>3, <1>6, <1>9, <2>1, <2>2, <2>3, <2>4 DEF PlainOk
<1> QED BY <1>6, <1>7, <1>8, <1>10, <1>11 DEF VolumeInv

\* The contents of a payload block; the last one ends the call.
LEMMA PutDataKeeps ==
  ASSUME VolumeInv, PutData
  PROVE  VolumeInv'
<1> DEFINE u == IF disk[job.meta].kind = "payload" THEN "payload" ELSE "raw"
           v == [Blank EXCEPT !.kind = u, !.text = <<job.block, Finished>>]
<1>1. /\ stage = "contents" /\ disk' = [disk EXCEPT ![job.meta] = v]
      /\ UNCHANGED <<freechain, faults, broken>>
      /\ IF job.left = 1 THEN Done
         ELSE stage' = "data" /\ job' = [job EXCEPT !.left = job.left - 1] /\ UNCHANGED added
  BY DEF PutData, Put, Finished
<1>2. /\ Writing /\ Busy /\ Filing /\ ~Formatting /\ ~Entering /\ ~Writing' /\ ~Formatting' /\ ~Entering'
      /\ stage' \in {"contents", "data", "idle"} /\ stage' # "contents"
  BY <1>1 DEF Formatting, Busy, Writing, Filing, Entering, Done
<1>3. /\ disk \in Disks /\ job.block \in Blocks /\ job.meta \in Blocks /\ job.left \in Nat /\ JobType
      /\ job.left > 0 /\ job.what = "file" /\ job.namelen \in NameLens
      /\ job.block \in 2..N /\ ~InChain(freechain, job.block) /\ job.meta \in 2..N /\ ~InChain(freechain, job.meta)
      /\ disk[job.meta].kind \in {"free", "payload"} /\ disk[job.meta].text = NoText
      /\ disk[job.block].kind = "file" /\ WellNamed(disk, job.block)
  BY <1>1, <1>2, Types DEF VolumeInv, JobOk, Named
<1>4. PICK f : f = Finished
  OBVIOUS
<1>5. /\ f >= 0 /\ disk[job.block].word[First] # 0
      /\ disk[job.block].word[First] = job.meta <=> f = 0
  BY <1>2, <1>4 DEF VolumeInv, FilingOk
<1>6. f \in Nat /\ disk[job.block].word[1] = f + job.left /\ disk[job.block].word[1] \in Nat
  <2>1. disk[job.block].word \in [Words -> Nat]
    BY <1>3, DiskTypes
  <2>2. disk[job.block].word[1] \in Nat
    BY <2>1, Sizes
  <2> QED BY <1>3, <1>4, <1>5, <2>2 DEF Finished
<1>7. v \in BlockTypes /\ v.kind = u /\ v.text = <<job.block, f>> /\ u \in {"payload", "raw"}
  <2>1. Blank = [kind |-> "blank", word |-> Zero, next |-> 0, text |-> NoText]
    BY DEF Blank
  <2>2. u \in {"payload", "raw"}
    OBVIOUS
  <2>3. u \in Kinds /\ 0 \in Blocks /\ <<job.block, f>> \in Nat \X Nat
    BY <1>3, <1>6, <2>2, Sizes DEF Kinds
  <2> HIDE DEF u
  <2>4. v = [kind |-> u, word |-> Zero, next |-> 0, text |-> <<job.block, f>>]
    <3>1. PICK z : z = [Blank EXCEPT !.kind = u]
      OBVIOUS
    <3>2. z = [kind |-> u, word |-> Zero, next |-> 0, text |-> NoText]
      BY <2>1, <3>1
    <3>3. v = [z EXCEPT !.text = <<job.block, f>>]
      BY <1>4, <3>1
    <3> QED BY <3>2, <3>3
  <2> HIDE DEF v
  <2> QED BY <2>2, <2>3, <2>4, FormatBlocks DEF BlockTypes
<1>8. ~broken => u = "payload"
  BY <1>1, <1>2 DEF VolumeInv, Described
<1> HIDE DEF u
<1> HIDE DEF v
<1>9. /\ disk' \in Disks /\ disk'[job.meta] = v /\ disk'[job.block] = disk[job.block]
      /\ From(disk', job.block) = From(disk, job.block) /\ WellNamed(disk', job.block)
      /\ \A x \in Blocks : x # job.meta => disk'[x] = disk[x]
      /\ Ready' /\ ZeroOk' /\ LinksOk' /\ FilesOk' /\ FormatOk'
      /\ \A g \in added : /\ Stored(disk', freechain', g)
                          /\ Complete(g.parent) => Listed(disk', g.parent, g.block)
      /\ added' = added /\ job'.block = job.block => AddedOk'
      /\ \A c \in Nat : HasChunk(disk, job.block, c) => HasChunk(disk', job.block, c)
      /\ \A x \in Blocks, c \in Blocks : Listed(disk', x, c) <=> Listed(disk, x, c)
      /\ Described'
  <2>1. v.text \in {NoText, <<job.block, Finished>>} /\ v.kind \in {"payload", "raw"} /\ (~broken => v.kind = "payload")
    BY <1>4, <1>7, <1>8
  <2> QED BY <1>1, <1>2, <1>7, <2>1, PayloadFacts
\* The part that was written is there.
<1>10. job.plain => /\ First + f < Last /\ \A c \in 0..f : HasChunk(disk', job.block, c)
                    /\ \A i \in Words : i > First + f => disk'[job.block].word[i] = 0
                    /\ job.parent \in Blocks /\ disk'[job.parent].kind \in Named /\ job.parent # job.block
                    /\ Complete(job.parent) => Listed(disk', job.parent, job.block)
  <2> SUFFICES ASSUME job.plain
               PROVE  /\ First + f < Last /\ \A c \in 0..f : HasChunk(disk', job.block, c)
                      /\ \A i \in Words : i > First + f => disk'[job.block].word[i] = 0
                      /\ job.parent \in Blocks /\ disk'[job.parent].kind \in Named /\ job.parent # job.block
                      /\ Complete(job.parent) => Listed(disk', job.parent, job.block)
    OBVIOUS
  <2>1. /\ job.parent \in Blocks /\ disk[job.parent].kind \in Named /\ job.parent # job.block
        /\ Complete(job.parent) => Listed(disk, job.parent, job.block)
        /\ \A c \in 0..f - 1 : HasChunk(disk, job.block, c)
        /\ First + f < Last /\ disk[job.block].word[First + f] = job.meta
        /\ \A i \in Words : i > First + f => disk[job.block].word[i] = 0
    BY <1>2, <1>4 DEF VolumeInv, PlainOk
  <2>2. disk'[job.parent].kind \in Named
    <3>1. job.parent # job.meta
      BY <1>3, <2>1 DEF Named
    <3> QED BY <1>9, <2>1, <3>1
  <2>3. HasChunk(disk', job.block, f)
    <3>1. From(disk', job.block) = First
      BY <1>9 DEF First
    <3> QED BY <1>3, <1>7, <1>9, <2>1, <3>1 DEF HasChunk
  <2>4. \A c \in 0..f : HasChunk(disk', job.block, c)
    <3> SUFFICES ASSUME NEW c \in 0..f, c # f PROVE HasChunk(disk', job.block, c)
      BY <2>3
    <3>1. c \in Nat /\ c \in 0..f - 1
      BY <1>6
    <3> QED BY <1>9, <2>1, <3>1
  <2> QED BY <1>3, <1>9, <2>1, <2>2, <2>4
<1>11. CASE job.left = 1
  <2> DEFINE g == [what |-> job.what, parent |-> job.parent, block |-> job.block,
                   chunks |-> disk[job.block].word[1]]
  <2>1. Done
    BY <1>1, <1>11
  <2>2. job.plain => Stored(disk', freechain', g)
    <3> SUFFICES ASSUME job.plain PROVE Stored(disk', freechain', g)
      OBVIOUS
    <3>1. /\ g.what = "file" /\ g.what \in Named /\ g.block = job.block /\ g.parent = job.parent
          /\ g.chunks = f + 1
      BY <1>3, <1>6, <1>11 DEF Named
    <3>2. disk'[g.block].kind = g.what
      BY <1>3, <1>9, <3>1
    <3>3. g.block \in 2..N /\ ~InChain(freechain', g.block) /\ WellNamed(disk', g.block)
      BY <1>1, <1>3, <1>9, <3>1
    <3> HIDE DEF g
    <3>4. g.chunks \in Nat /\ 0..g.chunks - 1 = 0..f
      BY <1>6, <3>1
    <3> QED BY <1>10, <3>1, <3>2, <3>3, <3>4 DEF Stored
  <2>3. PICK q : q = g
    OBVIOUS
  <2> QED BY <1>1, <1>2, <1>9, <1>10, <2>1, <2>2, <2>3, DoneKeeps
<1>12. CASE job.left # 1
  <2>1. /\ stage' = "data" /\ added' = added /\ JobType'
        /\ job'.left = job.left - 1 /\ job'.what = job.what /\ job'.parent = job.parent
        /\ job'.namelen = job.namelen /\ job'.block = job.block /\ job'.at = job.at
        /\ job'.meta = job.meta /\ job'.cont = job.cont /\ job'.plain = job.plain
    <3>1. job' = [job EXCEPT !.left = job.left - 1] /\ job.left - 1 \in Nat
      BY <1>1, <1>3, <1>12
    <3> QED BY <1>1, <1>3, <1>12, <3>1 DEF JobType
  <2>2. Busy' /\ Filing' /\ job'.left > 0
    BY <1>3, <1>12, <2>1 DEF Busy, Filing, Formatting
  <2>3. TypeOK'
    <3>1. stage' \in Stages
      BY <2>1 DEF Stages
    <3> QED BY <1>1, <1>9, <2>1, <3>1 DEF VolumeInv, TypeOK, JobType, Disks, BlockTypes
  <2>4. Finished' = f + 1 /\ First' = First
    BY <1>3, <1>6, <1>9, <2>1 DEF Finished, First
  <2>5. AddedOk'
    BY <1>9, <2>1
  <2>6. JobOk'
    <3>1. disk'[job.block].kind = "file"
      BY <1>3, <1>9
    <3> QED BY <1>1, <1>2, <1>3, <1>9, <2>1, <2>2, <3>1 DEF JobOk, Named
  <2>7. FilingOk'
    <3>1. f + 1 >= 0 /\ f + 1 # 0
      BY <1>6
    <3> QED BY <1>2, <1>5, <1>9, <2>1, <2>4, <3>1 DEF FilingOk
  <2>8. PlainOk'
    <3> SUFFICES ASSUME job.plain PROVE PlainOk'
      BY <2>1 DEF PlainOk
    <3>1. \A p : Complete(p)' <=> Complete(p)
      BY <2>1 DEF Complete
    <3>2. \A c \in 0..Finished' - 1 : HasChunk(disk', job'.block, c)
      <4>1. 0..Finished' - 1 = 0..f
        BY <1>6, <2>4
      <4> QED BY <1>10, <2>1, <4>1
    <3>3. \A i \in Words : i >= First' + Finished' => disk'[job'.block].word[i] = 0
      <4>1. First \in Nat
        BY <1>3, DiskTypes DEF First
      <4>2. \A i \in Words : i \in Nat
        BY Sizes
      <4>3. \A i \in Words : i >= First' + Finished' => i > First + f
        BY <1>6, <2>4, <4>1, <4>2
      <4> QED BY <1>10, <2>1, <4>3
    <3> QED BY <1>2, <1>10, <2>1, <2>2, <3>1, <3>2, <3>3 DEF PlainOk
  <2> QED BY <1>9, <2>1, <2>3, <2>5, <2>6, <2>7, <2>8 DEF VolumeInv
<1> QED BY <1>11, <1>12

\* A write that leaves the words of the files alone.
LEMMA FilesKept ==
  ASSUME VolumeInv, ~Formatting,
         \A x \in Blocks : disk'[x].text \in {NoText, disk[x].text},
         \A x \in Blocks : disk'[x].kind = "file" =>
           /\ disk[x].kind = "file" /\ disk'[x].word = disk[x].word /\ From(disk', x) = From(disk, x)
           /\ (WellNamed(disk', x) <=> WellNamed(disk, x))
  PROVE  FilesOk'
<1> SUFFICES ASSUME NEW b \in Blocks, disk'[b].kind = "file"
             PROVE  IF WellNamed(disk', b)
                    THEN disk'[b].word[From(disk', b)] # 0 =>
                           /\ disk'[b].word[From(disk', b)] \in 2..N
                           /\ disk'[disk'[b].word[From(disk', b)]].text \in {NoText, <<b, 0>>}
                    ELSE disk'[b].word = Zero
  BY DEF FilesOk
<1>1. PICK p : p = disk[b].word[From(disk, b)]
  OBVIOUS
<1>2. IF WellNamed(disk, b) THEN p # 0 => p \in 2..N /\ disk[p].text \in {NoText, <<b, 0>>}
                            ELSE disk[b].word = Zero
  BY <1>1 DEF VolumeInv, FilesOk
<1>3. p \in 2..N => p \in Blocks
  BY Sizes
<1>4. disk'[b].word[From(disk', b)] = p
  BY <1>1
<1> QED BY <1>2, <1>3, <1>4

\* dirContinues()
LEMMA ContinueKeeps ==
  ASSUME VolumeInv, Continue
  PROVE  VolumeInv'
<1>1. /\ stage = "continue" /\ stage' = "more"
      /\ disk' = [disk EXCEPT ![job.at] = [disk[job.at] EXCEPT !.next = job.cont]]
      /\ UNCHANGED <<freechain, job, faults, broken, added>>
  BY DEF Continue, Put, history
<1>2. /\ Busy /\ ~Formatting /\ Entering /\ ~Writing /\ Busy' /\ ~Formatting' /\ Entering' /\ ~Writing'
      /\ (Filing' <=> Filing)
  BY <1>1 DEF Formatting, Busy, Writing, Filing, Entering
<1>3. /\ disk \in Disks /\ Good(disk, freechain) /\ JobType /\ job.at \in Blocks /\ job.cont \in Blocks
      /\ job.meta \in Blocks /\ job.block \in Blocks
      /\ disk[job.at].next = 0 /\ Unnamed(disk, freechain, job.cont) /\ Unnamed(disk, freechain, job.meta)
      /\ job.cont # job.meta /\ ~job.plain /\ disk[job.cont].kind = "free" /\ ValidType(job.at, Into)
  BY <1>1, <1>2, Types DEF VolumeInv, Ready, JobOk
<1>4. disk[job.at].kind \in Meta /\ job.at \in 1..N
  <2>1. disk[job.at].kind \in Meta
    BY <1>3 DEF ValidType, Meta, Named, Cont
  <2> QED BY <1>3, <2>1, NotMeta
<1>5. /\ disk' \in Disks /\ Good(disk', freechain) /\ disk'[job.at].next = job.cont
      /\ \A x \in Blocks : /\ disk'[x].kind = disk[x].kind /\ disk'[x].word = disk[x].word
                           /\ disk'[x].text = disk[x].text
                           /\ From(disk', x) = From(disk, x) /\ (WellNamed(disk', x) <=> WellNamed(disk, x))
      /\ \A x \in Blocks, j \in 1..Last, c \in Blocks :
           Points(disk', x, j, c) <=> Points(disk, x, j, c) \/ (x = job.at /\ j = Last /\ c = job.cont)
  <2>1. LinkedTo(disk, disk', job.at, job.cont)
    BY <1>1 DEF LinkedTo
  <2>2. PICK a : a = job.at
    OBVIOUS
  <2>3. PICK m : m = job.cont
    OBVIOUS
  <2>4. PICK d : d = disk
    OBVIOUS
  <2>5. PICK e : e = disk'
    OBVIOUS
  <2>6. PICK h : h = freechain
    OBVIOUS
  <2>7. /\ d \in Disks /\ Good(d, h) /\ a \in 1..N /\ d[a].kind \in Meta /\ d[a].next = 0
        /\ m \in Blocks /\ Unnamed(d, h, m) /\ LinkedTo(d, e, a, m)
    BY <1>3, <1>4, <2>1, <2>2, <2>3, <2>4, <2>5, <2>6
  <2>8. /\ e \in Disks /\ Good(e, h) /\ e[a].next = m
        /\ \A x \in Blocks : /\ e[x].kind = d[x].kind /\ e[x].word = d[x].word /\ e[x].text = d[x].text
                             /\ (x # a => e[x] = d[x])
                             /\ From(e, x) = From(d, x) /\ (WellNamed(e, x) <=> WellNamed(d, x))
        /\ \A x \in Blocks, j \in 1..Last, c \in Blocks :
             Points(e, x, j, c) <=> Points(d, x, j, c) \/ (x = a /\ j = Last /\ c = m)
    BY ONLY <2>7, Continued
  <2> QED BY <2>2, <2>3, <2>4, <2>5, <2>6, <2>8
<1>6. TypeOK' /\ JobType'
  <2>1. stage' \in Stages
    BY <1>1 DEF Stages
  <2> QED BY <1>1, <1>5, <2>1 DEF VolumeInv, TypeOK, JobType, Disks, BlockTypes
<1>7. FormatOk' /\ Ready' /\ ZeroOk'
  BY <1>1, <1>2, <1>5 DEF FormatOk, Ready, ZeroOk, Good
<1>8. Last \in 1..Last /\ \A i \in Words : i \in 1..Last
  BY Sizes
<1>9. LinksOk'
  <2>1. \A b, c \in Blocks : Points(disk', b, Last, c) => disk'[c].kind \notin Named
    <3>1. disk[job.cont].kind \notin Named
      BY <1>3 DEF Named
    <3> QED BY <1>2, <1>3, <1>5, <1>8, <3>1 DEF VolumeInv, LinksOk
  <2>2. \A c \in Blocks : disk'[c].kind \in Cont => \E b \in Blocks : Points(disk', b, Last, c)
    BY <1>2, <1>5, <1>8 DEF VolumeInv, LinksOk
  <2> QED BY <2>1, <2>2 DEF LinksOk
<1>10. JobOk'
  <2>1. Unnamed(disk', freechain, job.meta)
    BY <1>3, <1>5 DEF Unnamed
  <2>2. ValidType(job.at, Into)'
    BY <1>1, <1>3, <1>5 DEF ValidType, Into
  <2>3. Filing => disk'[job.block].kind = "file" /\ WellNamed(disk', job.block)
    BY <1>2, <1>3, <1>5 DEF VolumeInv, JobOk
  <2>4. disk'[job.cont].kind = "free"
    BY <1>3, <1>5
  <2> QED BY <1>1, <1>2, <1>5, <2>1, <2>2, <2>3, <2>4 DEF VolumeInv, JobOk
<1>11. FilingOk'
  <2>1. Finished' = Finished /\ First' = First /\ disk'[job.block].word = disk[job.block].word
    BY <1>1, <1>3, <1>5 DEF Finished, First
  <2>2. Filing => job.at = job.block \/ \E b \in Blocks : Points(disk', b, Last, job.at)
    <3>1. Filing => job.at = job.block \/ \E b \in Blocks : Points(disk, b, Last, job.at)
      BY <1>2 DEF VolumeInv, FilingOk
    <3> QED BY <1>3, <1>5, <1>8, <3>1
  <2> QED BY <1>1, <1>2, <2>1, <2>2 DEF VolumeInv, FilingOk
<1>12. FilesOk'
  BY <1>2, <1>5, FilesKept
<1>13. AddedOk'
  <2>1. \A x \in Blocks : Keeps(disk, disk', x)
    BY <1>5 DEF Keeps
  <2> QED BY <1>1, <1>2, <1>5, <2>1, RestKept
<1>14. Described'
  <2> SUFFICES ASSUME ~broken PROVE Described'
    BY <1>1 DEF Described
  <2>1. Pending = {job.meta, job.cont} /\ Pending' = {job.meta}
    BY <1>1, <1>2 DEF Pending
  <2>2. ASSUME NEW c \in 2..N
        PROVE  \/ InChain(freechain', c) \/ c \in Pending'
               \/ \E b \in Blocks, i \in 1..Last : Points(disk', b, i, c)
    <3>1. c \in Blocks
      BY Sizes
    <3>2. CASE c = job.cont
      BY <1>3, <1>5, <1>8, <3>2
    <3>3. CASE c # job.cont
      BY <1>1, <1>2, <1>5, <2>1, <3>1, <3>3 DEF VolumeInv, Described
    <3> QED BY <3>2, <3>3
  <2>3. ASSUME NEW b \in Blocks, NEW i \in 1..Last, NEW c \in Blocks, Points(disk', b, i, c)
        PROVE  Future(c)' \in Expected(disk'[b].kind, i)
    <3>1. CASE Points(disk, b, i, c)
      <4>1. c # job.cont
        BY <1>3, <3>1 DEF Unnamed
      <4>2. Future(c)' = disk[c].kind /\ Future(c) = disk[c].kind
        BY <1>1, <1>5, <4>1 DEF Future
      <4>3. Future(c) \in Expected(disk[b].kind, i)
        BY <1>2, <3>1 DEF VolumeInv, Described
      <4> QED BY <1>5, <4>2, <4>3
    <3>2. CASE b = job.at /\ i = Last /\ c = job.cont
      <4>1. Future(c)' = IF Into = "file" THEN "filecont" ELSE "dircont"
        BY <1>1, <3>2 DEF Future, Into
      <4>2. disk'[b].kind = disk[job.at].kind
        BY <1>5, <3>2
      <4>3. disk[job.at].kind \in {"dir", "dircont"} <=> Into # "file"
        BY <1>3 DEF ValidType, Into
      <4> QED BY <3>2, <4>1, <4>2, <4>3 DEF Expected
    <3> QED BY <1>5, <2>3, <3>1, <3>2
  <2>4. \A b \in Blocks : disk'[b].kind \in Named => WellNamed(disk', b)
    BY <1>1, <1>2, <1>5 DEF VolumeInv, Described
  <2> QED BY <1>1, <2>2, <2>3, <2>4 DEF Described
<1>15. PlainOk'
  BY <1>1, <1>3 DEF PlainOk
<1> QED BY <1>6, <1>7, <1>9, <1>10, <1>11, <1>12, <1>13, <1>14, <1>15 DEF VolumeInv

\* initMeta() of the block that a directory or file goes on in.
LEMMA InitMoreKeeps ==
  ASSUME VolumeInv, InitMore
  PROVE  VolumeInv'
<1> DEFINE u == IF Into = "file" THEN "filecont" ELSE "dircont"
           v == [Blank EXCEPT !.kind = u]
<1>1. /\ stage = "more" /\ stage' = "enter" /\ disk' = [disk EXCEPT ![job.cont] = v]
      /\ job' = [job EXCEPT !.at = job.cont, !.cont = 0]
      /\ UNCHANGED <<freechain, faults, broken, added>>
  BY DEF InitMore, Put, history
<1>2. /\ disk \in Disks /\ Good(disk, freechain) /\ JobType /\ job.at \in Blocks /\ job.cont \in Blocks
      /\ job.meta \in Blocks /\ job.block \in Blocks /\ 0 \in Blocks
  BY <1>1, Types, Sizes DEF VolumeInv, Ready, Formatting
<1>3. /\ job'.at = job.cont /\ job'.cont = 0 /\ job'.meta = job.meta /\ job'.what = job.what
      /\ job'.parent = job.parent /\ job'.namelen = job.namelen /\ job'.left = job.left
      /\ job'.block = job.block /\ job'.plain = job.plain /\ JobType'
  BY <1>1, <1>2 DEF JobType
<1>4. /\ Busy /\ ~Formatting /\ Entering /\ ~Writing /\ Busy' /\ ~Formatting' /\ Entering' /\ ~Writing'
      /\ (Filing' <=> Filing)
  BY <1>1, <1>3 DEF Formatting, Busy, Writing, Filing, Entering
<1>5. /\ job.cont \in 2..N /\ ~InChain(freechain, job.cont) /\ disk[job.cont].kind = "free"
      /\ job.cont # job.meta /\ ~job.plain /\ ValidType(job.at, Into) /\ disk[job.at].next = job.cont
      /\ Unnamed(disk, freechain, job.meta)
      /\ Filing => disk[job.block].kind = "file" /\ WellNamed(disk, job.block)
      /\ job.block \in 2..N /\ ~InChain(freechain, job.block) /\ job.meta \in 2..N /\ ~InChain(freechain, job.meta)
  BY <1>1, <1>4 DEF VolumeInv, JobOk
<1>6. Points(disk, job.at, Last, job.cont) /\ Last \in 1..Last
  <2>1. disk[job.at].kind \in Meta
    BY <1>5 DEF ValidType, Meta, Named, Cont
  <2>2. job.at \in 1..N
    BY <1>2, <2>1, NotMeta
  <2> QED BY <1>5, <2>1, <2>2, Sizes DEF Points
<1>7. v \in BlockTypes /\ v.kind = u /\ u \in Cont /\ v.word = Zero /\ v.next = 0 /\ v.text = NoText
  <2>1. Blank = [kind |-> "blank", word |-> Zero, next |-> 0, text |-> NoText]
    BY DEF Blank
  <2>2. v = [kind |-> u, word |-> Zero, next |-> 0, text |-> NoText]
    BY <2>1
  <2>3. u \in Kinds /\ u \in Cont
    BY DEF Kinds, Meta, Cont
  <2> HIDE DEF v, u
  <2> QED BY <1>2, <2>2, <2>3, FormatBlocks DEF BlockTypes
<1> HIDE DEF v
<1>8. \A i \in 1..Last, c \in Blocks : ~Points(disk, job.cont, i, c)
  BY <1>5 DEF Points, Meta, Named, Cont
<1>9. /\ disk' \in Disks /\ Good(disk', freechain') /\ disk'[job.cont] = v
      /\ \A x \in Blocks, i \in 1..Last, c \in Blocks : Points(disk', x, i, c) <=> Points(disk, x, i, c)
      /\ \A x \in Blocks : x # job.cont => /\ disk'[x] = disk[x] /\ From(disk', x) = From(disk, x)
                                           /\ (WellNamed(disk', x) <=> WellNamed(disk, x))
                                           /\ Keeps(disk, disk', x)
  <2>1. Written(disk, disk', job.cont, v)
    BY <1>1 DEF Written
  <2>2. \A i \in Words : v.word[i] = 0
    BY <1>7, FormatBlocks
  <2>3. /\ job.cont \in 2..N /\ ~InChain(freechain, job.cont) /\ v \in BlockTypes /\ freechain' = freechain
        /\ v.kind \in Meta => v.next = 0 /\ \A i \in Words : i >= From(disk', job.cont) => v.word[i] = 0
    BY <1>1, <1>5, <1>7, <2>2
  <2> QED BY <1>4, <1>8, <2>1, <2>3, WriteFacts
<1>10. u \notin Named /\ u # "file" /\ u # "free"
  BY DEF Named
<1>11. TypeOK' /\ JobType'
  <2>1. stage' \in Stages
    BY <1>1 DEF Stages
  <2>2. /\ job'.what \in Named \cup {"none"} /\ job'.left \in Nat /\ job'.plain \in BOOLEAN
        /\ {job'.parent, job'.block, job'.at, job'.meta, job'.cont} \subseteq Blocks
    BY <1>3 DEF JobType
  <2> QED BY <1>1, <1>3, <1>9, <2>1, <2>2 DEF VolumeInv, TypeOK, Disks, BlockTypes
<1>12. FormatOk' /\ Ready' /\ ZeroOk'
  BY <1>4, <1>9 DEF FormatOk, Ready, ZeroOk, Good
<1>13. LinksOk'
  <2>1. \A b, c \in Blocks : Points(disk', b, Last, c) => disk'[c].kind \notin Named
    <3> SUFFICES ASSUME NEW b \in Blocks, NEW c \in Blocks, Points(disk', b, Last, c) PROVE disk'[c].kind \notin Named
      OBVIOUS
    <3>1. CASE c = job.cont
      BY <1>7, <1>9, <1>10, <3>1
    <3>2. CASE c # job.cont
      BY <1>4, <1>6, <1>9, <3>2 DEF VolumeInv, LinksOk
    <3> QED BY <3>1, <3>2
  <2>2. \A c \in Blocks : disk'[c].kind \in Cont => \E b \in Blocks : Points(disk', b, Last, c)
    <3> SUFFICES ASSUME NEW c \in Blocks, disk'[c].kind \in Cont PROVE \E b \in Blocks : Points(disk', b, Last, c)
      OBVIOUS
    <3>1. CASE c = job.cont
      BY <1>2, <1>6, <1>9, <3>1
    <3>2. CASE c # job.cont
      BY <1>4, <1>6, <1>9, <3>2 DEF VolumeInv, LinksOk
    <3> QED BY <3>1, <3>2
  <2> QED BY <2>1, <2>2 DEF LinksOk
<1>14. Filing => disk'[job.block] = disk[job.block] /\ From(disk', job.block) = From(disk, job.block)
                 /\ WellNamed(disk', job.block)
  <2>1. Filing => job.block # job.cont
    BY <1>5
  <2> QED BY <1>2, <1>5, <1>9, <2>1
<1>15. JobOk'
  <2>1. Unnamed(disk', freechain, job.meta)
    BY <1>2, <1>5, <1>9 DEF Unnamed
  <2>2. Filing => disk'[job.block].kind = "file" /\ WellNamed(disk', job.block)
    BY <1>5, <1>14
  <2> QED BY <1>1, <1>3, <1>4, <2>1, <2>2 DEF VolumeInv, JobOk
<1>16. FilingOk'
  <2> SUFFICES ASSUME Filing PROVE FilingOk'
    BY <1>4 DEF FilingOk
  <2>1. Finished' = Finished /\ First' = First
    BY <1>3, <1>14 DEF Finished, First
  <2>2. Finished >= 0 /\ Finished # 0 /\ (Finished > 0 => disk[job.block].word[First] # 0)
    BY <1>1, <1>4 DEF VolumeInv, FilingOk
  <2>3. \E b \in Blocks : Points(disk', b, Last, job'.at)
    BY <1>2, <1>3, <1>6, <1>9
  <2> QED BY <1>3, <1>4, <1>14, <2>1, <2>2, <2>3 DEF FilingOk
<1>17. FilesOk'
  <2>1. \A x \in Blocks : disk'[x].text \in {NoText, disk[x].text}
    BY <1>7, <1>9
  <2>2. \A x \in Blocks : disk'[x].kind = "file" => x # job.cont
    BY <1>7, <1>9, <1>10
  <2> QED BY <1>4, <1>9, <2>1, <2>2, FilesKept
<1>18. AddedOk'
  <2>1. disk[job.cont].kind \notin {"payload", "raw"} /\ disk[job.cont].kind \notin Named
    BY <1>5 DEF Named
  <2> QED BY <1>1, <1>3, <1>4, <1>9, <2>1, RestKept
<1>19. Described'
  <2> SUFFICES ASSUME ~broken PROVE Described'
    BY <1>1 DEF Described
  <2>1. \A c \in Blocks : Future(c)' = Future(c)
    <3>1. \A c \in Blocks : Future(c)' = disk'[c].kind
      BY <1>1 DEF Future
    <3>2. Future(job.cont) = u
      BY <1>1 DEF Future
    <3>3. \A c \in Blocks : c # job.cont => Future(c) = disk[c].kind
      BY <1>1 DEF Future
    <3> QED BY <1>7, <1>9, <3>1, <3>2, <3>3
  <2>2. Pending' = Pending
    BY <1>1, <1>3, <1>4 DEF Pending
  <2>3. \A c \in 2..N : \/ InChain(freechain', c) \/ c \in Pending'
                        \/ \E b \in Blocks, i \in 1..Last : Points(disk', b, i, c)
    <3>1. \A c \in 2..N : c \in Blocks
      BY Sizes
    <3> QED BY <1>1, <1>4, <1>9, <2>2, <3>1 DEF VolumeInv, Described
  <2>4. ASSUME NEW b \in Blocks, NEW i \in 1..Last, NEW c \in Blocks, Points(disk', b, i, c)
        PROVE  Future(c)' \in Expected(disk'[b].kind, i)
    <3>1. Points(disk, b, i, c) /\ b # job.cont /\ disk'[b].kind = disk[b].kind
      BY <1>8, <1>9, <2>4
    <3>2. Future(c) \in Expected(disk[b].kind, i)
      BY <1>4, <3>1 DEF VolumeInv, Described
    <3> QED BY <2>1, <3>1, <3>2
  <2>5. \A b \in Blocks : disk'[b].kind \in Named => WellNamed(disk', b)
    <3>1. \A b \in Blocks : disk'[b].kind \in Named => b # job.cont
      BY <1>7, <1>9, <1>10
    <3> QED BY <1>1, <1>4, <1>9, <3>1 DEF VolumeInv, Described
  <2> QED BY <1>1, <2>3, <2>4, <2>5 DEF Described
<1>20. PlainOk'
  BY <1>3, <1>5 DEF PlainOk
<1> QED BY <1>11, <1>12, <1>13, <1>15, <1>16, <1>17, <1>18, <1>19, <1>20 DEF VolumeInv

\* The first place that addToMeta() finds.
LEMMA FirstPlaceIs ==
  ASSUME NEW a, Places(a) # {}
  PROVE  /\ FirstPlace(a) \in Places(a) /\ FirstPlace(a) \in Words /\ FirstPlace(a) >= FirstTried(a)
         /\ disk[a].word[FirstPlace(a)] = 0 /\ \A j \in Places(a) : FirstPlace(a) <= j
<1>1. Places(a) \in SUBSET Nat
  BY Sizes DEF Places
<1>2. \E i \in Places(a) : \A j \in Places(a) : i <= j
  BY <1>1, LeastNat
<1>3. FirstPlace(a) \in Places(a) /\ \A j \in Places(a) : FirstPlace(a) <= j
  BY <1>2 DEF FirstPlace
<1> QED BY <1>3 DEF Places

\* An entry gets its place: what the disk is then.
LEMMA EnterFacts ==
  ASSUME VolumeInv, EnterPlace
  PROVE  /\ disk' \in Disks /\ Good(disk', freechain) /\ job.at \in 1..N /\ disk[job.at].kind \in Meta
         /\ FirstPlace(job.at) \in Words /\ Unnamed(disk, freechain, job.meta)
         /\ \A x \in Blocks : /\ disk'[x].kind = disk[x].kind /\ disk'[x].next = disk[x].next
                              /\ disk'[x].text = disk[x].text /\ (x # job.at => disk'[x] = disk[x])
         /\ \A x \in Blocks, j \in Words :
              disk'[x].word[j] = IF x = job.at /\ j = FirstPlace(job.at) THEN job.meta ELSE disk[x].word[j]
         /\ \A x \in Blocks : WellNamed(disk, x) => WellNamed(disk', x) /\ From(disk', x) = From(disk, x)
         /\ \A x \in Blocks, j \in 1..Last, c \in Blocks :
              Points(disk', x, j, c) => Points(disk, x, j, c) \/ (x = job.at /\ j = FirstPlace(job.at) /\ c = job.meta)
         /\ WellNamed(disk, job.at) \/ disk[job.at].kind \in Cont =>
              /\ FirstPlace(job.at) >= From(disk, job.at) /\ From(disk', job.at) = From(disk, job.at)
              /\ \A x \in Blocks, j \in 1..Last, c \in Blocks :
                   Points(disk', x, j, c) <=> Points(disk, x, j, c) \/ (x = job.at /\ j = FirstPlace(job.at) /\ c = job.meta)
         /\ \A x \in Blocks, c \in Blocks : Points(disk', x, Last, c) <=> Points(disk, x, Last, c)
         /\ \A x \in Blocks : Keeps(disk, disk', x)
<1>1. /\ stage = "enter" /\ ValidType(job.at, Into) /\ Places(job.at) # {}
      /\ disk' = [disk EXCEPT ![job.at] = [disk[job.at] EXCEPT !.word = [@ EXCEPT ![FirstPlace(job.at)] = job.meta]]]
  BY DEF EnterPlace, Put
<1>2. Busy /\ ~Formatting /\ Entering
  BY <1>1 DEF Formatting, Busy, Entering
<1>3. /\ disk \in Disks /\ Good(disk, freechain) /\ job.at \in Blocks /\ job.meta \in Blocks
      /\ Unnamed(disk, freechain, job.meta)
  BY <1>2, Types DEF VolumeInv, Ready, JobOk
<1>4. disk[job.at].kind \in Meta /\ job.at \in 1..N
  <2>1. disk[job.at].kind \in Meta
    BY <1>1 DEF ValidType, Meta, Named, Cont
  <2> QED BY <1>3, <2>1, NotMeta
<1>5. PICK i : i = FirstPlace(job.at)
  OBVIOUS
<1>6. /\ i \in Words /\ i \in Places(job.at) /\ i >= 3 + Rounded(disk[job.at].word[3])
      /\ disk[job.at].word[i] = 0
  BY <1>1, <1>5, FirstPlaceIs DEF FirstTried
<1>7. PICK a : a = job.at
  OBVIOUS
<1>8. PICK m : m = job.meta
  OBVIOUS
<1>9. PICK d : d = disk
  OBVIOUS
<1>10. PICK e : e = disk'
  OBVIOUS
<1>11. PICK h : h = freechain
  OBVIOUS
<1>12. EnteredAt(d, e, a, i, m)
  BY <1>1, <1>5, <1>7, <1>8, <1>9, <1>10 DEF EnteredAt
<1>13. /\ d \in Disks /\ Good(d, h) /\ a \in 1..N /\ d[a].kind \in Meta /\ i \in Words /\ d[a].word[i] = 0
       /\ i >= 3 + Rounded(d[a].word[3]) /\ m \in Blocks /\ Unnamed(d, h, m)
  BY <1>3, <1>4, <1>6, <1>7, <1>8, <1>9, <1>11
<1>14. /\ e \in Disks /\ Good(e, h)
       /\ \A x \in Blocks : /\ e[x].kind = d[x].kind /\ e[x].next = d[x].next
                            /\ e[x].text = d[x].text /\ (x # a => e[x] = d[x])
       /\ \A x \in Blocks, j \in Words :
            e[x].word[j] = IF x = a /\ j = i THEN m ELSE d[x].word[j]
       /\ \A x \in Blocks : WellNamed(d, x) => WellNamed(e, x) /\ From(e, x) = From(d, x)
       /\ \A x \in Blocks, j \in 1..Last, c \in Blocks :
            Points(e, x, j, c) => Points(d, x, j, c) \/ (x = a /\ j = i /\ c = m)
       /\ WellNamed(d, a) \/ d[a].kind \in Cont =>
            /\ i >= From(d, a) /\ From(e, a) = From(d, a)
            /\ \A x \in Blocks, j \in 1..Last, c \in Blocks :
                 Points(e, x, j, c) <=> Points(d, x, j, c) \/ (x = a /\ j = i /\ c = m)
  BY ONLY <1>12, <1>13, Entered
<1>15. \A x \in Blocks, c \in Blocks : Points(e, x, Last, c) <=> Points(d, x, Last, c)
  <2>1. Last \notin Words
    BY Sizes
  <2> QED BY <1>14, <2>1 DEF Points
<1>16. \A x \in Blocks : Keeps(d, e, x)
  <2> SUFFICES ASSUME NEW x \in Blocks PROVE Keeps(d, e, x)
    OBVIOUS
  <2>1. e[x].kind = d[x].kind /\ e[x].text = d[x].text
    BY <1>14
  <2>2. e[x].word[1] = d[x].word[1]
    <3>1. i # 1
      <4>1. d[a].word \in [Words -> Nat] /\ 3 \in Words /\ i \in Nat
        <5>1. a \in Blocks /\ 3 \in Words /\ i \in Nat
          BY <1>13, Sizes
        <5> QED BY <1>13, <5>1, DiskTypes
      <4>2. Rounded(d[a].word[3]) \in Nat
        BY <4>1, Roundings
      <4> QED BY <1>13, <4>1, <4>2
    <3> QED BY <1>14, <3>1, Sizes
  <2>3. WellNamed(d, x) => WellNamed(e, x) /\ From(e, x) = From(d, x)
    BY <1>14
  <2>4. \A j \in Words : d[x].word[j] # 0 => e[x].word[j] = d[x].word[j]
    BY <1>13, <1>14
  <2> QED BY <2>1, <2>2, <2>3, <2>4 DEF Keeps
<1> QED BY <1>3, <1>4, <1>5, <1>7, <1>8, <1>9, <1>10, <1>11, <1>13, <1>14, <1>15, <1>16

\* The entries of a file begin behind its name: no place before them is free.
LEMMA FirstPlaceOf ==
  ASSUME VolumeInv, Filing, Places(job.block) # {}
  PROVE  /\ FirstPlace(job.block) >= First /\ First \in Nat /\ FirstPlace(job.block) \in Nat
         /\ \A j \in Words : j >= First /\ disk[job.block].word[j] = 0 => FirstPlace(job.block) <= j
<1>1. WellNamed(disk, job.block) /\ disk \in Disks /\ job.block \in Blocks
  <2>1. Busy
    BY DEF Filing, Busy, Formatting, Entering
  <2> QED BY <2>1, Types DEF VolumeInv, JobOk
<1>2. First = 4 + Rounded(disk[job.block].word[3]) /\ First \in 5..Last - 1 /\ disk[job.block].word[First - 1] # 0
  BY <1>1, NamePlaces DEF First
<1>3. Rounded(disk[job.block].word[3]) \in Nat
  BY <1>1, Roundings DEF WellNamed
<1>4. FirstTried(job.block) = First - 1
  BY <1>2, <1>3 DEF FirstTried
<1>5. PICK i : i = FirstPlace(job.block)
  OBVIOUS
<1>6. i \in Words /\ i >= First - 1 /\ disk[job.block].word[i] = 0 /\ \A j \in Places(job.block) : i <= j
  BY <1>4, <1>5, FirstPlaceIs
<1>7. i \in Nat /\ First \in Nat /\ \A j \in Words : j \in Nat
  BY <1>2, <1>6, Sizes
<1>8. i >= First
  <2>1. i # First - 1
    BY <1>2, <1>6
  <2> QED BY <1>6, <1>7, <2>1
<1>9. \A j \in Words : j >= First => j >= FirstTried(job.block)
  BY <1>4, <1>7
<1>10. \A j \in Words : j >= First /\ disk[job.block].word[j] = 0 => j \in Places(job.block)
  BY <1>9 DEF Places
<1> QED BY <1>5, <1>6, <1>7, <1>8, <1>10

\* addToMeta() enters a block.
LEMMA EnterPlaceKeeps ==
  ASSUME VolumeInv, EnterPlace
  PROVE  VolumeInv'
<1>1. /\ stage = "enter" /\ ValidType(job.at, Into) /\ Places(job.at) # {}
      /\ stage' = IF Into = "dir" THEN "init" ELSE "payload"
      /\ UNCHANGED <<freechain, job, faults, broken, added>>
  BY DEF EnterPlace, history
<1>2. /\ Busy /\ ~Formatting /\ Entering /\ ~Writing /\ Busy' /\ ~Formatting' /\ ~Entering'
      /\ (Into = "dir" <=> job.meta = job.block) /\ (Filing <=> job.meta # job.block)
      /\ (Filing' <=> Filing) /\ (Writing' <=> Filing)
  BY <1>1 DEF Formatting, Busy, Writing, Filing, Entering, Into
<1>3. PICK i : i = FirstPlace(job.at)
  OBVIOUS
<1>4. /\ disk' \in Disks /\ Good(disk', freechain) /\ job.at \in 1..N /\ disk[job.at].kind \in Meta
      /\ i \in Words /\ Unnamed(disk, freechain, job.meta)
      /\ \A x \in Blocks : /\ disk'[x].kind = disk[x].kind /\ disk'[x].next = disk[x].next
                           /\ disk'[x].text = disk[x].text /\ (x # job.at => disk'[x] = disk[x])
      /\ \A x \in Blocks, j \in Words :
           disk'[x].word[j] = IF x = job.at /\ j = i THEN job.meta ELSE disk[x].word[j]
      /\ \A x \in Blocks : WellNamed(disk, x) => WellNamed(disk', x) /\ From(disk', x) = From(disk, x)
      /\ \A x \in Blocks, j \in 1..Last, c \in Blocks :
           Points(disk', x, j, c) => Points(disk, x, j, c) \/ (x = job.at /\ j = i /\ c = job.meta)
      /\ WellNamed(disk, job.at) \/ disk[job.at].kind \in Cont =>
           /\ i >= From(disk, job.at) /\ From(disk', job.at) = From(disk, job.at)
           /\ \A x \in Blocks, j \in 1..Last, c \in Blocks :
                Points(disk', x, j, c) <=> Points(disk, x, j, c) \/ (x = job.at /\ j = i /\ c = job.meta)
      /\ \A x \in Blocks, c \in Blocks : Points(disk', x, Last, c) <=> Points(disk, x, Last, c)
      /\ \A x \in Blocks : Keeps(disk, disk', x)
  BY <1>3, EnterFacts
<1>5. /\ disk \in Disks /\ Good(disk, freechain) /\ job.at \in Blocks /\ job.meta \in Blocks /\ job.block \in Blocks
      /\ job.what \in Named /\ job.meta \in 2..N /\ job.meta # 0 /\ disk[job.meta].kind = "free"
      /\ disk[job.meta].text = NoText
      /\ \A b \in Blocks, j \in 1..Last : ~Points(disk, b, j, job.meta)
      /\ Filing => job.what = "file" /\ disk[job.block].kind = "file" /\ WellNamed(disk, job.block)
                   /\ job.block \in 2..N
  <2>1. /\ job.what \in Named /\ job.meta \in 2..N
        /\ Filing => job.what = "file" /\ disk[job.block].kind = "file" /\ WellNamed(disk, job.block)
                     /\ job.block \in 2..N
    BY <1>2 DEF VolumeInv, JobOk
  <2>2. job.meta # 0
    BY <2>1, Sizes
  <2> QED BY <1>2, <1>4, <2>1, <2>2, Types DEF VolumeInv, Ready, Unnamed
<1>6. Last \in 1..Last /\ Last \notin Words /\ i \in 1..Last /\ i # Last /\ (\A j \in Words : j \in 1..Last)
  BY <1>4, Sizes
<1>7. TypeOK' /\ JobType'
  <2>1. stage' \in Stages
    BY <1>1 DEF Stages
  <2> QED BY <1>1, <1>4, <2>1 DEF VolumeInv, TypeOK, JobType, Disks, BlockTypes
<1>8. FormatOk' /\ Ready' /\ ZeroOk'
  BY <1>1, <1>2, <1>4 DEF FormatOk, Ready, ZeroOk, Good
<1>9. LinksOk'
  BY <1>2, <1>4 DEF VolumeInv, LinksOk
<1>10. JobOk'
  <2>1. Filing => disk'[job.block].kind = "file" /\ WellNamed(disk', job.block)
    BY <1>4, <1>5
  <2>2. \A b \in Blocks : ~Points(disk', b, Last, job.meta)
    BY <1>4, <1>5, <1>6
  <2>3. disk'[job.meta].kind = "free" /\ disk'[job.meta].text = NoText
    BY <1>4, <1>5
  <2> QED BY <1>1, <1>2, <2>1, <2>2, <2>3 DEF VolumeInv, JobOk
\* A payload block goes into the file's own block or one that it goes on in.
<1>11. Filing => (WellNamed(disk, job.at) /\ job.at = job.block) \/ disk[job.at].kind = "filecont"
  <2> SUFFICES ASSUME Filing, job.at # job.block PROVE disk[job.at].kind = "filecont"
    BY <1>5
  <2>1. \E b \in Blocks : Points(disk, b, Last, job.at)
    BY <1>2 DEF VolumeInv, FilingOk
  <2>2. disk[job.at].kind \notin Named
    BY <1>2, <1>5, <2>1 DEF VolumeInv, LinksOk
  <2>3. Into = "file"
    BY <1>2 DEF Into
  <2> QED BY <1>1, <2>2, <2>3 DEF ValidType, Named
<1>12. Filing => /\ Finished' = Finished /\ First' = First /\ First \in Words /\ Finished >= 0 /\ Finished \in Int
                 /\ disk'[job.block].word[First] = IF job.block = job.at /\ First = i THEN job.meta
                                                   ELSE disk[job.block].word[First]
                 /\ Finished > 0 => disk[job.block].word[First] # 0
                 /\ Finished = 0 => disk[job.block].word[First] = 0 /\ job.at = job.block /\ First = i
  <2> SUFFICES ASSUME Filing
               PROVE  /\ Finished' = Finished /\ First' = First /\ First \in Words /\ Finished >= 0 /\ Finished \in Int
                      /\ disk'[job.block].word[First] = IF job.block = job.at /\ First = i THEN job.meta
                                                        ELSE disk[job.block].word[First]
                      /\ Finished > 0 => disk[job.block].word[First] # 0
                      /\ Finished = 0 => disk[job.block].word[First] = 0 /\ job.at = job.block /\ First = i
    OBVIOUS
  <2>1. First \in Words
    BY <1>5, NamePlaces, Sizes DEF First
  <2>2. First' = First
    BY <1>1, <1>4, <1>5 DEF First
  <2>3. Finished' = Finished
    <3>1. disk'[job.block].word[1] = disk[job.block].word[1]
      BY <1>4, <1>5 DEF Keeps
    <3> QED BY <1>1, <3>1 DEF Finished
  <2>4. /\ Finished >= 0 /\ (Finished > 0 => disk[job.block].word[First] # 0)
        /\ Finished = 0 => disk[job.block].word[First] = 0 /\ job.at = job.block
    BY <1>1, <1>2 DEF VolumeInv, FilingOk
  <2>5. Finished \in Int
    <3>1. disk[job.block].word \in [Words -> Nat] /\ job.left \in Nat
      BY <1>5, Types, DiskTypes
    <3>2. disk[job.block].word[1] \in Nat
      BY <3>1, Sizes
    <3> QED BY <3>1, <3>2 DEF Finished
  <2>6. ASSUME Finished = 0 PROVE First = i
    <3>1. /\ i >= First /\ First \in Nat /\ i \in Nat
          /\ \A j \in Words : j >= First /\ disk[job.block].word[j] = 0 => i <= j
      BY <1>1, <1>3, <2>4, <2>6, FirstPlaceOf
    <3>2. i <= First
      BY <2>1, <2>4, <2>6, <3>1
    <3> QED BY <3>1, <3>2
  <2>7. disk'[job.block].word[First] = IF job.block = job.at /\ First = i THEN job.meta ELSE disk[job.block].word[First]
    BY <1>4, <1>5, <2>1
  <2> QED BY <2>1, <2>2, <2>3, <2>4, <2>5, <2>6, <2>7
<1>13. Filing => Points(disk', job.at, i, job.meta)
  <2> SUFFICES ASSUME Filing PROVE Points(disk', job.at, i, job.meta)
    OBVIOUS
  <2>1. WellNamed(disk, job.at) \/ disk[job.at].kind \in Cont
    BY <1>11 DEF Cont
  <2> QED BY <1>4, <1>5, <1>6, <2>1
<1>14. FilingOk'
  <2> SUFFICES ASSUME Filing PROVE FilingOk'
    BY <1>2 DEF FilingOk
  <2>1. disk'[job.block].word[First] # 0
    BY <1>5, <1>12
  <2>2. disk'[job.block].word[First] = job.meta <=> Finished = 0
    <3>1. CASE Finished = 0
      BY <1>12, <3>1
    <3>2. CASE Finished # 0
      <4> SUFFICES ASSUME disk'[job.block].word[First] = job.meta PROVE FALSE
        BY <3>2
      <4>1. disk[job.block].word[First] # 0
        BY <1>12, <3>2
      <4>2. ~(job.block = job.at /\ First = i)
        <5>1. disk[job.at].word[i] = 0
          BY <1>1, <1>3, FirstPlaceIs
        <5> QED BY <4>1, <5>1
      <4>3. disk[job.block].word[First] = job.meta
        BY <1>12, <4>2
      <4>4. job.block \in 1..N /\ disk[job.block].kind \in Meta
        BY <1>5, NotMeta, NamePlaces
      <4>5. First >= First
        BY <1>12, Sizes
      <4>6. Points(disk, job.block, First, job.meta)
        BY <1>5, <1>12, <4>3, <4>4, <4>5 DEF Points, First
      <4> QED BY <1>5, <1>6, <1>12, <4>6
    <3> QED BY <3>1, <3>2
  <2>3. \E b \in Blocks, j \in Words : Points(disk', b, j, job.meta) /\ (b = job.block \/ disk'[b].kind = "filecont")
    BY <1>4, <1>5, <1>11, <1>13
  <2> QED BY <1>1, <1>2, <1>12, <2>1, <2>2, <2>3 DEF FilingOk
<1>15. FilesOk'
  <2> SUFFICES ASSUME NEW b \in Blocks, disk'[b].kind = "file"
               PROVE  IF WellNamed(disk', b)
                      THEN disk'[b].word[From(disk', b)] # 0 =>
                             /\ disk'[b].word[From(disk', b)] \in 2..N
                             /\ disk'[disk'[b].word[From(disk', b)]].text \in {NoText, <<b, 0>>}
                      ELSE disk'[b].word = Zero
    BY DEF FilesOk
  <2>1. disk[b].kind = "file" /\ \A p \in 2..N : p \in Blocks
    BY <1>4, Sizes
  <2>2. IF WellNamed(disk, b) THEN disk[b].word[From(disk, b)] # 0 =>
                                     /\ disk[b].word[From(disk, b)] \in 2..N
                                     /\ disk[disk[b].word[From(disk, b)]].text \in {NoText, <<b, 0>>}
                              ELSE disk[b].word = Zero
    BY <1>2, <2>1 DEF VolumeInv, FilesOk
  <2>3. CASE b # job.at
    <3>1. disk'[b] = disk[b]
      BY <1>4, <2>3
    <3>2. From(disk', b) = From(disk, b) /\ (WellNamed(disk', b) <=> WellNamed(disk, b))
      BY <3>1 DEF From, WellNamed
    <3> QED BY <1>4, <2>1, <2>2, <3>1, <3>2
  <2>4. CASE b = job.at
    <3>1. Filing
      BY <1>1, <1>2, <2>1, <2>4 DEF ValidType
    <3>2. b = job.block /\ WellNamed(disk, b)
      BY <1>11, <2>1, <2>4, <3>1
    <3>3. WellNamed(disk', b) /\ From(disk', b) = First
      BY <1>4, <3>2 DEF First
    <3>4. CASE First = i
      <4>1. disk'[b].word[From(disk', b)] = job.meta
        BY <1>12, <2>4, <3>1, <3>2, <3>3, <3>4
      <4> QED BY <1>4, <1>5, <3>3, <4>1
    <3>5. CASE First # i
      <4>1. disk'[b].word[From(disk', b)] = disk[b].word[From(disk, b)]
        BY <1>12, <3>1, <3>2, <3>3, <3>5 DEF First
      <4> QED BY <1>4, <2>1, <2>2, <3>2, <3>3, <4>1
    <3> QED BY <3>4, <3>5
  <2> QED BY <2>3, <2>4
<1>16. AddedOk'
  BY <1>1, <1>2, <1>4, RestKept
<1>17. Described'
  <2> SUFFICES ASSUME ~broken PROVE Described'
    BY <1>1 DEF Described
  <2>1. Pending = {job.meta} /\ Pending' = {}
    BY <1>1, <1>2 DEF Pending
  <2>2. WellNamed(disk, job.at) \/ disk[job.at].kind \in Cont
    BY <1>1, <1>2, <1>4, <1>5 DEF VolumeInv, Described, Meta
  <2>3. \A x \in Blocks, j \in 1..Last, c \in Blocks :
          Points(disk', x, j, c) <=> Points(disk, x, j, c) \/ (x = job.at /\ j = i /\ c = job.meta)
    BY <1>4, <2>2
  <2>4. ASSUME NEW c \in 2..N
        PROVE  \/ InChain(freechain', c) \/ c \in Pending'
               \/ \E b \in Blocks, j \in 1..Last : Points(disk', b, j, c)
    <3>1. c \in Blocks
      BY Sizes
    <3>2. CASE c = job.meta
      BY <1>5, <1>6, <2>3, <3>2
    <3>3. CASE c # job.meta
      BY <1>1, <1>2, <2>1, <2>3, <3>1, <3>3 DEF VolumeInv, Described
    <3> QED BY <3>2, <3>3
  <2>5. ASSUME NEW b \in Blocks, NEW j \in 1..Last, NEW c \in Blocks, Points(disk', b, j, c)
        PROVE  Future(c)' \in Expected(disk'[b].kind, j)
    <3>1. CASE Points(disk, b, j, c)
      <4>1. c # job.meta
        BY <1>5, <3>1
      <4>2. Future(c)' = disk[c].kind /\ Future(c) = disk[c].kind
        BY <1>1, <1>2, <1>4, <4>1 DEF Future
      <4>3. Future(c) \in Expected(disk[b].kind, j)
        BY <1>2, <3>1 DEF VolumeInv, Described
      <4> QED BY <1>4, <4>2, <4>3
    <3>2. CASE b = job.at /\ j = i /\ c = job.meta
      <4>1. disk'[b].kind = disk[job.at].kind /\ j # Last
        BY <1>4, <1>6, <3>2
      <4>2. CASE Into = "dir"
        <5>1. Future(c)' = job.what
          BY <1>1, <1>2, <3>2, <4>2 DEF Future
        <5>2. disk[job.at].kind \in {"dir", "dircont"}
          BY <1>1, <4>2 DEF ValidType
        <5> QED BY <1>5, <4>1, <5>1, <5>2 DEF Expected
      <4>3. CASE Into # "dir"
        <5>1. Future(c)' = "payload"
          BY <1>1, <3>2, <4>3 DEF Future
        <5>2. disk[job.at].kind \in {"file", "filecont"}
          BY <1>1, <4>3 DEF ValidType, Into
        <5> QED BY <4>1, <5>1, <5>2 DEF Expected
      <4> QED BY <4>2, <4>3
    <3> QED BY <1>4, <2>5, <3>1, <3>2
  <2>6. \A b \in Blocks : disk'[b].kind \in Named => WellNamed(disk', b)
    BY <1>1, <1>2, <1>4 DEF VolumeInv, Described
  <2>7. stage' # "contents"
    BY <1>1
  <2> QED BY <2>4, <2>5, <2>6, <2>7 DEF Described
<1>18. PlainOk'
  <2> SUFFICES ASSUME job.plain PROVE PlainOk'
    BY <1>1 DEF PlainOk
  <2>1. \A p : Complete(p)' <=> Complete(p)
    BY <1>1 DEF Complete
  <2>2. /\ job.parent \in Blocks /\ disk[job.parent].kind \in Named /\ job.parent # job.block
        /\ job.at = (IF job.meta = job.block THEN job.parent ELSE job.block)
        /\ Filing /\ Complete(job.parent) => Listed(disk, job.parent, job.block)
        /\ Filing => /\ \A c \in 0..Finished - 1 : HasChunk(disk, job.block, c)
                     /\ \A j \in Words : j >= First + Finished => disk[job.block].word[j] = 0
    BY <1>1, <1>2 DEF VolumeInv, PlainOk
  <2>3. disk'[job.parent].kind \in Named
    BY <1>4, <2>2
  <2>4. Complete(job.parent) => Listed(disk', job.parent, job.block)
    <3> SUFFICES ASSUME Complete(job.parent) PROVE Listed(disk', job.parent, job.block)
      OBVIOUS
    <3>1. WellNamed(disk, job.parent)
      BY <1>2, <2>2, CompleteNamed
    <3>2. CASE Filing
      BY <1>4, <1>5, <2>2, <3>1, <3>2, ListedKept
    <3>3. CASE ~Filing
      <4>1. job.at = job.parent /\ job.meta = job.block
        BY <1>2, <2>2, <3>3
      <4>2. Points(disk', job.parent, i, job.block)
        BY <1>4, <1>5, <1>6, <3>1, <4>1
      <4> QED BY <1>4, <4>2 DEF Listed
    <3> QED BY <3>2, <3>3
  <2>5. ASSUME Filing
        PROVE  /\ \A c \in 0..Finished - 1 : HasChunk(disk', job.block, c)
               /\ First + Finished < Last /\ disk'[job.block].word[First + Finished] = job.meta
               /\ \A j \in Words : j > First + Finished => disk'[job.block].word[j] = 0
    <3>1. PICK f : f = Finished
      OBVIOUS
    <3>2. PICK s : s = First
      OBVIOUS
    <3>3. f \in Nat /\ s \in Nat /\ s \in Words /\ Words = 1..Last - 1 /\ Last \in Nat /\ i \in Nat
      BY <1>4, <1>12, <2>5, <3>1, <3>2, Sizes
    <3>4. job.at = job.block
      BY <1>2, <2>2, <2>5
    <3>5. /\ i >= s /\ \A j \in Words : j >= s /\ disk[job.block].word[j] = 0 => i <= j
      BY <1>1, <1>3, <2>5, <3>2, <3>4, FirstPlaceOf
    <3>6. disk[job.block].word[i] = 0
      BY <1>1, <1>3, <3>4, FirstPlaceIs
    <3>7. \A c \in 0..f - 1 : HasChunk(disk, job.block, c)
      BY <2>2, <2>5, <3>1
    <3>8. i >= s + f
      <4> SUFFICES ASSUME i < s + f PROVE FALSE
        BY <3>3
      <4>1. i - s \in 0..f - 1 /\ s + (i - s) = i
        BY <3>3, <3>5
      <4>2. HasChunk(disk, job.block, i - s)
        BY <3>7, <4>1
      <4>3. disk[job.block].word[s + (i - s)] \in 2..N
        BY <3>2, <4>2 DEF HasChunk, First
      <4> QED BY <3>6, <4>1, <4>3, Sizes
    <3>9. s + f \in Words /\ s + f >= s /\ s + f >= s + f
      BY <1>4, <3>3, <3>8
    <3>10. i = s + f
      <4>1. disk[job.block].word[s + f] = 0
        BY <2>2, <2>5, <3>1, <3>2, <3>9
      <4>2. i <= s + f
        BY <3>5, <3>9, <4>1
      <4> QED BY <3>3, <3>8, <4>2
    <3>11. disk'[job.block].word[s + f] = job.meta
      BY <1>4, <1>5, <3>4, <3>9, <3>10
    <3>12. ASSUME NEW j \in Words, j > s + f PROVE disk'[job.block].word[j] = 0
      <4>1. j >= s + f /\ j # i
        BY <3>3, <3>10, <3>12
      <4>2. disk[job.block].word[j] = 0
        BY <2>2, <2>5, <3>1, <3>2, <4>1
      <4> QED BY <1>4, <1>5, <4>1, <4>2
    <3>13. ASSUME NEW c \in 0..f - 1 PROVE HasChunk(disk', job.block, c)
      <4>1. c \in Nat /\ HasChunk(disk, job.block, c) /\ job.block # 0
        BY <1>5, <2>5, <3>3, <3>7, Sizes
      <4> QED BY <1>4, <1>5, <2>5, <4>1, ChunkKept
    <3>14. s + f < Last
      BY <3>3, <3>9
    <3> QED BY <3>1, <3>2, <3>11, <3>12, <3>13, <3>14
  <2>6. stage' # "enter" /\ (stage' = "init" \/ stage' = "payload") /\ stage' # "name"
    BY <1>1
  <2>7. (Finished' = Finished /\ First' = First) \/ ~Filing
    BY <1>12
  <2> QED BY <1>1, <1>2, <2>1, <2>2, <2>3, <2>4, <2>5, <2>6, <2>7 DEF PlainOk
<1> QED BY <1>7, <1>8, <1>9, <1>10, <1>14, <1>15, <1>16, <1>17, <1>18 DEF VolumeInv

-----------------------------------------------------------------------------
(* The volume                                                                *)

\* Every step keeps the invariant.
LEMMA NextKeeps ==
  ASSUME VolumeInv, Next \/ UNCHANGED vars
  PROVE  VolumeInv'
<1>1. CASE FormatBlock \/ FormatFails \/ FormatHeader \/ FormatRoot
  BY <1>1, FormatSteps
<1>2. CASE FormatSlash
  BY <1>2, FormatSlashKeeps
<1>3. CASE \E what \in Named, parent \in Blocks, n \in NameLens, c \in Chunks : Add(what, parent, n, c)
  BY <1>3, AddKeeps
<1>4. CASE EnterPlace
  BY <1>4, EnterPlaceKeeps
<1>5. CASE EnterNext
  BY <1>5, EnterNextKeeps
<1>6. CASE EnterMore
  BY <1>6, EnterMoreKeeps
<1>7. CASE EnterFails \/ Abort
  BY <1>7, FailuresKeep
<1>8. CASE Continue
  BY <1>8, ContinueKeeps
<1>9. CASE InitMore
  BY <1>9, InitMoreKeeps
<1>10. CASE InitMeta
  BY <1>10, InitMetaKeeps
<1>11. CASE UpdateMeta
  BY <1>11, UpdateMetaKeeps
<1>12. CASE TakeData
  BY <1>12, TakeDataKeeps
<1>13. CASE InitData
  BY <1>13, InitDataKeeps
<1>14. CASE PutData
  BY <1>14, PutDataKeeps
<1>15. CASE UNCHANGED vars
  BY <1>15 DEF vars, history, VolumeInv, TypeOK, JobType, FormatOk, ZeroOk, Ready, LinksOk, JobOk, FilingOk,
       FilesOk, Described, AddedOk, PlainOk, Formatting, Busy, Entering, Writing, Filing, Finished, First,
       Future, Pending, Complete, ValidType, Into
<1> QED BY <1>1, <1>2, <1>3, <1>4, <1>5, <1>6, <1>7, <1>8, <1>9, <1>10, <1>11, <1>12, <1>13, <1>14, <1>15
     DEF Next

\* The places that Pointers lists are those of Points.
LEMMA PointersAre ==
  ASSUME VolumeInv, ~Formatting
  PROVE  /\ \A p \in Pointers : /\ p[1] \in Blocks /\ p[2] \in 1..Last /\ p = <<p[1], p[2]>>
                                /\ Target(p) \in Blocks /\ Points(disk, p[1], p[2], Target(p))
         /\ \A b \in Blocks, i \in 1..Last, c \in Blocks :
              Points(disk, b, i, c) => <<b, i>> \in Pointers /\ Target(<<b, i>>) = c
<1>1. disk \in Disks /\ Good(disk, freechain) /\ Last \in 1..Last /\ Words = 1..Last - 1 /\ Last \in Nat
      /\ Last \notin Words /\ Blocks = 0..N /\ N \in Nat
  BY Types, Sizes DEF VolumeInv, Ready
<1>2. \A b : FirstEntry(b) = From(disk, b)
  BY DEF FirstEntry, From
<1>3. ASSUME NEW p \in Pointers
      PROVE  /\ p[1] \in Blocks /\ p[2] \in 1..Last /\ p = <<p[1], p[2]>>
             /\ Target(p) \in Blocks /\ Points(disk, p[1], p[2], Target(p))
  <2>1. PICK b \in 1..N, i \in 1..Last : p = <<b, i>>
    BY DEF Pointers
  <2>2. /\ disk[b].kind \in Meta
        /\ \/ i < Last /\ i >= From(disk, b) /\ disk[b].word[i] # 0
           \/ i = Last /\ disk[b].next # 0
    BY <1>2, <2>1 DEF Pointers
  <2>3. b \in Blocks /\ disk[b].next \in Blocks
    BY <1>1, DiskTypes
  <2>4. CASE i < Last /\ i >= From(disk, b) /\ disk[b].word[i] # 0
    <3>1. i \in Words /\ i # Last
      BY <1>1, <2>4
    <3>2. disk[b].word[i] \in Blocks
      BY <1>1, <2>2, <2>3, <2>4, <3>1 DEF Good, Exclusive
    <3>3. Target(p) = disk[b].word[i]
      BY <2>1, <3>1 DEF Target
    <3> QED BY <2>1, <2>2, <2>3, <2>4, <3>1, <3>2, <3>3 DEF Points
  <2>5. CASE i = Last /\ disk[b].next # 0
    <3>1. Target(p) = disk[b].next
      BY <2>1, <2>5 DEF Target
    <3> QED BY <1>1, <2>1, <2>2, <2>3, <2>5, <3>1 DEF Points
  <2> QED BY <2>2, <2>4, <2>5
<1>4. ASSUME NEW b \in Blocks, NEW i \in 1..Last, NEW c \in Blocks, Points(disk, b, i, c)
      PROVE  <<b, i>> \in Pointers /\ Target(<<b, i>>) = c
  <2>1. b \in 1..N /\ c # 0 /\ disk[b].kind \in Meta
    BY <1>4 DEF Points
  <2>2. CASE i \in Words /\ i >= From(disk, b) /\ disk[b].word[i] = c
    <3>1. i < Last /\ i # Last
      BY <1>1, <2>2
    <3> QED BY <1>2, <2>1, <2>2, <3>1 DEF Pointers, Target
  <2>3. CASE i = Last /\ disk[b].next = c
    BY <2>1, <2>3 DEF Pointers, Target
  <2> QED BY <1>4, <2>2, <2>3 DEF Points
<1> QED BY <1>3, <1>4

\* No block is used twice.
LEMMA ExclusiveFollows ==
  ASSUME VolumeInv
  PROVE  BlocksExclusive
<1> SUFFICES ASSUME ~Formatting
             PROVE  /\ Chain[N + 1] = 0
                    /\ \A p \in Pointers : Target(p) \in (2..N) \ FreeBlocks
                    /\ \A p, q \in Pointers : Target(p) = Target(q) => p = q
                    /\ stage \in {"enter", "payload"} => job.meta \notin FreeBlocks
                    /\ stage = "enter" => \A p \in Pointers : Target(p) # job.meta
  <2>1. ASSUME NEW A, NEW n \in {<<p, Target(p)>> : p \in A}
        PROVE  \E p \in A : n[1] = p /\ n[2] = Target(p) /\ n = <<p, Target(p)>>
    BY <2>1
  <2> QED BY <2>1 DEF BlocksExclusive, VolumeInv, Formatting
<1>1. disk \in Disks /\ Good(disk, freechain) /\ job.meta \in Blocks
  BY Types DEF VolumeInv, Ready
<1>2. Chain[N + 1] = 0 /\ FreeBlocks = {c \in Blocks : InChain(freechain, c)}
  BY <1>1, ChainIs DEF Good
<1>3. \A p \in Pointers : Target(p) \in (2..N) \ FreeBlocks
  BY <1>1, <1>2, PointersAre DEF Good, Exclusive
<1>4. \A p, q \in Pointers : Target(p) = Target(q) => p = q
  <2> SUFFICES ASSUME NEW p \in Pointers, NEW q \in Pointers, Target(p) = Target(q) PROVE p = q
    OBVIOUS
  <2>1. /\ p[1] \in Blocks /\ p[2] \in 1..Last /\ p = <<p[1], p[2]>>
        /\ Target(p) \in Blocks /\ Points(disk, p[1], p[2], Target(p))
    BY PointersAre
  <2>2. /\ q[1] \in Blocks /\ q[2] \in 1..Last /\ q = <<q[1], q[2]>>
        /\ Points(disk, q[1], q[2], Target(p))
    BY PointersAre
  <2>3. p[1] = q[1] /\ p[2] = q[2]
    BY <1>1, <2>1, <2>2 DEF Good, Exclusive
  <2> QED BY <2>1, <2>2, <2>3
<1>5. stage \in {"enter", "payload"} => job.meta \notin FreeBlocks
  BY <1>2 DEF VolumeInv, JobOk, Busy
<1>6. stage = "enter" => \A p \in Pointers : Target(p) # job.meta
  <2> SUFFICES ASSUME stage = "enter", NEW p \in Pointers PROVE Target(p) # job.meta
    OBVIOUS
  <2>1. Unnamed(disk, freechain, job.meta)
    BY DEF VolumeInv, JobOk, Busy, Entering
  <2> QED BY <2>1, PointersAre DEF Unnamed
<1> QED BY <1>2, <1>3, <1>4, <1>5, <1>6

\* As long as no call failed, none is lost.
LEMMA DescribedFollows ==
  ASSUME VolumeInv
  PROVE  AsDescribed
<1> SUFFICES ASSUME stage = "idle", ~broken
             PROVE  /\ 2..N \subseteq FreeBlocks \cup {Target(p) : p \in Pointers}
                    /\ \A b \in FreeBlocks : disk[b].kind = "free"
                    /\ \A p \in Pointers :
                         IF p[2] = Last
                         THEN disk[Target(p)].kind =
                                IF disk[p[1]].kind \in {"dir", "dircont"} THEN "dircont" ELSE "filecont"
                         ELSE IF disk[p[1]].kind \in {"dir", "dircont"} THEN disk[Target(p)].kind \in Named
                                                                        ELSE disk[Target(p)].kind = "payload"
  BY DEF AsDescribed
<1>1. ~Formatting /\ ~Entering
  BY DEF Formatting, Entering
<1>2. disk \in Disks /\ Good(disk, freechain)
  BY <1>1, Types DEF VolumeInv, Ready
<1>3. FreeBlocks = {c \in Blocks : InChain(freechain, c)}
  BY <1>2, ChainIs DEF Good
<1>4. 2..N \subseteq FreeBlocks \cup {Target(p) : p \in Pointers}
  <2> SUFFICES ASSUME NEW c \in 2..N, ~InChain(freechain, c) PROVE \E p \in Pointers : c = Target(p)
    BY <1>3, Sizes
  <2>1. Pending = {} /\ c \in Blocks
    BY <1>1, Sizes DEF Pending
  <2>2. \E b \in Blocks, i \in 1..Last : Points(disk, b, i, c)
    BY <1>1, <2>1 DEF VolumeInv, Described
  <2> QED BY <1>1, <2>1, <2>2, PointersAre
<1>5. \A b \in FreeBlocks : disk[b].kind = "free"
  BY <1>2, <1>3 DEF Good, ChainOk, FreeBlock, Blank
<1>6. ASSUME NEW p \in Pointers
      PROVE  disk[Target(p)].kind \in Expected(disk[p[1]].kind, p[2])
  <2>1. /\ p[1] \in Blocks /\ p[2] \in 1..Last /\ Target(p) \in Blocks
        /\ Points(disk, p[1], p[2], Target(p))
    BY <1>1, PointersAre
  <2>2. Future(Target(p)) = disk[Target(p)].kind
    BY DEF Future
  <2> QED BY <1>1, <2>1, <2>2 DEF VolumeInv, Described
<1> QED BY <1>4, <1>5, <1>6 DEF Expected

\* What was added is there.
LEMMA DurableFollows ==
  ASSUME VolumeInv
  PROVE  Durable
<1> SUFFICES ASSUME NEW f \in added, Complete(f.parent)
             PROVE  /\ f.block \in Entries(f.parent) /\ disk[f.block].kind = f.what
                    /\ f.what = "file" =>
                         \A c \in 0..f.chunks - 1 :
                           /\ disk[disk[f.block].word[FirstEntry(f.block) + c]].kind \in {"payload", "raw"}
                           /\ disk[disk[f.block].word[FirstEntry(f.block) + c]].text = <<f.block, c>>
  BY DEF Durable
<1>1. Stored(disk, freechain, f) /\ Listed(disk, f.parent, f.block)
  BY DEF VolumeInv, AddedOk
<1>2. \A b : FirstEntry(b) = From(disk, b)
  BY DEF FirstEntry, From
<1>3. f.block \in Entries(f.parent)
  <2>1. PICK i \in Words : Points(disk, f.parent, i, f.block)
    BY <1>1 DEF Listed
  <2>2. Last \notin Words /\ Words = 1..Last - 1 /\ Last \in Nat
    BY Sizes
  <2>3. i >= From(disk, f.parent) /\ disk[f.parent].word[i] = f.block /\ f.block # 0 /\ f.parent \in 1..N
    BY <2>1, <2>2 DEF Points
  <2>4. From(disk, f.parent) \in Nat
    <3>1. f.parent \in Blocks
      BY <2>3, Sizes
    <3> QED BY <3>1, Types, DiskTypes
  <2>5. i \in FirstEntry(f.parent)..Last - 1
    BY <1>2, <2>2, <2>3, <2>4
  <2> QED BY <2>3, <2>5 DEF Entries
<1> QED BY <1>1, <1>2, <1>3 DEF Stored, HasChunk

\* format(), addFile() and addDir() keep the volume as it should be: after any crash or failed
\* write a block is free or named once, and without failures none is lost.
THEOREM VolumeStaysSound == Spec => []VolumeSound
<1>1. Init => VolumeInv
  BY InitInv
<1>2. VolumeInv /\ [Next]_vars => VolumeInv'
  BY NextKeeps
<1>3. VolumeInv => VolumeSound
  BY ExclusiveFollows, DescribedFollows DEF VolumeSound
<1> QED BY <1>1, <1>2, <1>3, PTL DEF Spec

\* What a call that returned true has made is never lost or changed by the calls after it, whether
\* they fail, crash or run out of blocks.
THEOREM AddedStays == Spec => []Durable
<1>1. Init => VolumeInv
  BY InitInv
<1>2. VolumeInv /\ [Next]_vars => VolumeInv'
  BY NextKeeps
<1>3. VolumeInv => Durable
  BY DurableFollows
<1> QED BY <1>1, <1>2, <1>3, PTL DEF Spec

-----------------------------------------------------------------------------
(* Reading                                                                   *)

\* A step of module ClothesRead is one of module ClothesFS, or it writes nothing.
LEMMA ReadSteps ==
  ASSUME NextRead \/ UNCHANGED allVars
  PROVE  Next \/ UNCHANGED vars
BY DEF NextRead, Open, ReadNothing, Read, Close, allVars

\* Reading writes nothing: what holds of the volume holds while files are open.
THEOREM ReadingWritesNothing == SpecRead => Spec
<1>1. InitRead => Init
  BY DEF InitRead
<1>2. [NextRead]_allVars => [Next]_vars
  BY ReadSteps
<1> QED BY <1>1, <1>2, PTL DEF SpecRead, Spec

\* Only a call that adds a file writes the file's own block.
LEMMA FileKept ==
  ASSUME VolumeInv, ~Formatting, Next \/ UNCHANGED vars,
         NEW f \in Blocks, disk[f].kind = "file", Busy => f # job.block
  PROVE  ~Formatting' /\ disk'[f] = disk[f] /\ (Busy' => f # job'.block)
<1>1. disk \in Disks /\ Good(disk, freechain) /\ freechain \in Blocks /\ stage \notin {"format", "root", "slash"}
  BY Types DEF VolumeInv, Ready, Formatting
<1>2. ASSUME stage' = "idle", disk' = disk PROVE ~Formatting' /\ disk'[f] = disk[f] /\ (Busy' => f # job'.block)
  BY <1>2 DEF Formatting, Busy
<1>3. CASE \E what \in Named, parent \in Blocks, n \in NameLens, c \in Chunks : Add(what, parent, n, c)
  <2>1. /\ stage' = "enter" /\ disk' = disk /\ freechain # 0 /\ job'.block = freechain
    BY <1>3 DEF Add, Taken, Idle
  <2>2. f # freechain
    <3>1. disk[freechain] = FreeBlock(freechain)
      BY <1>1, <2>1, TakenFirst
    <3> QED BY <3>1 DEF FreeBlock, Blank
  <2> QED BY <2>1, <2>2 DEF Formatting, Busy
<1>4. CASE EnterFails \/ Abort
  BY <1>1, <1>2, <1>4 DEF EnterFails, Abort, GiveUp
<1>5. CASE UNCHANGED vars
  BY <1>5 DEF vars, Formatting, Busy
<1>6. CASE stage # "idle" /\ (EnterPlace \/ EnterNext \/ EnterMore \/ Continue \/ InitMore \/ InitMeta \/ UpdateMeta
                              \/ TakeData \/ InitData \/ PutData)
  <2>1. Busy /\ f # job.block
    BY <1>1, <1>6 DEF Busy, Formatting
  <2>2. JobType
    BY Types
  <2>3. ASSUME disk'[f] = disk[f], stage' = "idle" \/ (stage' \notin {"format", "root", "slash"} /\ job'.block = job.block)
        PROVE  ~Formatting' /\ disk'[f] = disk[f] /\ (Busy' => f # job'.block)
    BY <2>1, <2>3 DEF Formatting, Busy
  <2>4. ASSUME stage \in {"enter", "continue"}, ValidType(job.at, Into) PROVE f # job.at
    <3> SUFFICES ASSUME f = job.at PROVE FALSE
      OBVIOUS
    <3>1. Into = "file" /\ Entering
      BY <2>4 DEF ValidType, Entering
    <3>2. Filing
      BY <3>1 DEF Filing, Into
    <3>3. \E b \in Blocks : Points(disk, b, Last, job.at)
      BY <2>1, <3>1, <3>2 DEF VolumeInv, FilingOk
    <3> QED BY <3>3 DEF VolumeInv, LinksOk, Named
  <2>5. CASE EnterPlace
    <3>1. f # job.at
      BY <2>4, <2>5 DEF EnterPlace
    <3>2. disk'[f] = disk[f]
      BY <1>1, <2>5, <3>1 DEF EnterPlace, Put, Disks
    <3> QED BY <2>3, <2>5, <3>2 DEF EnterPlace
  <2>6. CASE EnterNext
    <3>1. disk' = disk /\ stage' = "enter" /\ job'.block = job.block
      BY <2>2, <2>6 DEF EnterNext, JobType
    <3> QED BY <2>3, <3>1
  <2>7. CASE EnterMore
    <3>1. disk' = disk /\ stage' = "continue" /\ job' = [job EXCEPT !.cont = freechain, !.plain = FALSE]
      BY <2>7 DEF EnterMore, Taken
    <3>2. job'.block = job.block
      BY <2>2, <3>1 DEF JobType
    <3> QED BY <2>3, <3>1, <3>2
  <2>8. CASE Continue
    <3>1. stage = "continue" /\ stage' = "more" /\ job' = job
      BY <2>8 DEF Continue
    <3>2. f # job.at
      BY <2>1, <2>4, <3>1 DEF VolumeInv, JobOk
    <3>3. disk'[f] = disk[f]
      BY <1>1, <2>8, <3>2 DEF Continue, Put, Disks
    <3> QED BY <2>3, <3>1, <3>3
  <2>9. CASE InitMore
    <3>1. stage = "more" /\ stage' = "enter" /\ job' = [job EXCEPT !.at = job.cont, !.cont = 0]
      BY <2>9 DEF InitMore
    <3>2. job'.block = job.block
      BY <2>2, <3>1 DEF JobType
    <3>3. f # job.cont
      BY <2>1, <3>1 DEF VolumeInv, JobOk
    <3>4. disk'[f] = disk[f]
      BY <1>1, <2>9, <3>3 DEF InitMore, Put, Disks
    <3> QED BY <2>3, <3>1, <3>2, <3>4
  <2>10. CASE InitMeta
    <3>1. disk'[f] = disk[f]
      BY <1>1, <2>1, <2>10 DEF InitMeta, Put, Disks
    <3> QED BY <2>3, <2>10, <3>1 DEF InitMeta
  <2>11. CASE UpdateMeta
    <3>1. disk'[f] = disk[f]
      BY <1>1, <2>1, <2>11 DEF UpdateMeta, Put, Disks
    <3>2. stage' = "idle" \/ (stage' = "data" /\ job' = job)
      BY <2>11 DEF UpdateMeta, Done
    <3> QED BY <2>3, <3>1, <3>2
  <2>12. CASE TakeData
    <3>1. disk' = disk /\ stage' = "enter" /\ job' = [job EXCEPT !.at = job.block, !.meta = freechain]
      BY <2>12 DEF TakeData, Taken
    <3>2. job'.block = job.block
      BY <2>2, <3>1 DEF JobType
    <3> QED BY <2>3, <3>1, <3>2
  <2>13. CASE InitData
    <3>1. stage = "payload" /\ stage' = "contents" /\ job' = job
      BY <2>13 DEF InitData
    <3>2. f # job.meta
      BY <2>1, <3>1 DEF VolumeInv, JobOk
    <3>3. disk'[f] = disk[f]
      BY <1>1, <2>13, <3>2 DEF InitData, Put, Fault, Disks
    <3> QED BY <2>3, <3>1, <3>3
  <2>14. CASE PutData
    <3>1. stage = "contents" /\ (stage' = "idle" \/ (stage' = "data" /\ job' = [job EXCEPT !.left = job.left - 1]))
      BY <2>14 DEF PutData, Done
    <3>2. stage' = "idle" \/ (stage' = "data" /\ job'.block = job.block)
      BY <2>2, <3>1 DEF JobType
    <3>3. f # job.meta
      BY <2>1, <3>1 DEF VolumeInv, JobOk
    <3>4. disk'[f] = disk[f]
      BY <1>1, <2>14, <3>3 DEF PutData, Put, Disks
    <3> QED BY <2>3, <3>2, <3>4
  <2> QED BY <1>6, <2>5, <2>6, <2>7, <2>8, <2>9, <2>10, <2>11, <2>12, <2>13, <2>14
<1>7. ~(FormatBlock \/ FormatFails \/ FormatHeader \/ FormatRoot \/ FormatSlash)
  BY <1>1 DEF FormatBlock, FormatFails, FormatHeader, FormatRoot, FormatSlash
<1>8. (EnterPlace \/ EnterNext \/ EnterMore \/ Continue \/ InitMore \/ InitMeta \/ UpdateMeta
       \/ TakeData \/ InitData \/ PutData) => stage # "idle"
  BY DEF EnterPlace, EnterNext, EnterMore, Continue, InitMore, InitMeta, UpdateMeta, TakeData, InitData, PutData
<1> QED BY <1>3, <1>4, <1>5, <1>6, <1>7, <1>8 DEF Next

\* Where a listing ends.
LEMMA LengthIs ==
  ASSUME disk \in Disks, NEW b \in Blocks, disk[b].kind \in Meta
  PROVE  /\ Length(b) \in 0..Last
         /\ \A i \in 0..Length(b) - 1 : FirstEntry(b) + i < Last /\ disk[b].word[FirstEntry(b) + i] # 0
         /\ FirstEntry(b) + Length(b) >= Last \/ disk[b].word[FirstEntry(b) + Length(b)] = 0
<1> DEFINE Ends(n) == FirstEntry(b) + n >= Last \/ disk[b].word[FirstEntry(b) + n] = 0
           Goes(n) == \A i \in 0..n - 1 : FirstEntry(b) + i < Last /\ disk[b].word[FirstEntry(b) + i] # 0
           T == {n \in 0..Last : Ends(n)}
<1>1. Last \in Nat /\ Last >= 6
  BY Sizes
<1>2. FirstEntry(b) \in Nat /\ FirstEntry(b) >= 1
  <2>1. FirstEntry(b) = From(disk, b)
    BY DEF FirstEntry, From
  <2> QED BY <2>1, DiskTypes
<1>3. Last \in T
  BY <1>1, <1>2
<1>4. PICK n \in T : \A m \in T : n <= m
  <2>1. T \in SUBSET Nat /\ T # {}
    BY <1>1, <1>3
  <2> HIDE DEF T
  <2> QED BY <2>1, LeastNat
<1>5. n \in 0..Last /\ Ends(n)
  BY <1>4
<1>6. Goes(n)
  <2> SUFFICES ASSUME NEW i \in 0..n - 1 PROVE ~Ends(i) /\ (~Ends(i) => FirstEntry(b) + i < Last)
    OBVIOUS
  <2>1. i \in 0..Last /\ ~(n <= i)
    BY <1>1, <1>5
  <2>2. i \notin T
    <3> HIDE DEF T
    <3> QED BY <1>4, <2>1
  <2> QED BY <1>1, <1>2, <2>1, <2>2
<1>7. Length(b) = CHOOSE m \in 0..Last : Goes(m) /\ Ends(m)
  BY DEF Length
<1> HIDE DEF Ends, Goes
<1>8. Length(b) \in 0..Last /\ Goes(Length(b)) /\ Ends(Length(b))
  BY <1>5, <1>6, <1>7
<1> QED BY <1>8 DEF Ends, Goes

\* What is listed is named there.
LEMMA ListingPoints ==
  ASSUME disk \in Disks, Good(disk, freechain), NEW b \in Blocks, NEW k \in 1..Length(b)
  PROVE  /\ Length(b) \in Nat /\ FirstEntry(b) + k - 1 \in Words /\ Listing(b)[k] \in Blocks \ {0}
         /\ Listing(b)[k] = disk[b].word[FirstEntry(b) + k - 1]
         /\ Points(disk, b, FirstEntry(b) + k - 1, Listing(b)[k])
<1>1. disk[b].kind \in Meta
  BY DEF Length
<1>2. /\ Length(b) \in 0..Last
      /\ \A i \in 0..Length(b) - 1 : FirstEntry(b) + i < Last /\ disk[b].word[FirstEntry(b) + i] # 0
  BY <1>1, LengthIs
<1>3. FirstEntry(b) = From(disk, b) /\ From(disk, b) \in Nat /\ From(disk, b) >= 1
  <2>1. FirstEntry(b) = From(disk, b)
    BY DEF FirstEntry, From
  <2> QED BY <2>1, DiskTypes
<1>4. Last \in Nat /\ Words = 1..Last - 1 /\ Length(b) \in Nat
  BY <1>2, Sizes
<1>5. PICK i : i = FirstEntry(b) + k - 1
  OBVIOUS
<1>6. k - 1 \in 0..Length(b) - 1 /\ FirstEntry(b) + (k - 1) = i
  BY <1>3, <1>4, <1>5
<1>7. i < Last /\ disk[b].word[i] # 0 /\ i \in Nat /\ i >= From(disk, b)
  <2>1. FirstEntry(b) + (k - 1) < Last /\ disk[b].word[FirstEntry(b) + (k - 1)] # 0
    BY <1>2, <1>6
  <2> QED BY <1>3, <1>4, <1>5, <1>6, <2>1
<1>8. i \in Words
  BY <1>3, <1>4, <1>7
<1>9. Listing(b)[k] = disk[b].word[i]
  BY <1>5 DEF Listing
<1>10. disk[b].word[i] \in Blocks
  BY <1>1, <1>7, <1>8 DEF Good, Exclusive
<1>11. Points(disk, b, i, Listing(b)[k])
  <2>1. b \in 1..N
    BY <1>1, NotMeta
  <2> QED BY <1>1, <1>7, <1>8, <1>9, <2>1 DEF Points
<1> QED BY <1>4, <1>5, <1>7, <1>8, <1>9, <1>10, <1>11

\* So is what findFile() finds in a directory; it is the first of its name.
LEMMA FirstNamedIs ==
  ASSUME disk \in Disks, Good(disk, freechain), NEW b \in Blocks, NEW name
  PROVE  /\ FirstNamed(b, name) \in Blocks
         /\ FirstNamed(b, name) # 0 =>
              \E k \in 1..Length(b) : FirstNamed(b, name) = Listing(b)[k] /\ NameOf(Listing(b)[k]) = name
         /\ \A k \in 1..Length(b) : NameOf(Listing(b)[k]) = name => FirstNamed(b, name) # 0
<1> DEFINE l == Listing(b)
           at == {k \in DOMAIN l : NameOf(l[k]) = name}
<1>1. DOMAIN l = 1..Length(b)
  BY DEF Listing
<1>2. FirstNamed(b, name) = IF at = {} THEN 0 ELSE l[CHOOSE k \in at : \A j \in at : k <= j]
  BY DEF FirstNamed
<1>3. CASE at = {}
  BY <1>1, <1>2, <1>3, Sizes
<1>4. CASE at # {}
  <2>1. at \in SUBSET Nat
    BY <1>1
  <2>2. PICK k \in at : \A j \in at : k <= j
    <3> HIDE DEF at
    <3> QED BY <1>4, <2>1, LeastNat
  <2>3. PICK m : m = CHOOSE k1 \in at : \A j \in at : k1 <= j
    OBVIOUS
  <2>4. m \in at
    <3> HIDE DEF at
    <3> QED BY <2>2, <2>3
  <2>5. m \in 1..Length(b) /\ NameOf(l[m]) = name
    BY <1>1, <2>4
  <2>6. FirstNamed(b, name) = l[m]
    BY <1>2, <1>4, <2>3
  <2>7. l[m] \in Blocks \ {0}
    BY <2>5, ListingPoints
  <2> HIDE DEF at
  <2> QED BY <2>5, <2>6, <2>7
<1> QED BY <1>3, <1>4

\* from is what FindFile describes.
IsSearch(path, from) ==
  from = [part \in 1..Len(path.names) |->
           [parent \in Blocks |->
              LET e == FirstNamed(parent, path.names[part])
              IN  IF e # 0 /\ part < Parts(path) /\ IsDir(e) THEN from[part + 1][e] ELSE e]]

\* A path has one name or two.
IsPath(path) == path.slash \in BOOLEAN /\ Len(path.names) \in 1..2

\* Those that are tried are such paths.
LEMMA TriedPaths ==
  ASSUME NEW path \in Paths
  PROVE  IsPath(path)
<1>1. path.names \in {<<n>> : n \in NameLens} \cup (NameLens \X NameLens) /\ path.slash \in BOOLEAN
  BY DEF Paths
<1>2. Len(path.names) \in 1..2
  BY <1>1
<1> QED BY <1>1, <1>2 DEF IsPath

\* How many of them are gone into.
LEMMA PathIs ==
  ASSUME NEW path, IsPath(path)
  PROVE  /\ Len(path.names) \in 1..2 /\ Parts(path) \in Int /\ Parts(path) <= Len(path.names)
         /\ path.slash => Parts(path) = Len(path.names)
         /\ ~path.slash => Parts(path) = Len(path.names) - 1
<1>1. path.slash \in BOOLEAN
  BY DEF IsPath
<1>2. Len(path.names) \in 1..2
  BY DEF IsPath
<1>3. PICK l : l = Len(path.names)
  OBVIOUS
<1>4. path.slash => Parts(path) = l - 0
  BY <1>3 DEF Parts
<1>5. ~path.slash => Parts(path) = l - 1
  BY <1>3 DEF Parts
<1> QED BY <1>1, <1>2, <1>3, <1>4, <1>5

\* The entry that a part of a path names.
Entry(path, part, parent) == FirstNamed(parent, path.names[part])

\* findFile() goes on from the entry.
GoesOn(path, part, e) == e # 0 /\ part < Parts(path) /\ IsDir(e)

\* A search from each part, and from each block.
LEMMA SearchIs ==
  ASSUME NEW path, NEW f, IsSearch(path, f), NEW part \in 1..Len(path.names), NEW parent \in Blocks
  PROVE  f[part][parent] = IF GoesOn(path, part, Entry(path, part, parent))
                           THEN f[part + 1][Entry(path, part, parent)] ELSE Entry(path, part, parent)
<1>1. f[part] = [p \in Blocks |->
              LET e == FirstNamed(p, path.names[part])
              IN  IF e # 0 /\ part < Parts(path) /\ IsDir(e) THEN f[part + 1][e] ELSE e]
  BY Zenon DEF IsSearch
<1> QED BY <1>1 DEF GoesOn, Entry

\* What findFile() comes to.
LEMMA FindIs ==
  ASSUME disk \in Disks, Good(disk, freechain), NEW path, IsPath(path)
  PROVE  FindFile(path) = IF GoesOn(path, 1, Entry(path, 1, 1))
                          THEN Entry(path, 2, Entry(path, 1, 1)) ELSE Entry(path, 1, 1)
<1> DEFINE L == Len(path.names)
           Here(part) == [parent \in Blocks |->
                IF GoesOn(path, part, Entry(path, part, parent))
                THEN Entry(path, 2, Entry(path, part, parent)) ELSE Entry(path, part, parent)]
           g == [part \in 1..L |-> Here(part)]
           Goes(part) == [parent \in Blocks |->
              LET e == FirstNamed(parent, path.names[part])
              IN  IF e # 0 /\ part < Parts(path) /\ IsDir(e) THEN g[part + 1][e] ELSE e]
<1>1. L \in 1..2 /\ Parts(path) \in Int /\ Parts(path) <= L /\ 1 \in Blocks
  BY PathIs, Sizes
<1>2. \A part \in 1..L, parent \in Blocks : Entry(path, part, parent) \in Blocks
  BY FirstNamedIs DEF Entry
<1>3. \A part \in 1..L : Goes(part) = Here(part)
  <2> SUFFICES ASSUME NEW part \in 1..L, NEW parent \in Blocks
               PROVE  (IF GoesOn(path, part, Entry(path, part, parent))
                       THEN g[part + 1][Entry(path, part, parent)] ELSE Entry(path, part, parent))
                    = (IF GoesOn(path, part, Entry(path, part, parent))
                       THEN Entry(path, 2, Entry(path, part, parent)) ELSE Entry(path, part, parent))
    BY DEF GoesOn, Entry
  <2> SUFFICES ASSUME GoesOn(path, part, Entry(path, part, parent))
               PROVE  g[part + 1][Entry(path, part, parent)] = Entry(path, 2, Entry(path, part, parent))
    OBVIOUS
  <2>1. PICK c \in Blocks : c = Entry(path, part, parent)
    BY <1>2
  <2>2. part + 1 = 2 /\ 2 \in 1..L /\ ~(2 < Parts(path))
    <3>1. part < Parts(path)
      BY DEF GoesOn
    <3>2. PICK l : l = L
      OBVIOUS
    <3> HIDE DEF L
    <3> QED BY <1>1, <3>1, <3>2
  <2>3. g[2][c] = Entry(path, 2, c)
    <3>1. g[2] = Here(2)
      <4> HIDE DEF Here
      <4> QED BY <2>2
    <3>2. ~GoesOn(path, 2, Entry(path, 2, c))
      BY <2>2 DEF GoesOn
    <3>3. Here(2)[c] = Entry(path, 2, c)
      BY <3>2
    <3> QED BY <3>1, <3>3
  <2> HIDE DEF g, Here
  <2> QED BY <2>1, <2>2, <2>3
<1>4. IsSearch(path, g)
  <2>1. g = [part \in 1..L |-> Goes(part)]
    <3> HIDE DEF Goes, Here
    <3> QED BY <1>3
  <2> HIDE DEF g
  <2> QED BY <2>1 DEF IsSearch
<1> HIDE DEF g
<1>5. FindFile(path) = (CHOOSE from : IsSearch(path, from))[1][1]
  BY DEF FindFile, IsSearch
<1>6. PICK f : f = CHOOSE from : IsSearch(path, from)
  OBVIOUS
<1>7. IsSearch(path, f)
  BY <1>4, <1>6
<1>8. FindFile(path) = f[1][1] /\ 1 \in 1..L
  <2>1. 1 \in 1..L
    <3> HIDE DEF L
    <3> QED BY <1>1
  <2> QED BY <1>5, <1>6, <2>1, Zenon
<1>9. PICK c \in Blocks : c = Entry(path, 1, 1)
  BY <1>1, <1>2, <1>8
<1>10. f[1][1] = IF GoesOn(path, 1, c) THEN f[1 + 1][c] ELSE c
  BY <1>1, <1>7, <1>8, <1>9, SearchIs
<1>11. ASSUME GoesOn(path, 1, c) PROVE f[1 + 1][c] = Entry(path, 2, c)
  <2>1. 2 \in 1..L /\ ~(2 < Parts(path)) /\ 1 + 1 = 2
    <3>1. 1 < Parts(path)
      BY <1>11 DEF GoesOn
    <3> HIDE DEF L
    <3> QED BY <1>1, <3>1
  <2>2. ~GoesOn(path, 2, Entry(path, 2, c))
    BY <2>1 DEF GoesOn
  <2> QED BY <1>7, <2>1, <2>2, SearchIs
<1> QED BY <1>8, <1>9, <1>10, <1>11

\* What findFile() finds is entered in a block.
LEMMA FoundIsNamed ==
  ASSUME disk \in Disks, Good(disk, freechain), NEW path, IsPath(path), FindFile(path) # 0
  PROVE  /\ FindFile(path) \in Blocks
         /\ \E b \in Blocks, i \in Words : Points(disk, b, i, FindFile(path))
<1>1. ASSUME NEW b \in Blocks, NEW name, FirstNamed(b, name) # 0
      PROVE  \E i \in Words : Points(disk, b, i, FirstNamed(b, name))
  <2>1. PICK k \in 1..Length(b) : FirstNamed(b, name) = Listing(b)[k]
    BY <1>1, FirstNamedIs
  <2> QED BY <2>1, ListingPoints
<1>2. PICK e : e = Entry(path, 1, 1)
  OBVIOUS
<1>3. 1 \in Blocks /\ e \in Blocks
  <2>1. 1 \in Blocks
    BY Sizes
  <2> QED BY <1>2, <2>1, FirstNamedIs DEF Entry
<1>4. PICK f : f = FindFile(path)
  OBVIOUS
<1>5. f = IF GoesOn(path, 1, e) THEN Entry(path, 2, e) ELSE e
  BY <1>2, <1>4, FindIs
<1>6. PICK b \in Blocks : \E name : f = FirstNamed(b, name)
  BY <1>2, <1>3, <1>5 DEF Entry
<1>7. PICK name : f = FirstNamed(b, name)
  BY <1>6
<1>8. f \in Blocks
  BY <1>7, FirstNamedIs
<1>9. \E i \in Words : Points(disk, b, i, f)
  BY <1>1, <1>4, <1>7
<1> QED BY <1>4, <1>8, <1>9

\* The texts that the payload blocks of file f may have when they are read.
Own(f) == {NoText, <<f, 0>>}

\* The unit that comes next.
NextUnit(content, pos) == IF content.kind = "payload" THEN pos - 1 ELSE pos

\* What has been read ends where the Iterator stands.
OutOk(content, pos, o, f) ==
  /\ o \in Seq([text: Nat \X Nat, unit: Int])
  /\ \A k \in DOMAIN o :
       /\ o[k].text \in Own(f)
       /\ k > 1 /\ o[k - 1].unit < PerBlock - 1 =>
            o[k].unit = o[k - 1].unit + 1 /\ o[k].text = o[k - 1].text
  /\ o # <<>> => IF pos > PerBlock THEN o[Len(o)].unit >= PerBlock - 1
                 ELSE o[Len(o)].unit + 1 = NextUnit(content, pos) /\ o[Len(o)].text = content.text

IterType ==
  iter \in [open: BOOLEAN, block: Blocks, data: BlockTypes, data_block: Blocks, pos: Nat, content: BlockTypes]

\* The file that is open is on the disk as it was, and what was loaded is its own.
HandleOk ==
  /\ IterType
  /\ iter.open =>
       /\ ~Formatting
       /\ disk[iter.block] = iter.data /\ iter.data.kind = "file"
       /\ Busy => iter.block # job.block
       /\ iter.content.text \in Own(iter.block)
       /\ iter.pos \in 0..PerBlock + 1
       /\ iter.pos = 0 => out = <<>> /\ iter.content.kind # "payload"
       /\ OutOk(iter.content, iter.pos, out, iter.block)

\* The block that read() loads is the file's own, or the file has none.
LEMMA PayloadIs ==
  ASSUME VolumeInv, HandleOk, iter.open
  PROVE  /\ Payload \in Blocks
         /\ Payload # 0 => disk[Payload] \in BlockTypes /\ disk[Payload].text \in Own(iter.block)
<1>1. /\ disk \in Disks /\ ~Formatting /\ iter.block \in Blocks /\ disk[iter.block] = iter.data
      /\ iter.data.kind = "file"
  BY Types DEF VolumeInv, HandleOk, IterType
<1>2. PICK b \in Blocks : b = iter.block
  BY <1>1
<1>3. PICK w : w = From(disk, b)
  OBVIOUS
<1>4. DataWord = w /\ disk[b].kind = "file"
  BY <1>1, <1>2, <1>3 DEF DataWord, From, Named
<1>5. w = 4 + Rounded(disk[b].word[3])
  BY <1>3, <1>4 DEF From, Named
<1>6. CASE WellNamed(disk, b)
  <2>1. w \in Words
    <3>1. Rounded(disk[b].word[3]) \in 1..Last - 5
      BY <1>6, Roundings DEF WellNamed
    <3> QED BY <1>5, <3>1, Sizes
  <2>2. w < Last
    BY <2>1, Sizes
  <2>3. Payload = disk[b].word[w]
    BY <1>1, <1>2, <1>4, <2>2 DEF Payload
  <2>4. Payload # 0 => Payload \in 2..N /\ disk[Payload].text \in {NoText, <<b, 0>>}
    BY <1>1, <1>3, <1>4, <1>6, <2>3 DEF VolumeInv, FilesOk
  <2>5. Payload \in Blocks
    BY <2>4, Sizes
  <2> HIDE DEF Payload
  <2> QED BY <1>1, <1>2, <2>4, <2>5 DEF Own, Disks
<1>7. CASE ~WellNamed(disk, b)
  <2>1. disk[b].word = Zero
    BY <1>1, <1>4, <1>7 DEF VolumeInv, FilesOk
  <2>2. w = 4 /\ w \in Words /\ w < Last
    <3>1. disk[b].word[3] = 0
      BY <2>1, Sizes DEF Zero
    <3>2. Rounded(disk[b].word[3]) = 0
      BY <3>1, Roundings
    <3> QED BY <1>5, <3>2, Sizes
  <2>3. Payload = 0
    BY <1>1, <1>2, <1>4, <2>1, <2>2 DEF Payload, Zero
  <2> QED BY <2>3, Sizes
<1> QED BY <1>6, <1>7

\* Nothing is open at first.
LEMMA InitHandle == ASSUME InitRead PROVE HandleOk
<1>1. 0 \in Blocks /\ Blank \in BlockTypes
  BY Sizes DEF Blank, BlockTypes, Kinds, NoText, Zero
<1> QED BY <1>1 DEF InitRead, Closed, HandleOk, IterType

\* The calls that write leave an open file alone.
LEMMA WritesKeepHandle ==
  ASSUME VolumeInv, HandleOk, Next \/ UNCHANGED vars, UNCHANGED readVars
  PROVE  HandleOk'
<1>1. iter' = iter /\ out' = out
  BY DEF readVars
<1>2. ASSUME iter.open
      PROVE  ~Formatting' /\ disk'[iter.block] = disk[iter.block] /\ (Busy' => iter.block # job'.block)
  <2>1. PICK f : f = iter.block
    OBVIOUS
  <2>2. f \in Blocks /\ disk[f].kind = "file" /\ (Busy => f # job.block) /\ ~Formatting
    BY <1>2, <2>1 DEF HandleOk, IterType
  <2>3. ~Formatting' /\ disk'[f] = disk[f] /\ (Busy' => f # job'.block)
    BY <2>2, FileKept
  <2> QED BY <2>1, <2>3
<1> QED BY <1>1, <1>2 DEF HandleOk, IterType

\* open() takes a copy of a file's block.
LEMMA OpenKeeps ==
  ASSUME VolumeInv, HandleOk, NEW path \in Paths, Open(path)
  PROVE  HandleOk'
<1>1. stage = "idle" /\ disk' = disk /\ stage' = stage /\ job' = job
  BY DEF Open, vars
<1>2. PICK f : f = FindFile(path)
  OBVIOUS
<1>3. /\ f # 0 /\ IsFile(f) /\ out' = <<>>
      /\ iter' = [Closed EXCEPT !.open = TRUE, !.block = f, !.data = disk[f]]
  BY <1>2 DEF Open
<1>4. disk \in Disks /\ Good(disk, freechain) /\ ~Formatting
  BY <1>1, Types DEF VolumeInv, Ready, Formatting
<1>5. f \in Blocks /\ \E b \in Blocks, i \in Words : Points(disk, b, i, f)
  BY <1>2, <1>3, <1>4, TriedPaths, FoundIsNamed
<1>6. disk[f].kind = "file"
  <2> SUFFICES ASSUME disk[f].kind = "filecont" PROVE FALSE
    BY <1>3 DEF IsFile
  <2>1. \E b \in Blocks : Points(disk, b, Last, f)
    BY <1>4, <1>5 DEF VolumeInv, LinksOk, Cont
  <2>2. \A i \in Words : i \in 1..Last /\ i # Last
    BY Sizes
  <2>3. Last \in 1..Last
    BY Sizes
  <2> QED BY <1>4, <1>5, <2>1, <2>2, <2>3 DEF Good, Exclusive
<1>7. disk[f] \in BlockTypes /\ 0 \in Blocks /\ Blank \in BlockTypes
  <2>1. 0 \in Blocks /\ Blank \in BlockTypes
    BY Sizes DEF Blank, BlockTypes, Kinds, NoText, Zero
  <2> QED BY <1>4, <1>5, <2>1, DiskTypes
<1>8. iter' = [open |-> TRUE, block |-> f, data |-> disk[f], data_block |-> 0, pos |-> 0, content |-> Blank]
  BY <1>3 DEF Closed
<1>9. IterType'
  BY <1>5, <1>7, <1>8 DEF IterType
<1>10. Blank.text = NoText /\ Blank.kind # "payload" /\ 0 \in 0..PerBlock + 1
  BY ReadAssumption DEF Blank
<1>11. OutOk(Blank, 0, <<>>, f)
  BY DEF OutOk
<1>12. ~Formatting' /\ ~Busy'
  BY <1>1 DEF Formatting, Busy
<1>13. Blank.text \in Own(f)
  BY <1>10 DEF Own
<1>14. /\ iter'.block = f /\ iter'.data = disk'[f] /\ iter'.pos = 0 /\ iter'.content = Blank
       /\ disk'[f].kind = "file"
  BY <1>1, <1>6, <1>8
<1>15. /\ disk'[iter'.block] = iter'.data /\ iter'.data.kind = "file"
       /\ iter'.content.text \in Own(iter'.block)
       /\ iter'.pos \in 0..PerBlock + 1
       /\ iter'.pos = 0 => out' = <<>> /\ iter'.content.kind # "payload"
       /\ OutOk(iter'.content, iter'.pos, out', iter'.block)
  BY <1>3, <1>10, <1>11, <1>13, <1>14
<1> QED BY <1>9, <1>12, <1>15 DEF HandleOk

\* read() returns 0.
LEMMA ReadNothingKeeps ==
  ASSUME VolumeInv, HandleOk, ReadNothing
  PROVE  HandleOk'
<1>1. stage = "idle" /\ disk' = disk /\ stage' = stage /\ job' = job /\ out' = out /\ iter.open
  BY DEF ReadNothing, vars
<1>2. PICK p : p = Payload
  OBVIOUS
<1>3. PICK c : c = IF p = 0 THEN iter.content ELSE disk[p]
  OBVIOUS
<1>4. iter' = [iter EXCEPT !.data_block = p, !.content = c]
  BY <1>2, <1>3 DEF ReadNothing
<1>5. p \in Blocks /\ (p # 0 => disk[p] \in BlockTypes /\ disk[p].text \in Own(iter.block) /\ disk[p].kind # "payload")
  BY <1>1, <1>2, PayloadIs DEF ReadNothing
<1>6. IterType /\ iter.pos \in 0..PerBlock + 1 /\ iter.content.text \in Own(iter.block)
  BY <1>1 DEF HandleOk
<1>7. c \in BlockTypes /\ c.text \in Own(iter.block)
  BY <1>3, <1>5, <1>6 DEF IterType
<1>8. /\ IterType' /\ iter'.open = iter.open /\ iter'.block = iter.block /\ iter'.data = iter.data
      /\ iter'.pos = iter.pos /\ iter'.content = c
  BY <1>4, <1>5, <1>6, <1>7 DEF IterType
<1>9. iter.pos = 0 => out = <<>> /\ c.kind # "payload"
  BY <1>1, <1>3, <1>5 DEF HandleOk
<1>10. iter.pos # 0 => iter.pos > PerBlock
  BY <1>6, ReadAssumption DEF ReadNothing, Loads
<1>11. OutOk(c, iter.pos, out, iter.block)
  <2>1. OutOk(iter.content, iter.pos, out, iter.block)
    BY <1>1 DEF HandleOk
  <2> QED BY <1>9, <1>10, <2>1 DEF OutOk
<1>12. ~Formatting' /\ ~Busy'
  BY <1>1 DEF Formatting, Busy
<1>13. disk[iter.block] = iter.data /\ iter.data.kind = "file"
  BY <1>1 DEF HandleOk
<1> QED BY <1>1, <1>6, <1>7, <1>8, <1>9, <1>11, <1>12, <1>13 DEF HandleOk

\* Sequences of units.
LEMMA Joined ==
  ASSUME NEW T, NEW a \in Seq(T), NEW b \in Seq(T), NEW l, l = Len(a), NEW n, n = Len(b)
  PROVE  /\ l \in Nat /\ n \in Nat /\ a \o b \in Seq(T) /\ Len(a \o b) = l + n /\ DOMAIN (a \o b) = 1..l + n
         /\ \A k \in 1..l : (a \o b)[k] = a[k]
         /\ \A k \in 1..n : (a \o b)[l + k] = b[k]
<1>1. l \in Nat /\ n \in Nat /\ a \o b \in Seq(T) /\ Len(a \o b) = l + n
  OBVIOUS
<1>2. DOMAIN (a \o b) = 1..l + n
  BY <1>1
<1>3. \A k \in 1..l : (a \o b)[k] = a[k]
  OBVIOUS
<1>4. \A k \in 1..n : (a \o b)[l + k] = b[k]
  OBVIOUS
<1> QED BY <1>1, <1>2, <1>3, <1>4

\* What is copied out of a block follows what was read before.
LEMMA CopiedOk ==
  ASSUME NEW c \in BlockTypes, NEW f, c.text \in Own(f), NEW pos \in 0..PerBlock, NEW o,
         c.kind = "payload" => pos # 0,
         NEW old, NEW before, OutOk(old, before, o, f),
         \/ before > PerBlock \/ o = <<>>
         \/ before = pos /\ old = c,
         NEW n \in 1..PerBlock + 1 - pos
  PROVE  OutOk(c, pos + n, o \o Units(c, pos, n), f)
<1> DEFINE at == NextUnit(c, pos)
           u == Units(c, pos, n)
           r == o \o u
<1>1. PerBlock \in Nat /\ PerBlock >= 1 /\ pos \in Nat /\ n \in Nat /\ n >= 1 /\ pos + n <= PerBlock + 1
  BY ReadAssumption
<1>2. at \in Int /\ at + n \in Int /\ (at = pos \/ (at = pos - 1 /\ c.kind = "payload"))
  BY <1>1 DEF NextUnit
<1>3. u = [k \in 1..n |-> [text |-> c.text, unit |-> at + k - 1]]
  <2>1. CASE c.kind = "payload"
    <3>1. u = [k \in 1..n |-> [text |-> c.text, unit |-> pos + k - 2]]
      BY <2>1 DEF Units
    <3>2. at = pos - 1
      BY <2>1 DEF NextUnit
    <3>3. \A k \in 1..n : pos + k - 2 = at + k - 1
      BY <1>1, <3>2
    <3> HIDE DEF at, u
    <3> QED BY <3>1, <3>3
  <2>2. CASE c.kind # "payload"
    <3>1. u = [k \in 1..n |-> [text |-> c.text, unit |-> pos + k - 1]]
      BY <2>2 DEF Units
    <3>2. at = pos
      BY <2>2 DEF NextUnit
    <3> HIDE DEF at, u
    <3> QED BY <3>1, <3>2
  <2> QED BY <2>1, <2>2
<1> HIDE DEF at, u
<1>4. /\ o \in Seq([text: Nat \X Nat, unit: Int])
      /\ \A k \in DOMAIN o :
           /\ o[k].text \in Own(f)
           /\ k > 1 /\ o[k - 1].unit < PerBlock - 1 =>
                o[k].unit = o[k - 1].unit + 1 /\ o[k].text = o[k - 1].text
      /\ o # <<>> => IF before > PerBlock THEN o[Len(o)].unit >= PerBlock - 1
                     ELSE o[Len(o)].unit + 1 = NextUnit(old, before) /\ o[Len(o)].text = old.text
  BY DEF OutOk
<1>5. c.text \in Nat \X Nat
  BY DEF BlockTypes
<1>6. u \in Seq([text: Nat \X Nat, unit: Int]) /\ Len(u) = n
  <2>1. \A k \in 1..n : [text |-> c.text, unit |-> at + k - 1] \in [text: Nat \X Nat, unit: Int]
    BY <1>1, <1>2, <1>5
  <2>2. PICK T : T = [text: Nat \X Nat, unit: Int]
    OBVIOUS
  <2>3. \A k \in 1..n : u[k] \in T
    BY <1>3, <2>1, <2>2
  <2>4. u = [k \in 1..n |-> u[k]]
    BY <1>3
  <2>5. [k \in 1..n |-> u[k]] \in [1..n -> T]
    BY <2>3
  <2>6. n \in Nat
    BY <1>1
  <2>7. u \in [1..n -> T]
    BY ONLY <2>4, <2>5
  <2>8. u \in Seq(T) /\ Len(u) = n
    BY ONLY <2>6, <2>7
  <2> QED BY <2>2, <2>8
<1>7. PICK l : l = Len(o)
  OBVIOUS
<1>8. /\ r \in Seq([text: Nat \X Nat, unit: Int]) /\ l \in Nat /\ Len(r) = l + n /\ DOMAIN r = 1..l + n
      /\ \A k \in 1..l : r[k] = o[k]
      /\ \A k \in 1..n : r[l + k] = u[k]
  <2>1. o \in Seq([text: Nat \X Nat, unit: Int]) /\ u \in Seq([text: Nat \X Nat, unit: Int]) /\ l = Len(o) /\ n = Len(u)
    BY <1>4, <1>6, <1>7
  <2> QED BY <2>1, Joined
<1>9. \A k \in 1..n : u[k].text = c.text /\ u[k].unit = at + k - 1
  BY <1>3
<1>10. DOMAIN o = 1..l
  BY <1>4, <1>7
<1>11. \A k \in l + 1..l + n : r[k].text = c.text /\ r[k].unit = at + (k - l) - 1
  <2> SUFFICES ASSUME NEW k \in l + 1..l + n PROVE r[k].text = c.text /\ r[k].unit = at + (k - l) - 1
    OBVIOUS
  <2>1. PICK j : j = k - l
    OBVIOUS
  <2>2. j \in 1..n /\ k = l + j
    BY <1>1, <1>8, <2>1
  <2> HIDE DEF r
  <2> QED BY <1>8, <1>9, <2>1, <2>2
<1>12. l > 0 => o[l].unit >= PerBlock - 1 \/ (o[l].unit + 1 = at /\ o[l].text = c.text)
  <2> SUFFICES ASSUME l > 0 PROVE o[l].unit >= PerBlock - 1 \/ (o[l].unit + 1 = at /\ o[l].text = c.text)
    OBVIOUS
  <2>1. o # <<>>
    BY <1>7
  <2> QED BY <1>1, <1>4, <1>7, <2>1 DEF at
<1> HIDE DEF r
<1>13. ASSUME NEW k \in DOMAIN r
       PROVE  /\ r[k].text \in Own(f)
              /\ k > 1 /\ r[k - 1].unit < PerBlock - 1 =>
                   r[k].unit = r[k - 1].unit + 1 /\ r[k].text = r[k - 1].text
  <2>0. k \in Nat /\ l \in Nat /\ n \in Nat /\ k \in 1..l + n
    BY <1>1, <1>8
  <2>1. CASE k <= l
    <3>1. k \in 1..l /\ r[k] = o[k] /\ k \in DOMAIN o
      BY <1>8, <1>10, <2>0, <2>1
    <3>2. k > 1 => r[k - 1] = o[k - 1]
      <4> SUFFICES ASSUME k > 1 PROVE k - 1 \in 1..l
        BY <1>8
      <4> QED BY <2>0, <2>1
    <3> QED BY <1>4, <3>1, <3>2
  <2>2. CASE k > l
    <3>1. k \in l + 1..l + n
      BY <2>0, <2>2
    <3>2. r[k].text = c.text /\ r[k].unit = at + (k - l) - 1
      BY <1>11, <3>1
    <3>3. CASE k > l + 1
      <4>1. k - 1 \in l + 1..l + n
        BY <2>0, <3>1, <3>3
      <4>2. r[k - 1].unit = at + (k - 1 - l) - 1 /\ r[k - 1].text = c.text
        BY <1>11, <4>1
      <4> QED BY <1>2, <2>0, <3>2, <4>2
    <3>4. CASE k = l + 1
      <4>1. k > 1 => l > 0 /\ l \in 1..l /\ k - 1 = l
        BY ONLY <2>0, <3>4
      <4>2. k > 1 => r[k - 1] = o[l]
        BY <1>8, <4>1
      <4>3. r[k].unit = at
        BY <1>2, <2>0, <3>2, <3>4
      <4>4. k > 1 => o[l].unit \in Int
        <5>1. \A i \in DOMAIN o : o[i] \in [text: Nat \X Nat, unit: Int]
          <6>1. PICK T : T = [text: Nat \X Nat, unit: Int]
            OBVIOUS
          <6>2. o \in Seq(T)
            BY <1>4, <6>1
          <6>3. \A i \in DOMAIN o : o[i] \in T
            BY ONLY <6>2
          <6> QED BY <6>1, <6>3
        <5>2. k > 1 => o[l] \in [text: Nat \X Nat, unit: Int]
          BY <1>10, <4>1, <5>1
        <5> QED BY <5>2
      <4> QED BY <1>1, <1>12, <3>2, <4>1, <4>2, <4>3, <4>4
    <3> QED BY <2>0, <2>2, <3>3, <3>4
  <2> QED BY <2>0, <2>1, <2>2
<1>14. IF pos + n > PerBlock THEN r[l + n].unit >= PerBlock - 1
       ELSE r[l + n].unit + 1 = NextUnit(c, pos + n) /\ r[l + n].text = c.text
  <2>0. l \in Nat /\ n \in Nat /\ n >= 1
    BY <1>1, <1>8
  <2>1. l + n \in l + 1..l + n
    BY ONLY <2>0
  <2>2. r[l + n].unit = at + ((l + n) - l) - 1 /\ r[l + n].text = c.text
    BY ONLY <1>11, <2>1, Zenon
  <2>3. r[l + n].unit = at + n - 1 /\ r[l + n].text = c.text
    BY <1>1, <1>2, <1>8, <2>2
  <2> QED BY <1>1, <1>2, <2>3 DEF NextUnit, at
<1> QED BY <1>8, <1>13, <1>14 DEF OutOk, r, u

\* read() returns what is left of the block, or as much of it as was asked for.
LEMMA ReadKeeps ==
  ASSUME VolumeInv, HandleOk, NEW cnt \in Counts, Read(cnt)
  PROVE  HandleOk'
<1>1. stage = "idle" /\ disk' = disk /\ stage' = stage /\ job' = job /\ iter.open
  BY DEF Read, vars
<1>2. PICK p : p = Payload
  OBVIOUS
<1>3. PICK c : c = IF Loads THEN disk[p] ELSE iter.content
  OBVIOUS
<1>4. PICK pos : pos = IF Loads THEN 1 ELSE iter.pos
  OBVIOUS
<1>5. PICK d : d = IF Loads THEN p ELSE iter.data_block
  OBVIOUS
<1>6. PICK left : left = PerBlock + 1 - pos
  OBVIOUS
<1>7. PICK n : n = IF cnt < left THEN cnt ELSE left
  OBVIOUS
<1>8. p \in Blocks /\ (p # 0 => disk[p] \in BlockTypes /\ disk[p].text \in Own(iter.block))
  BY <1>1, <1>2, PayloadIs
<1>9. Loads => p # 0 /\ disk[p].kind = "payload"
  BY <1>2 DEF Read
<1>10. /\ IterType /\ iter.pos \in 0..PerBlock + 1 /\ iter.content.text \in Own(iter.block)
       /\ iter.pos = 0 => out = <<>> /\ iter.content.kind # "payload"
       /\ OutOk(iter.content, iter.pos, out, iter.block)
       /\ disk[iter.block] = iter.data /\ iter.data.kind = "file"
  BY <1>1 DEF HandleOk
<1>11. c \in BlockTypes /\ c.text \in Own(iter.block) /\ d \in Blocks
  BY <1>3, <1>5, <1>8, <1>9, <1>10 DEF IterType
<1>12. PerBlock \in Nat /\ PerBlock >= 1 /\ cnt \in Nat /\ cnt >= 1 /\ iter.pos \in Nat
  BY <1>10, ReadAssumption
<1>13. pos \in 0..PerBlock
  BY <1>4, <1>10, <1>12 DEF Loads
<1>14. n \in 1..PerBlock + 1 - pos
  BY <1>6, <1>7, <1>12, <1>13
<1>15. c.kind = "payload" => pos # 0
  BY <1>3, <1>4, <1>10
<1>16. \/ iter.pos > PerBlock \/ out = <<>>
       \/ iter.pos = pos /\ iter.content = c
  BY <1>3, <1>4, <1>10 DEF Loads
<1>17. OutOk(c, pos + n, out \o Units(c, pos, n), iter.block)
  BY <1>10, <1>11, <1>13, <1>14, <1>15, <1>16, CopiedOk
<1>18. PICK loaded : loaded = IF Loads THEN [iter EXCEPT !.data_block = Payload, !.pos = 1, !.content = disk[Payload]]
                              ELSE iter
  OBVIOUS
<1>19. loaded = [open |-> iter.open, block |-> iter.block, data |-> iter.data, data_block |-> d,
                 pos |-> pos, content |-> c]
  BY <1>2, <1>3, <1>4, <1>5, <1>10, <1>18 DEF IterType
<1>20. /\ out' = out \o Units(loaded.content, loaded.pos, n)
       /\ iter' = [loaded EXCEPT !.pos = @ + n]
  <2>1. loaded.pos = pos
    BY <1>19
  <2> DEFINE ld == IF Loads THEN [iter EXCEPT !.data_block = Payload, !.pos = 1, !.content = disk[Payload]] ELSE iter
             lf == PerBlock + 1 - ld.pos
             m == IF cnt < lf THEN cnt ELSE lf
  <2>2. out' = out \o Units(ld.content, ld.pos, m) /\ iter' = [ld EXCEPT !.pos = @ + m]
    BY Zenon DEF Read
  <2>3. ld = loaded
    BY <1>18
  <2> HIDE DEF ld
  <2>4. lf = left
    BY <1>6, <2>1, <2>3
  <2>5. m = n
    <3> HIDE DEF lf
    <3> QED BY <1>7, <2>4
  <2> HIDE DEF m
  <2> QED BY <2>2, <2>3, <2>5
<1>21. iter' = [open |-> iter.open, block |-> iter.block, data |-> iter.data, data_block |-> d,
                pos |-> pos + n, content |-> c]
  BY <1>19, <1>20
<1>22. out' = out \o Units(c, pos, n)
  BY <1>19, <1>20
<1>23. pos + n \in Nat /\ pos + n \in 0..PerBlock + 1 /\ pos + n # 0
  BY <1>12, <1>13, <1>14
<1>24. IterType'
  BY <1>10, <1>11, <1>21, <1>23 DEF IterType
<1>25. ~Formatting' /\ ~Busy'
  BY <1>1 DEF Formatting, Busy
<1>26. /\ disk'[iter'.block] = iter'.data /\ iter'.data.kind = "file"
       /\ iter'.content.text \in Own(iter'.block)
       /\ iter'.pos \in 0..PerBlock + 1
       /\ iter'.pos # 0
       /\ OutOk(iter'.content, iter'.pos, out', iter'.block)
  BY <1>1, <1>10, <1>11, <1>17, <1>21, <1>22, <1>23
<1> QED BY <1>24, <1>25, <1>26 DEF HandleOk

\* close() leaves nothing open.
LEMMA CloseKeeps == ASSUME HandleOk, Close PROVE HandleOk'
<1>1. 0 \in Blocks /\ Blank \in BlockTypes
  BY Sizes DEF Blank, BlockTypes, Kinds, NoText, Zero
<1> QED BY <1>1 DEF Close, Closed, HandleOk, IterType

\* The open handle is sound in every state, whatever is written meanwhile.
LEMMA HandleStays == SpecRead => [](VolumeInv /\ HandleOk)
<1>1. InitRead => VolumeInv /\ HandleOk
  BY InitInv, InitHandle DEF InitRead
<1>2. VolumeInv /\ HandleOk /\ [NextRead]_allVars => VolumeInv' /\ HandleOk'
  <2> SUFFICES ASSUME VolumeInv, HandleOk, [NextRead]_allVars PROVE VolumeInv' /\ HandleOk'
    OBVIOUS
  <2>1. Next \/ UNCHANGED vars
    BY ReadSteps
  <2>2. VolumeInv'
    BY <2>1, NextKeeps
  <2>3. CASE (Next \/ UNCHANGED vars) /\ UNCHANGED readVars
    BY <2>2, <2>3, WritesKeepHandle
  <2>4. CASE \E path \in Paths : Open(path)
    BY <2>2, <2>4, OpenKeeps
  <2>5. CASE ReadNothing
    BY <2>2, <2>5, ReadNothingKeeps
  <2>6. CASE \E cnt \in Counts : Read(cnt)
    BY <2>2, <2>6, ReadKeeps
  <2>7. CASE Close
    BY <2>2, <2>7, CloseKeeps
  <2> QED BY <2>3, <2>4, <2>5, <2>6, <2>7 DEF NextRead, allVars
<1> QED BY <1>1, <1>2, PTL DEF SpecRead

\* Whatever is written meanwhile and whichever calls fail: nothing of another file is ever
\* read through a handle, the reads begin with the file's first payload block, each block
\* comes in its order to its end, and none is passed over.
THEOREM ReadsAreOwn == SpecRead => []ReadOwn
<1>1. HandleOk => ReadOwn
  <2> SUFFICES ASSUME HandleOk, iter.open, NEW k \in DOMAIN out
               PROVE  /\ out[k].text = NoText \/ out[k].text[1] = iter.block
                      /\ IF k = 1 THEN out[k].text[2] = 0 ELSE Follows(out[k - 1], out[k])
    BY DEF ReadOwn
  <2>1. \A j \in DOMAIN out : out[j].text \in {NoText, <<iter.block, 0>>}
    BY DEF HandleOk, OutOk, Own
  <2>2. \A j \in DOMAIN out :
          /\ out[j].text[2] = 0
          /\ out[j].text = NoText \/ out[j].text[1] = iter.block
    BY <2>1 DEF NoText
  <2>3. k # 1 => k - 1 \in DOMAIN out /\ k > 1
    <3>1. out \in Seq([text: Nat \X Nat, unit: Int])
      BY DEF HandleOk, OutOk
    <3> QED BY <3>1
  <2>4. k # 1 => Follows(out[k - 1], out[k])
    <3> SUFFICES ASSUME k # 1 PROVE Follows(out[k - 1], out[k])
      OBVIOUS
    <3>1. out[k - 1].unit < PerBlock - 1 =>
            out[k].unit = out[k - 1].unit + 1 /\ out[k].text = out[k - 1].text
      BY <2>3 DEF HandleOk, OutOk
    <3> QED BY <2>2, <2>3, <3>1 DEF Follows
  <2> QED BY <2>2, <2>4
<1> QED BY <1>1, HandleStays, PTL

-----------------------------------------------------------------------------
(* Finding what was added                                                    *)

\* From the place where addToMeta() begins to look, no entry comes after an empty word.
Packing(w) == \A i, j \in Words : i >= 3 + Rounded(w[3]) /\ i < j /\ w[i] = 0 => w[j] = 0

Packed == ~Formatting => \A b \in Blocks : disk[b].kind \in Named => Packing(disk[b].word)

\* What was added, or will be, is in a directory.
UnderDir ==
  /\ \A g \in added : disk[g.parent].kind = "dir"
  /\ Busy /\ job.plain /\ (stage \in {"init", "name"} \/ Filing) => disk[job.parent].kind = "dir"

\* The first free place is filled.
LEMMA PackingKept ==
  ASSUME NEW w \in [Words -> Nat], Packing(w), NEW i \in Words, i >= 3 + Rounded(w[3]), w[i] = 0,
         \A j \in Words : j >= 3 + Rounded(w[3]) /\ w[j] = 0 => i <= j,
         NEW m \in Nat, m # 0
  PROVE  Packing([w EXCEPT ![i] = m])
<1>1. PICK x : x = [w EXCEPT ![i] = m]
  OBVIOUS
<1>2. x[i] = m /\ \A j \in Words : j # i => x[j] = w[j]
  BY <1>1
<1>3. 3 \in Words /\ \A j \in Words : j \in Nat
  BY Sizes
<1>4. Rounded(w[3]) \in Nat /\ Rounded(x[3]) \in Nat
  <2>1. w[3] \in Nat /\ x[3] \in Nat
    BY <1>1, <1>3
  <2> QED BY <2>1, Roundings
<1>5. ASSUME NEW p \in Words, NEW q \in Words, p >= 3 + Rounded(x[3]), p < q, x[p] = 0
      PROVE  x[q] = 0
  <2>1. p # i /\ w[p] = 0
    BY <1>2, <1>5
  <2>2. p >= 3 + Rounded(w[3])
    <3>1. CASE i = 3
      <4>1. Rounded(w[3]) = 0
        BY <1>4, <3>1
      <4> QED BY <1>3, <1>4, <1>5, <4>1
    <3>2. CASE i # 3
      BY <1>2, <1>3, <1>5, <3>2
    <3> QED BY <3>1, <3>2
  <2>3. w[q] = 0
    BY <1>5, <2>1, <2>2 DEF Packing
  <2>4. q # i
    <3>1. i <= p
      BY <2>1, <2>2
    <3> QED BY <1>3, <1>5, <3>1
  <2> QED BY <1>2, <2>3, <2>4
<1>6. Packing(x)
  BY <1>5 DEF Packing
<1> QED BY <1>1, <1>6

\* One block is written.
LEMMA PackedWritten ==
  ASSUME VolumeInv, Packed, ~Formatting, NEW b \in Blocks, NEW v, disk' = [disk EXCEPT ![b] = v],
         v.kind \in Named => Packing(v.word)
  PROVE  Packed'
<1>1. disk \in Disks
  BY Types
<1>2. \A c \in Blocks : disk'[c] = IF c = b THEN v ELSE disk[c]
  BY <1>1 DEF Disks
<1>3. \A c \in Blocks : disk'[c].kind \in Named => Packing(disk'[c].word)
  BY <1>2 DEF Packed
<1> QED BY <1>3 DEF Packed

\* Packed is inductive.
LEMMA PackedKeeps ==
  ASSUME VolumeInv, Packed, Next \/ UNCHANGED vars
  PROVE  Packed'
<1>1. disk \in Disks /\ JobType
  BY Types
<1>2. CASE disk' = disk /\ (~Formatting' => ~Formatting)
  BY <1>2 DEF Packed
<1>3. ASSUME Formatting' PROVE Packed'
  BY <1>3 DEF Packed
<1>4. CASE FormatBlock \/ FormatFails \/ FormatHeader \/ FormatRoot
  <2>1. Formatting'
    BY <1>4 DEF FormatBlock, FormatFails, FormatHeader, FormatRoot, Formatting
  <2> QED BY <1>3, <2>1
<1>5. CASE FormatSlash
  <2>1. Formatting /\ stage = "slash"
    BY <1>5 DEF FormatSlash, Formatting
  <2>2. /\ disk[1] = [Blank EXCEPT !.kind = "dir"] /\ \A b \in Blocks : b # 1 => disk[b].kind \in {"blank", "free"}
    BY <2>1 DEF VolumeInv, FormatOk
  <2>3. PICK w : w = [disk[1].word EXCEPT ![3] = 1, ![4] = NameWord]
    OBVIOUS
  <2>4. disk' = [disk EXCEPT ![1] = [disk[1] EXCEPT !.word = w]]
    BY <1>5, <2>3 DEF FormatSlash, Put
  <2>5. 1 \in Blocks /\ disk[1].word = Zero /\ disk[1] \in BlockTypes
    <3>1. 1 \in Blocks
      BY Sizes
    <3> QED BY <1>1, <2>2, <3>1, DiskTypes DEF Blank
  <2>6. 3 \in Words /\ 4 \in Words /\ Zero = [i \in Words |-> 0] /\ NameWord # 0
    BY Sizes DEF Zero
  <2>7. w[3] = 1 /\ w[4] = NameWord /\ \A i \in Words : i \notin {3, 4} => w[i] = 0
    BY <2>3, <2>5, <2>6
  <2>8. Rounded(w[3]) >= 1 /\ Rounded(w[3]) \in Nat /\ \A i \in Words : i \in Nat
    <3>1. 1 \in 1..4 * (Last - 5) /\ \A i \in Words : i \in Nat
      BY Sizes
    <3> QED BY <2>7, <3>1, Roundings
  <2>9. Packing(w)
    <3> SUFFICES ASSUME NEW i \in Words, NEW j \in Words, i >= 3 + Rounded(w[3]), i < j, w[i] = 0 PROVE w[j] = 0
      BY DEF Packing
    <3>1. i >= 4 /\ j > i /\ i \in Nat /\ j \in Nat
      BY <2>8
    <3>2. j \notin {3, 4}
      BY <3>1
    <3> QED BY <2>7, <3>2
  <2>10. \A b \in Blocks : disk'[b].kind \in Named => b = 1 /\ disk'[b].word = w
    <3>1. \A b \in Blocks : b # 1 => disk'[b] = disk[b]
      BY <1>1, <2>4 DEF Disks
    <3>2. disk'[1].word = w
      <4>1. disk'[1] = [disk[1] EXCEPT !.word = w]
        BY <1>1, <2>4, <2>5 DEF Disks
      <4> QED BY <2>5, <4>1 DEF BlockTypes
    <3> QED BY <2>2, <3>1, <3>2 DEF Named
  <2> QED BY <2>9, <2>10 DEF Packed
<1>6. CASE \E what \in Named, parent \in Blocks, n \in NameLens, c \in Chunks : Add(what, parent, n, c)
  <2>1. disk' = disk /\ ~Formatting
    BY <1>6 DEF Add, Taken, Formatting
  <2> QED BY <1>2, <2>1
<1>7. CASE UNCHANGED vars
  BY <1>2, <1>7 DEF vars, Formatting
<1>8. CASE EnterFails \/ Abort
  <2>1. disk' = disk /\ (Formatting => Formatting')
    BY <1>8 DEF EnterFails, Abort, GiveUp, Formatting
  <2> QED BY <1>2, <2>1
<1>9. CASE EnterNext \/ EnterMore \/ TakeData
  <2>1. disk' = disk /\ ~Formatting
    BY <1>9 DEF EnterNext, EnterMore, TakeData, Taken, Formatting
  <2> QED BY <1>2, <2>1
<1>10. CASE EnterPlace
  <2>1. ~Formatting /\ job.at \in Blocks /\ disk[job.at] \in BlockTypes
    BY <1>1, <1>10 DEF EnterPlace, Formatting, JobType, Disks
  <2>2. PICK w : w = disk[job.at].word
    OBVIOUS
  <2>3. PICK i : i = FirstPlace(job.at)
    OBVIOUS
  <2>4. disk' = [disk EXCEPT ![job.at] = [disk[job.at] EXCEPT !.word = [w EXCEPT ![i] = job.meta]]]
    BY <1>10, <2>2, <2>3 DEF EnterPlace, Put
  <2>5. /\ i \in Words /\ i >= 3 + Rounded(w[3]) /\ w[i] = 0
        /\ \A j \in Words : j >= 3 + Rounded(w[3]) /\ w[j] = 0 => i <= j
    BY <1>10, <2>2, <2>3, FirstPlaceIs DEF EnterPlace, Places, FirstTried
  <2>6. job.meta \in Nat /\ job.meta # 0
    <3>1. job.meta \in 2..N
      BY <1>10, <2>1 DEF VolumeInv, JobOk, Busy, EnterPlace
    <3> QED BY <3>1, Sizes
  <2>7. disk[job.at].kind \in Named => Packing(w)
    BY <2>1, <2>2 DEF Packed
  <2>8. PICK v : v = [disk[job.at] EXCEPT !.word = [w EXCEPT ![i] = job.meta]]
    OBVIOUS
  <2>9. v.kind = disk[job.at].kind /\ v.word = [w EXCEPT ![i] = job.meta]
    BY <2>1, <2>8 DEF BlockTypes
  <2>10. w \in [Words -> Nat]
    BY <2>1, <2>2 DEF BlockTypes
  <2>11. v.kind \in Named => Packing(v.word)
    BY <2>5, <2>6, <2>7, <2>9, <2>10, PackingKept
  <2> QED BY <2>1, <2>4, <2>8, <2>11, PackedWritten
<1>11. CASE Continue
  <2>1. ~Formatting /\ job.at \in Blocks /\ disk[job.at] \in BlockTypes
    BY <1>1, <1>11 DEF Continue, Formatting, JobType, Disks
  <2>2. PICK v : v = [disk[job.at] EXCEPT !.next = job.cont]
    OBVIOUS
  <2>3. v.kind = disk[job.at].kind /\ v.word = disk[job.at].word
    BY <2>1, <2>2 DEF BlockTypes
  <2>4. disk' = [disk EXCEPT ![job.at] = v]
    BY <1>11, <2>2 DEF Continue, Put
  <2>5. v.kind \in Named => Packing(v.word)
    BY <2>1, <2>3 DEF Packed
  <2> QED BY <2>1, <2>4, <2>5, PackedWritten
<1>12. CASE InitMore
  <2>1. ~Formatting /\ job.cont \in Blocks
    BY <1>1, <1>12 DEF InitMore, Formatting, JobType
  <2>2. PICK v : v = [Blank EXCEPT !.kind = IF Into = "file" THEN "filecont" ELSE "dircont"]
    OBVIOUS
  <2>3. v.kind \notin Named
    BY <2>2 DEF Blank, Named
  <2>4. disk' = [disk EXCEPT ![job.cont] = v]
    BY <1>12, <2>2 DEF InitMore, Put
  <2> QED BY <2>1, <2>3, <2>4, PackedWritten
<1>13. CASE InitMeta
  <2>1. ~Formatting /\ job.block \in Blocks
    BY <1>1, <1>13 DEF InitMeta, Formatting, JobType
  <2>2. PICK v : v = [Blank EXCEPT !.kind = job.what]
    OBVIOUS
  <2>3. v.word = Zero
    BY <2>2 DEF Blank
  <2>4. disk' = [disk EXCEPT ![job.block] = v]
    BY <1>13, <2>2 DEF InitMeta, Put
  <2>5. Packing(v.word)
    BY <2>3 DEF Packing, Zero
  <2> QED BY <2>1, <2>4, <2>5, PackedWritten
<1>14. CASE UpdateMeta
  <2>1. ~Formatting /\ Busy /\ job.block \in Blocks /\ stage = "name"
    BY <1>1, <1>14 DEF UpdateMeta, Formatting, Busy, JobType
  <2>2. disk[job.block] = [Blank EXCEPT !.kind = job.what] /\ job.namelen \in NameLens
    BY <2>1 DEF VolumeInv, JobOk
  <2>3. PICK w : w = [i \in Words |-> CASE i = 1 -> job.left
                                       [] i = 3 -> job.namelen
                                       [] i \in 4..3 + Rounded(job.namelen) -> NameWord
                                       [] OTHER -> disk[job.block].word[i]]
    OBVIOUS
  <2>4. PICK v : v = [disk[job.block] EXCEPT !.word = w]
    OBVIOUS
  <2>5. disk' = [disk EXCEPT ![job.block] = v]
    BY <1>14, <2>3, <2>4 DEF UpdateMeta, Put
  <2>6. v.word = w /\ disk[job.block].word = Zero
    BY <2>2, <2>4 DEF Blank
  <2>7. PICK r : r = Rounded(job.namelen)
    OBVIOUS
  <2>8. r \in Nat /\ r >= 1 /\ 3 \in Words /\ NameWord # 0 /\ (\A i \in Words : i \in Nat) /\ 3 \notin 4..3 + r
    <3>1. job.namelen \in 1..4 * (Last - 5) /\ Last \in Nat
      BY <2>2, Sizes
    <3>2. r \in 1..Last - 5
      BY <2>7, <3>1, Roundings
    <3>3. r \in Nat /\ r >= 1
      BY <3>1, <3>2
    <3> QED BY <3>3, Sizes
  <2>9. w[3] = job.namelen
    BY <2>3, <2>8
  <2>10. ASSUME NEW i \in Words, i > 3 + r PROVE w[i] = 0
    <3>1. i # 1 /\ i # 3 /\ i \notin 4..3 + r
      BY <2>8, <2>10
    <3> QED BY <2>3, <2>6, <2>7, <3>1 DEF Zero
  <2>11. Packing(w)
    <3> SUFFICES ASSUME NEW i \in Words, NEW j \in Words, i >= 3 + r, i < j, w[i] = 0 PROVE w[j] = 0
      BY <2>7, <2>9 DEF Packing
    <3>1. j > 3 + r
      BY <2>8
    <3> QED BY <2>10, <3>1
  <2> QED BY <2>1, <2>5, <2>6, <2>11, PackedWritten
<1>15. CASE InitData
  <2>1. ~Formatting /\ job.meta \in Blocks
    BY <1>1, <1>15 DEF InitData, Formatting, JobType
  <2>2. CASE disk' = disk
    BY <1>2, <2>1, <2>2
  <2>3. CASE Put(job.meta, [Blank EXCEPT !.kind = "payload"])
    <3>1. PICK v : v = [Blank EXCEPT !.kind = "payload"]
      OBVIOUS
    <3>2. v.kind \notin Named
      BY <3>1 DEF Blank, Named
    <3>3. disk' = [disk EXCEPT ![job.meta] = v]
      BY <2>3, <3>1 DEF Put
    <3> QED BY <2>1, <3>2, <3>3, PackedWritten
  <2> QED BY <1>15, <2>2, <2>3 DEF InitData
<1>16. CASE PutData
  <2>1. ~Formatting /\ job.meta \in Blocks
    BY <1>1, <1>16 DEF PutData, Formatting, JobType
  <2>2. PICK v : v = [Blank EXCEPT !.kind = IF disk[job.meta].kind = "payload" THEN "payload" ELSE "raw",
                          !.text = <<job.block, disk[job.block].word[1] - job.left>>]
    OBVIOUS
  <2>3. v.kind \notin Named
    BY <2>2 DEF Blank, Named
  <2>4. disk' = [disk EXCEPT ![job.meta] = v]
    BY <1>16, <2>2 DEF PutData, Put
  <2> QED BY <2>1, <2>3, <2>4, PackedWritten
<1> QED BY <1>4, <1>5, <1>6, <1>7, <1>8, <1>9, <1>10, <1>11, <1>12, <1>13, <1>14, <1>15, <1>16 DEF Next

\* What is written is never a directory, but for its name, its entries and where it goes on.
LEMMA DirKept ==
  ASSUME VolumeInv, ~Formatting, Next \/ UNCHANGED vars,
         NEW p \in Blocks, disk[p].kind = "dir", Busy => p # job.block
  PROVE  disk'[p].kind = "dir"
<1>1. disk \in Disks /\ JobType /\ disk[p] \in BlockTypes
  BY Types, DiskTypes
<1>2. ~(FormatBlock \/ FormatFails \/ FormatHeader \/ FormatRoot \/ FormatSlash)
  BY DEF FormatBlock, FormatFails, FormatHeader, FormatRoot, FormatSlash, Formatting
<1>3. ASSUME disk' = disk PROVE disk'[p].kind = "dir"
  BY <1>3
<1>4. ASSUME NEW b \in Blocks, NEW v, disk' = [disk EXCEPT ![b] = v], b = p => v.kind = "dir"
      PROVE  disk'[p].kind = "dir"
  BY <1>1, <1>4 DEF Disks
<1>5. CASE \E what \in Named, parent \in Blocks, n \in NameLens, c \in Chunks : Add(what, parent, n, c)
  BY <1>3, <1>5 DEF Add, Taken
<1>6. CASE EnterFails \/ Abort \/ EnterNext \/ EnterMore \/ TakeData \/ UNCHANGED vars
  BY <1>3, <1>6 DEF EnterFails, Abort, GiveUp, EnterNext, EnterMore, TakeData, Taken, vars
<1>7. CASE EnterPlace
  <2>1. job.at \in Blocks
    BY <1>1 DEF JobType
  <2>2. PICK v : v = [disk[job.at] EXCEPT !.word = [@ EXCEPT ![FirstPlace(job.at)] = job.meta]]
    OBVIOUS
  <2>3. job.at = p => v.kind = "dir"
    BY <1>1, <2>2 DEF BlockTypes
  <2>4. disk' = [disk EXCEPT ![job.at] = v]
    BY <1>7, <2>2 DEF EnterPlace, Put
  <2> QED BY <1>4, <2>1, <2>3, <2>4
<1>8. CASE Continue
  <2>1. job.at \in Blocks
    BY <1>1 DEF JobType
  <2>2. PICK v : v = [disk[job.at] EXCEPT !.next = job.cont]
    OBVIOUS
  <2>3. job.at = p => v.kind = "dir"
    BY <1>1, <2>2 DEF BlockTypes
  <2>4. disk' = [disk EXCEPT ![job.at] = v]
    BY <1>8, <2>2 DEF Continue, Put
  <2> QED BY <1>4, <2>1, <2>3, <2>4
<1>9. CASE InitMore
  <2>1. job.cont \in Blocks /\ job.cont # p
    <3>1. disk[job.cont].kind = "free"
      BY <1>9 DEF InitMore, VolumeInv, JobOk, Busy
    <3> QED BY <1>1, <3>1 DEF JobType
  <2> QED BY <1>4, <1>9, <2>1 DEF InitMore, Put
<1>10. CASE InitMeta \/ UpdateMeta
  <2>1. job.block \in Blocks /\ job.block # p
    BY <1>1, <1>10 DEF JobType, InitMeta, UpdateMeta, Busy
  <2> QED BY <1>4, <1>10, <2>1 DEF InitMeta, UpdateMeta, Put
<1>11. CASE InitData \/ PutData
  <2>1. Busy /\ stage \in {"payload", "contents"}
    BY <1>11 DEF InitData, PutData, Busy
  <2>2. disk[job.meta].kind \in {"free", "payload"}
    BY <2>1 DEF VolumeInv, JobOk
  <2>3. job.meta \in Blocks /\ job.meta # p
    BY <1>1, <2>2 DEF JobType
  <2>4. CASE InitData
    BY <1>3, <1>4, <2>3, <2>4 DEF InitData, Put
  <2>5. CASE PutData
    BY <1>4, <2>3, <2>5 DEF PutData, Put
  <2> QED BY <1>11, <2>4, <2>5
<1> QED BY <1>2, <1>5, <1>6, <1>7, <1>8, <1>9, <1>10, <1>11 DEF Next

\* What a step adds is what the call has made.
LEMMA AddedIs ==
  ASSUME VolumeInv, Next \/ UNCHANGED vars, NEW g \in added', g \notin added
  PROVE  Busy /\ job.plain /\ g.parent = job.parent /\ (stage = "name" \/ Filing)
<1>1. ASSUME Done PROVE job.plain /\ g.parent = job.parent
  <2>1. job.plain
    BY <1>1 DEF Done
  <2>2. g = [what |-> job.what, parent |-> job.parent, block |-> job.block, chunks |-> disk[job.block].word[1]]
    BY <1>1, <2>1 DEF Done
  <2> QED BY <2>1, <2>2
<1>2. CASE UpdateMeta
  <2>1. stage = "name" /\ Done
    BY <1>2 DEF UpdateMeta
  <2> QED BY <1>1, <2>1 DEF Busy, Formatting
<1>3. CASE PutData
  <2>1. stage = "contents" /\ Done
    BY <1>3 DEF PutData
  <2> QED BY <1>1, <2>1 DEF Busy, Formatting, Filing
<1>4. ~(\E what \in Named, parent \in Blocks, n \in NameLens, c \in Chunks : Add(what, parent, n, c))
  BY DEF Add, Taken, history
<1> QED BY <1>2, <1>3, <1>4 DEF Next, FormatBlock, FormatFails, FormatHeader, FormatRoot, FormatSlash, EnterPlace,
       EnterNext, EnterMore, EnterFails, GiveUp, Continue, InitMore, InitMeta, TakeData, Taken, InitData, Abort, history, vars

\* UnderDir is inductive.
LEMMA UnderDirKeeps ==
  ASSUME VolumeInv, UnderDir, Next \/ UNCHANGED vars
  PROVE  UnderDir'
<1>1. disk \in Disks /\ JobType
  BY Types
<1>2. ASSUME NEW g \in added' PROVE disk'[g.parent].kind = "dir"
  <2>1. CASE g \in added
    <3>1. ~Formatting
      BY <2>1 DEF VolumeInv, FormatOk
    <3>2. g.parent \in Blocks /\ (Busy => g.parent # job.block) /\ disk[g.parent].kind = "dir"
      BY <2>1 DEF VolumeInv, AddedOk, Stored, UnderDir
    <3>3. PICK p \in Blocks : p = g.parent
      BY <3>2
    <3> QED BY <3>1, <3>2, <3>3, DirKept
  <2>2. CASE g \notin added
    <3>1. Busy /\ job.plain /\ g.parent = job.parent /\ (stage = "name" \/ Filing)
      BY <1>2, <2>2, AddedIs
    <3>2. disk[job.parent].kind = "dir" /\ job.parent # job.block /\ job.parent \in Blocks /\ ~Formatting
      BY <3>1 DEF UnderDir, VolumeInv, PlainOk, Busy
    <3>3. PICK p \in Blocks : p = job.parent
      BY <3>2
    <3>4. disk'[p].kind = "dir"
      BY <3>2, <3>3, DirKept
    <3> QED BY <3>1, <3>3, <3>4
  <2> QED BY <2>1, <2>2
<1> DEFINE Past == stage \in {"init", "name"} \/ Filing
<1>3. ASSUME Busy, job.plain, Past, job'.parent = job.parent
      PROVE  disk'[job'.parent].kind = "dir"
  <2>1. disk[job.parent].kind = "dir" /\ job.parent # job.block /\ job.parent \in Blocks /\ ~Formatting
    BY <1>3 DEF UnderDir, VolumeInv, PlainOk, Busy
  <2>2. PICK p \in Blocks : p = job.parent
    BY <2>1
  <2>3. disk'[p].kind = "dir"
    BY <2>1, <2>2, DirKept
  <2> QED BY <1>3, <2>2, <2>3
<1>4. ASSUME Busy', job'.plain, Past' PROVE disk'[job'.parent].kind = "dir"
  <2>1. CASE FormatBlock \/ FormatFails \/ FormatHeader \/ FormatRoot \/ FormatSlash
    BY <1>4, <2>1 DEF FormatBlock, FormatFails, FormatHeader, FormatRoot, FormatSlash, Busy, Formatting
  <2>2. CASE \E what \in Named, parent \in Blocks, n \in NameLens, c \in Chunks : Add(what, parent, n, c)
    <3>1. stage' = "enter" /\ job'.meta = job'.block
      BY <2>2 DEF Add, Taken, Idle
    <3> QED BY <1>4, <3>1 DEF Filing, Entering
  <2>3. CASE EnterFails \/ Abort
    BY <1>4, <2>3 DEF EnterFails, Abort, GiveUp, Busy, Formatting
  <2>4. CASE EnterNext
    <3>1. job'.plain = FALSE
      BY <1>1, <2>4 DEF EnterNext, JobType
    <3> QED BY <1>4, <3>1
  <2>5. CASE EnterMore
    <3>1. job'.plain = FALSE
      BY <1>1, <2>5 DEF EnterMore, Taken, JobType
    <3> QED BY <1>4, <3>1
  <2>6. CASE Continue \/ InitMore
    <3>1. ~job.plain
      BY <2>6 DEF Continue, InitMore, VolumeInv, JobOk, Busy, Formatting
    <3>2. job'.plain = job.plain
      BY <1>1, <2>6 DEF Continue, InitMore, JobType
    <3> QED BY <1>4, <3>1, <3>2
  <2>7. CASE EnterPlace
    <3>1. Busy /\ stage = "enter" /\ job' = job /\ ValidType(job.at, Into)
      BY <2>7 DEF EnterPlace, Busy, Formatting
    <3>2. CASE job.meta # job.block
      <4>1. Past
        BY <3>1, <3>2 DEF Filing, Entering
      <4> QED BY <1>3, <1>4, <3>1, <4>1
    <3>3. CASE job.meta = job.block
      <4>1. disk[job.at].kind \in {"dir", "dircont"}
        BY <3>1, <3>3 DEF ValidType, Into
      <4>2. /\ job.parent \in Blocks /\ disk[job.parent].kind \in Named /\ job.parent # job.block
            /\ job.at = job.parent /\ ~Formatting
        BY <1>4, <3>1, <3>3 DEF VolumeInv, PlainOk, Busy
      <4>3. disk[job.parent].kind = "dir"
        BY <4>1, <4>2 DEF Named
      <4>4. PICK p \in Blocks : p = job.parent
        BY <4>2
      <4>5. disk'[p].kind = "dir"
        BY <4>2, <4>3, <4>4, DirKept
      <4> QED BY <3>1, <4>4, <4>5
    <3> QED BY <3>2, <3>3
  <2>8. CASE InitMeta
    <3>1. Busy /\ Past /\ job' = job
      BY <2>8 DEF InitMeta, Busy, Formatting
    <3> QED BY <1>3, <1>4, <3>1
  <2>9. CASE UpdateMeta
    <3>1. Busy /\ Past /\ (stage' = "idle" \/ job' = job)
      BY <2>9 DEF UpdateMeta, Done, Busy, Formatting
    <3> QED BY <1>3, <1>4, <3>1 DEF Busy
  <2>10. CASE TakeData
    <3>1. Busy /\ Past
      BY <2>10 DEF TakeData, Busy, Formatting, Filing
    <3>2. job'.parent = job.parent /\ job'.plain = job.plain
      BY <1>1, <2>10 DEF TakeData, Taken, JobType
    <3> QED BY <1>3, <1>4, <3>1, <3>2
  <2>11. CASE InitData
    <3>1. Busy /\ Past /\ job' = job
      BY <2>11 DEF InitData, Busy, Formatting, Filing
    <3> QED BY <1>3, <1>4, <3>1
  <2>12. CASE PutData
    <3>1. Busy /\ Past
      BY <2>12 DEF PutData, Busy, Formatting, Filing
    <3>2. stage' = "idle" \/ (job'.parent = job.parent /\ job'.plain = job.plain)
      BY <1>1, <2>12 DEF PutData, Done, JobType
    <3> QED BY <1>3, <1>4, <3>1, <3>2 DEF Busy
  <2>13. CASE UNCHANGED vars
    <3>1. Busy /\ Past /\ job' = job
      BY <1>4, <2>13 DEF vars, Busy, Formatting, Filing, Entering
    <3> QED BY <1>3, <1>4, <3>1
  <2> QED BY <2>1, <2>2, <2>3, <2>4, <2>5, <2>6, <2>7, <2>8, <2>9, <2>10, <2>11, <2>12, <2>13 DEF Next
<1> QED BY <1>2, <1>4 DEF UnderDir

\* What is added is listed, if its directory is complete: only names come before it.
LEMMA AddedIsListed ==
  ASSUME VolumeInv, Packed, ~Formatting, NEW f \in added, Complete(f.parent)
  PROVE  /\ f.parent \in Blocks /\ \E k \in 1..Length(f.parent) : Listing(f.parent)[k] = f.block
<1>1. Stored(disk, freechain, f) /\ Listed(disk, f.parent, f.block)
  BY DEF VolumeInv, AddedOk
<1>2. PICK p \in Blocks : p = f.parent
  BY <1>1 DEF Stored
<1>3. disk \in Disks /\ Good(disk, freechain)
  BY Types DEF VolumeInv, Ready
<1>4. disk[p].kind \in Named /\ disk[p].kind \in Meta /\ Packing(disk[p].word)
  BY <1>1, <1>2 DEF Stored, Packed, Meta
<1>5. PICK i \in Words : Points(disk, p, i, f.block)
  BY <1>1, <1>2 DEF Listed
<1>6. /\ Last \in Nat /\ Words = 1..Last - 1 /\ Last \notin Words /\ i \in Nat /\ i < Last
  BY Sizes
<1>7. i >= From(disk, p) /\ disk[p].word[i] = f.block /\ f.block # 0
  BY <1>5, <1>6 DEF Points
<1>8. PICK e : e = FirstEntry(p)
  OBVIOUS
<1>9. e = From(disk, p) /\ e \in Nat /\ e >= 1 /\ e = 4 + Rounded(disk[p].word[3])
  <2>1. e = From(disk, p)
    BY <1>8 DEF FirstEntry, From
  <2> QED BY <1>3, <1>4, <2>1, DiskTypes
<1>10. PICK n : n = Length(p)
  OBVIOUS
<1>11. n \in Nat /\ (e + n >= Last \/ disk[p].word[e + n] = 0)
  <2>1. n \in 0..Last /\ (e + n >= Last \/ disk[p].word[e + n] = 0)
    BY <1>3, <1>4, <1>8, <1>10, LengthIs
  <2> QED BY <1>6, <2>1
<1>12. i < e + n
  <2> SUFFICES ASSUME e + n <= i PROVE FALSE
    BY <1>6, <1>9, <1>11
  <2>1. e + n \in Words /\ e + n < Last
    BY <1>6, <1>9, <1>11
  <2>2. disk[p].word[e + n] = 0
    BY <1>6, <1>9, <1>11, <2>1
  <2>3. e + n # i
    BY <1>7, <2>2
  <2>4. e + n < i
    BY <1>6, <1>9, <1>11, <2>3
  <2>5. Rounded(disk[p].word[3]) \in Nat
    <3>1. disk[p].word[3] \in Nat
      BY <1>3, Sizes, DiskTypes
    <3> QED BY <3>1, Roundings
  <2>6. PICK r : r = Rounded(disk[p].word[3])
    OBVIOUS
  <2>7. e + n >= 3 + r
    BY <1>9, <1>11, <2>5, <2>6
  <2>8. disk[p].word[i] = 0
    BY <1>4, <2>1, <2>2, <2>4, <2>6, <2>7 DEF Packing
  <2> QED BY <1>7, <2>8
<1>13. PICK k : k = i - e + 1
  OBVIOUS
<1>14. k \in 1..n /\ e + k - 1 = i
  BY <1>6, <1>7, <1>9, <1>11, <1>12, <1>13
<1>15. Listing(p)[k] = disk[p].word[e + k - 1]
  BY <1>8, <1>10, <1>14 DEF Listing
<1>16. Listing(p)[k] = f.block
  BY <1>7, <1>14, <1>15
<1> QED BY <1>2, <1>10, <1>14, <1>16

\* If nothing else has its name it is what findFile() comes to.
LEMMA SoleIsFound ==
  ASSUME VolumeInv, Packed, ~Formatting, NEW f \in added, Complete(f.parent), Sole(f.parent, f.block)
  PROVE  f.parent \in Blocks /\ FirstNamed(f.parent, NameOf(f.block)) = f.block
<1>1. f.parent \in Blocks /\ \E k \in 1..Length(f.parent) : Listing(f.parent)[k] = f.block
  BY AddedIsListed
<1>2. PICK p \in Blocks : p = f.parent
  BY <1>1
<1>3. PICK name : name = NameOf(f.block)
  OBVIOUS
<1>4. PICK k \in 1..Length(p) : Listing(p)[k] = f.block
  BY <1>1, <1>2
<1>5. disk \in Disks /\ Good(disk, freechain)
  BY Types DEF VolumeInv, Ready
<1>6. FirstNamed(p, name) # 0
  BY <1>3, <1>4, <1>5, FirstNamedIs
<1>7. PICK m \in 1..Length(p) : FirstNamed(p, name) = Listing(p)[m] /\ NameOf(Listing(p)[m]) = name
  BY <1>5, <1>6, FirstNamedIs
<1>8. Listing(p)[m] = f.block
  BY <1>2, <1>3, <1>7 DEF Sole
<1> QED BY <1>1, <1>2, <1>3, <1>7, <1>8

\* Files in the root are found, and those in its directories.
LEMMA FindFollows == ASSUME VolumeInv, Packed, UnderDir PROVE FindRight
<1> SUFFICES ASSUME stage = "idle", NEW f \in added, Complete(f.parent), Sole(f.parent, f.block),
                    NEW path \in PathsTo(f)
             PROVE  FindFile(path) = f.block
  BY DEF FindRight
<1>1. ~Formatting
  BY DEF Formatting
<1>2. disk \in Disks /\ Good(disk, freechain)
  BY <1>1, Types DEF VolumeInv, Ready
<1>3. f.parent \in Blocks /\ FirstNamed(f.parent, NameOf(f.block)) = f.block
  BY <1>1, SoleIsFound
<1>4. CASE f.parent = 1 /\ path \in [names: {<<NameOf(f.block)>>}, slash: BOOLEAN]
  <2>1. path.names = <<NameOf(f.block)>> /\ path.slash \in BOOLEAN
    BY <1>4
  <2>2. Len(path.names) = 1 /\ path.names[1] = NameOf(f.block)
    BY <2>1
  <2>3. IsPath(path)
    BY <2>1, <2>2 DEF IsPath
  <2>4. Entry(path, 1, 1) = f.block
    BY <1>3, <1>4, <2>2 DEF Entry
  <2>5. ~GoesOn(path, 1, Entry(path, 1, 1))
    <3>1. Parts(path) <= 1 /\ Parts(path) \in Int
      BY <2>2, <2>3, PathIs
    <3> QED BY <3>1 DEF GoesOn
  <2>6. FindFile(path) = Entry(path, 1, 1)
    BY <1>2, <2>3, <2>5, FindIs
  <2> QED BY <2>4, <2>6
<1>5. CASE path \in [names: {<<NameOf(g.block), NameOf(f.block)>> :
                               g \in {d \in added : d.block = f.parent /\ d.parent = 1 /\ Sole(1, d.block)}},
                     slash: {TRUE}]
  <2>1. PICK g \in added : /\ g.block = f.parent /\ g.parent = 1 /\ Sole(1, g.block)
                           /\ path.names = <<NameOf(g.block), NameOf(f.block)>>
    BY <1>5
  <2>2. path.slash = TRUE
    BY <1>5
  <2>3. Len(path.names) = 2 /\ path.names[1] = NameOf(g.block) /\ path.names[2] = NameOf(f.block)
    BY <2>1
  <2>4. IsPath(path)
    <3>1. path.slash \in BOOLEAN
      BY <2>2, Zenon
    <3>2. Len(path.names) \in 1..2
      BY <2>3
    <3> QED BY <3>1, <3>2 DEF IsPath
  <2>5. Parts(path) = 2
    BY <2>2, <2>3, <2>4, PathIs
  <2>6. Complete(g.parent)
    BY <2>1 DEF Complete
  <2>7. FirstNamed(g.parent, NameOf(g.block)) = g.block
    BY <1>1, <2>1, <2>6, SoleIsFound
  <2>8. Entry(path, 1, 1) = g.block
    BY <2>1, <2>3, <2>7 DEF Entry
  <2>9. g.block # 0 /\ IsDir(g.block)
    <3>1. g.block \in 2..N
      BY <2>1 DEF VolumeInv, AddedOk, Stored
    <3>2. disk[g.block].kind = "dir"
      BY <2>1 DEF UnderDir
    <3> QED BY <3>1, <3>2, Sizes DEF IsDir
  <2>10. GoesOn(path, 1, g.block)
    BY <2>5, <2>9 DEF GoesOn
  <2>11. FindFile(path) = Entry(path, 2, g.block)
    BY <1>2, <2>4, <2>8, <2>10, FindIs
  <2>12. Entry(path, 2, g.block) = f.block
    BY <1>3, <2>1, <2>3 DEF Entry
  <2> QED BY <2>11, <2>12
<1> QED BY <1>4, <1>5 DEF PathsTo

\* What a call has added to the first block of a complete directory is found by its path, although
\* calls that failed or were interrupted have left entries without a name before it, unless another
\* entry has the same name.
THEOREM AddedIsFound == SpecRead => []FindRight
<1>1. Init => Packed /\ UnderDir
  BY DEF Init, Packed, UnderDir, Formatting, Busy
<1>2. VolumeInv /\ Packed /\ UnderDir /\ [Next]_vars => VolumeInv' /\ Packed' /\ UnderDir'
  BY NextKeeps, PackedKeeps, UnderDirKeeps
<1>3. Init => VolumeInv
  BY InitInv
<1>4. VolumeInv /\ Packed /\ UnderDir => FindRight
  BY FindFollows
<1>5. Spec => []FindRight
  BY <1>1, <1>2, <1>3, <1>4, PTL DEF Spec
<1> QED BY <1>5, ReadingWritesNothing, PTL
================================================================================
