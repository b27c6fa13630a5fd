------------------------------ MODULE ClothesFS ------------------------------
(***************************************************************************)
(* ClothesFS (src/fs/clothesfs.cpp): format(), addFile(), addDir() and     *)
(* Iterator::remove() on a disk whose writes may fail or be the last thing *)
(* before a crash.                                                         *)
(*                                                                         *)
(* A step is one putBlock() with the reads before it.  A block is one      *)
(* sector, so it is written as a whole.  A write that fails, a read that   *)
(* fails and a crash all leave what the writes before have done: Abort.    *)
(* The words of a block are kept as they lie on the disk, because          *)
(* addToMeta() computes where a continued block's entries are from a word  *)
(* that is one of them.                                                    *)
(***************************************************************************)
EXTENDS Integers, Sequences, FiniteSets

CONSTANTS
  N,         \* number of the last block; block 0 is the header, block 1 the root
  Last,      \* number of the last word of a block
  NameLens,  \* lengths of names, in bytes
  Chunks,    \* lengths of files, in payload blocks
  MaxFaults  \* bound: crashes and failures of the device

ASSUME ClothesAssumption ==
  /\ N \in Nat /\ N >= 2
  /\ Last \in Nat /\ Last >= 6
  /\ NameLens \subseteq 1..4 * (Last - 5)
  /\ Chunks \subseteq Nat \ {0}
  /\ MaxFaults \in Nat

VARIABLES
  disk,       \* the blocks
  freechain,  \* the header's word 26
  stage,      \* which putBlock() comes next
  job,        \* what the call that runs was given and has found
  faults,     \* crashes and failures so far
  broken,     \* history: a call was cut short or returned false
  added       \* history: what was added and fits its directory's first block

history == <<faults, broken, added>>
vars == <<disk, freechain, stage, job, history>>

Blocks    == 0..N
Words     == 1..Last - 1    \* between the type and the pointer to the next block
NameWord  == N + 1          \* four bytes of a name: no block's number here
Zero      == [i \in Words |-> 0]
Named     == {"file", "dir"}
Cont      == {"filecont", "dircont"}
Meta      == Named \cup Cont
Kinds     == Meta \cup {"blank", "free", "payload", "raw"}
NoText    == <<0, 0>>
Blank     == [kind |-> "blank", word |-> Zero, next |-> 0, text |-> NoText]
Idle      == [what |-> "none", parent |-> 0, namelen |-> 0, left |-> 0, block |-> 0,
              at |-> 0, meta |-> 0, cont |-> 0, plain |-> TRUE]

Init ==
  /\ disk = [b \in Blocks |-> Blank] /\ freechain = 0
  /\ stage = "format" /\ job = [Idle EXCEPT !.at = N]
  /\ faults = 0 /\ broken = FALSE /\ added = {}

\* A crash or a failure of the device happens.
Fault == faults < MaxFaults /\ faults' = faults + 1 /\ broken' = TRUE

Put(b, block) == disk' = [disk EXCEPT ![b] = block]

-----------------------------------------------------------------------------
(* format()                                                                  *)

\* formatBlock(): from the last block down, each points to the one after it.
FormatBlock ==
  /\ stage = "format" /\ job.at >= 2
  /\ Put(job.at, [Blank EXCEPT !.kind = "free", !.next = (job.at + 1) % (N + 1)])
  /\ job' = [job EXCEPT !.at = @ - 1, !.meta = job.at]
  /\ UNCHANGED <<freechain, stage, history>>

\* formatBlocks() returns 0 if a write fails, which format() takes for the first
\* block of an empty chain.
FormatFails ==
  /\ stage = "format" /\ job.at >= 2
  /\ job' = [job EXCEPT !.at = 1, !.meta = 0]
  /\ Fault
  /\ UNCHANGED <<disk, freechain, stage, added>>

FormatHeader ==
  /\ stage = "format" /\ job.at = 1
  /\ freechain' = job.meta
  /\ stage' = "root"
  /\ UNCHANGED <<disk, job, history>>

\* initMeta(1, META_DIR)
FormatRoot ==
  /\ stage = "root"
  /\ Put(1, [Blank EXCEPT !.kind = "dir"])
  /\ stage' = "slash"
  /\ UNCHANGED <<freechain, job, history>>

\* updateMeta(1, "/"); format() returns true, also after FormatFails.
FormatSlash ==
  /\ stage = "slash"
  /\ Put(1, [disk[1] EXCEPT !.word = [@ EXCEPT ![3] = 1, ![4] = NameWord]])
  /\ stage' = "idle"
  /\ job' = Idle
  /\ UNCHANGED <<freechain, history>>

-----------------------------------------------------------------------------
(* Pieces of addFile() and addDir()                                          *)

\* Words that n bytes take.
Rounded(n) == (n + 3) \div 4

\* Mutant: the header keeps the block that was taken.
TakenKept(stage2, found) ==
  /\ freechain # 0
  /\ job' = found
  /\ stage' = stage2
  /\ UNCHANGED <<disk, freechain, history>>

\* takeFreeBlock(): the header gets the next block of the chain.
Taken(stage2, found) ==
  /\ freechain # 0
  /\ freechain' = disk[freechain].next
  /\ job' = found
  /\ stage' = stage2
  /\ UNCHANGED <<disk, history>>

\* Where addToMeta() starts to look for a place: after the name, if the word before it
\* is the length of a name.  In a continued block it is not.
FirstTried(b) == 3 + Rounded(disk[b].word[3])

\* Mutant: the place is not looked at.
PlacesTaken(b) == {i \in Words : i > FirstTried(b)}

Places(b) == {i \in Words : i >= FirstTried(b) /\ disk[b].word[i] = 0}

FirstPlace(b) == CHOOSE i \in Places(b) : \A j \in Places(b) : i <= j

\* baseType() of the block is the one that is asked for.
ValidType(b, what) == disk[b].kind \in IF what = "file" THEN {"file", "filecont"}
                                       ELSE {"dir", "dircont"}

\* What job.meta is entered into: the parent, or the file that was just made.
Into == IF job.meta = job.block THEN "dir" ELSE "file"

\* Gives up: returnError(false), or the call never comes back.
GiveUp ==
  /\ stage' = IF stage \in {"format", "root", "slash"} THEN "format" ELSE "idle"
  /\ job' = IF stage' = "format" THEN [Idle EXCEPT !.at = N] ELSE Idle
  /\ UNCHANGED <<disk, freechain, added>>

-----------------------------------------------------------------------------
(* addFile() and addDir(), and addData() for each payload block              *)

\* A call: takeFreeBlock() for the file or directory itself.  The parent may turn out
\* not to be a directory.
Add(what, parent, namelen, chunks) ==
  /\ stage = "idle"
  /\ disk[parent].kind \in Named
  /\ Taken("enter", [Idle EXCEPT !.what = what, !.parent = parent, !.namelen = namelen,
                       !.left = IF what = "file" THEN chunks ELSE 0,
                       !.block = freechain, !.at = parent, !.meta = freechain])

\* addToMeta() finds a place: the entry is there before the block it names is written.
EnterPlace ==
  /\ stage = "enter" /\ ValidType(job.at, Into) /\ Places(job.at) # {}
  /\ Put(job.at, [disk[job.at] EXCEPT !.word = [@ EXCEPT ![FirstPlace(job.at)] = job.meta]])
  /\ stage' = IF Into = "dir" THEN "init" ELSE "payload"
  /\ UNCHANGED <<freechain, job, history>>

\* addToMeta() goes on in the next block.
EnterNext ==
  /\ stage = "enter" /\ ValidType(job.at, Into) /\ Places(job.at) = {}
  /\ disk[job.at].next # 0
  /\ job' = [job EXCEPT !.at = disk[job.at].next, !.plain = FALSE]
  /\ UNCHANGED <<disk, freechain, stage, history>>

\* addToMeta() takes a block to go on in.
EnterMore ==
  /\ stage = "enter" /\ ValidType(job.at, Into) /\ Places(job.at) = {}
  /\ disk[job.at].next = 0
  /\ Taken("continue", [job EXCEPT !.cont = freechain, !.plain = FALSE])

\* The wrong type, or no block is left.
EnterFails ==
  /\ \/ stage = "enter" /\ ~ValidType(job.at, Into)
     \/ stage = "enter" /\ Places(job.at) = {} /\ disk[job.at].next = 0 /\ freechain = 0
     \/ stage = "data" /\ freechain = 0
  /\ broken' = TRUE /\ UNCHANGED faults
  /\ GiveUp

\* dirContinues()
Continue ==
  /\ stage = "continue"
  /\ Put(job.at, [disk[job.at] EXCEPT !.next = job.cont])
  /\ stage' = "more"
  /\ UNCHANGED <<freechain, job, history>>

\* initMeta() of the block to go on in, and addToMeta() again.
InitMore ==
  /\ stage = "more"
  /\ Put(job.cont, [Blank EXCEPT !.kind = IF Into = "file" THEN "filecont" ELSE "dircont"])
  /\ job' = [job EXCEPT !.at = job.cont, !.cont = 0]
  /\ stage' = "enter"
  /\ UNCHANGED <<freechain, history>>

\* initMeta()
InitMeta ==
  /\ stage = "init"
  /\ Put(job.block, [Blank EXCEPT !.kind = job.what])
  /\ stage' = "name"
  /\ UNCHANGED <<freechain, job, history>>

\* The call returns true.
Done ==
  /\ stage' = "idle"
  /\ job' = Idle
  /\ added' = IF job.plain THEN added \cup {[what |-> job.what, parent |-> job.parent,
                                             block |-> job.block, chunks |-> disk[job.block].word[1]]}
              ELSE added

\* updateMeta(): size and name.
UpdateMeta ==
  /\ stage = "name"
  /\ Put(job.block,
         [disk[job.block] EXCEPT !.word =
            [i \in Words |-> CASE i = 1 -> job.left
                               [] i = 3 -> job.namelen
                               [] i \in 4..3 + Rounded(job.namelen) -> NameWord
                               [] OTHER -> @[i]]])
  /\ IF job.what = "dir" THEN Done ELSE stage' = "data" /\ UNCHANGED <<job, added>>
  /\ UNCHANGED <<freechain, faults, broken>>

\* addData(): takeFreeBlock() for the next payload block.
TakeData ==
  /\ stage = "data"
  /\ Taken("enter", [job EXCEPT !.at = job.block, !.meta = freechain])

\* initData(): its failure is not noticed, but the contents then start at byte 0.
InitData ==
  /\ stage = "payload"
  /\ \/ Put(job.meta, [Blank EXCEPT !.kind = "payload"]) /\ UNCHANGED <<faults, broken>>
     \/ Fault /\ UNCHANGED disk
  /\ stage' = "contents"
  /\ UNCHANGED <<freechain, job, added>>

\* The contents, and once more for the rest of them.
PutData ==
  /\ stage = "contents"
  /\ LET b == disk[job.meta]
     IN  Put(job.meta, [Blank EXCEPT !.kind = IF b.kind = "payload" THEN "payload" ELSE "raw",
                          !.text = <<job.block, disk[job.block].word[1] - job.left>>])
  /\ IF job.left = 1 THEN Done
     ELSE stage' = "data" /\ job' = [job EXCEPT !.left = @ - 1] /\ UNCHANGED added
  /\ UNCHANGED <<freechain, faults, broken>>

\* The device fails or the machine crashes instead of the next write.
Abort ==
  /\ stage # "idle"
  /\ Fault
  /\ GiveUp

Next ==
  \/ FormatBlock \/ FormatFails \/ FormatHeader \/ FormatRoot \/ FormatSlash
  \/ \E what \in Named, parent \in Blocks, n \in NameLens, c \in Chunks : Add(what, parent, n, c)
  \/ EnterPlace \/ EnterNext \/ EnterMore \/ EnterFails \/ Continue \/ InitMore
  \/ InitMeta \/ UpdateMeta \/ TakeData \/ InitData \/ PutData \/ Abort

Spec == Init /\ [][Next]_vars

-----------------------------------------------------------------------------
(* Iterator::remove()                                                        *)

\* Where the entries of a block begin.
FirstEntry(b) == IF disk[b].kind \in Named THEN 4 + Rounded(disk[b].word[3]) ELSE 1

\* addFreeBlock(): what it puts into the block's own words is never written.
AddFreeBlock(b) ==
  /\ freechain' = IF b = 0 \/ disk[b].kind = "free" THEN freechain ELSE b
  /\ UNCHANGED <<disk, history>>

\* An Iterator that stands on a file or directory is told to remove it.
Remove(b) ==
  /\ stage = "idle" /\ b > 1 /\ disk[b].kind \in Named
  /\ stage' = "remove"
  /\ job' = [Idle EXCEPT !.at = b, !.left = FirstEntry(b)]
  /\ UNCHANGED <<disk, freechain, history>>

\* The next entry, or at the end of the block the block itself; then on to the next one.
RemoveEntry ==
  /\ stage = "remove"
  /\ IF job.left = Last
     THEN /\ AddFreeBlock(job.at)
          /\ IF disk[job.at].next = 0 THEN stage' = "removed" /\ UNCHANGED job
             ELSE job' = [job EXCEPT !.at = disk[job.at].next, !.left = 1] /\ UNCHANGED stage
     ELSE IF disk[job.at].word[job.left] = 0
     THEN stage' = "removed" /\ UNCHANGED <<job, disk, freechain, history>>
     ELSE /\ AddFreeBlock(disk[job.at].word[job.left])
          /\ job' = [job EXCEPT !.left = @ + 1]
          /\ UNCHANGED stage

\* The block itself, once more if it was full.  The parent keeps its entry.
RemoveSelf ==
  /\ stage = "removed"
  /\ AddFreeBlock(job.at)
  /\ stage' = "idle"
  /\ job' = Idle

SpecRemove == Init /\ [][Next \/ (\E b \in Blocks : Remove(b)) \/ RemoveEntry \/ RemoveSelf]_vars

-----------------------------------------------------------------------------
(* What the file system promises                                             *)

Stages == {"format", "root", "slash", "idle", "enter", "continue", "more", "init", "name",
           "data", "payload", "contents", "remove", "removed"}

\* Every variable keeps its type; a word holds nothing but a block, a length or a name.
TypeOK ==
  /\ disk \in [Blocks -> [kind: Kinds, word: [Words -> Nat], next: Blocks, text: Nat \X Nat]]
  /\ freechain \in Blocks /\ stage \in Stages /\ faults \in 0..MaxFaults /\ broken \in BOOLEAN
  /\ job.what \in Named \cup {"none"} /\ job.left \in Nat /\ job.plain \in BOOLEAN
  /\ {job.parent, job.block, job.at, job.meta, job.cont} \subseteq Blocks

\* The free chain, as takeFreeBlock() will come along it.
Chain ==
  LET at[k \in 0..N + 1] ==
        IF k = 0 THEN freechain ELSE IF at[k - 1] = 0 THEN 0 ELSE disk[at[k - 1]].next
  IN  at
FreeBlocks == {Chain[k] : k \in DOMAIN Chain} \ {0}

\* Places of the disk that name a block: entries, and what a block goes on in.
Pointers ==
  {p \in (1..N) \X (1..Last) :
     LET b == disk[p[1]]
     IN  /\ b.kind \in Meta
         /\ \/ p[2] < Last /\ p[2] >= FirstEntry(p[1]) /\ b.word[p[2]] # 0
            \/ p[2] = Last /\ b.next # 0}

Target(p) == IF p[2] = Last THEN disk[p[1]].next ELSE disk[p[1]].word[p[2]]

\* After any crash or failed write a block is free or named once, never both and never
\* twice; the free chain ends; what a call has taken but not entered yet is neither.
BlocksExclusive ==
  /\ TypeOK
  /\ stage \notin {"format", "root", "slash"} =>
       LET free  == FreeBlocks
           named == {<<p, Target(p)>> : p \in Pointers}
       IN  /\ Chain[N + 1] = 0
           /\ \A n \in named : n[2] \in (2..N) \ free
           /\ \A n, m \in named : n[2] = m[2] => n = m
           /\ stage \in {"enter", "payload"} => job.meta \notin free
           /\ stage = "enter" => \A n \in named : n[2] # job.meta

\* A directory whose own call returned true, or the root.
Complete(dir) == dir = 1 \/ \E f \in added : f.block = dir

Entries(b) == {disk[b].word[i] : i \in FirstEntry(b)..Last - 1} \ {0}

\* What a call that returned true has made in such a directory is never lost or changed
\* by the calls after it, whether they fail, crash or run out of blocks: it is listed, it
\* has its type and the payload blocks hold the contents in their order.  (In a directory
\* whose own call was cut short before its name was written, the first entry takes the
\* place of the name's length and is not listed.)
Durable ==
  \A f \in {g \in added : Complete(g.parent)} :
    LET b == disk[f.block]
    IN  /\ f.block \in Entries(f.parent) /\ b.kind = f.what
        /\ f.what = "file" =>
             \A c \in 0..f.chunks - 1 :
               LET d == disk[b.word[FirstEntry(f.block) + c]]
               IN  d.kind \in {"payload", "raw"} /\ d.text = <<f.block, c>>

\* If every call so far returned true, no block is lost and every entry names a block of
\* its kind.
AsDescribed ==
  stage = "idle" /\ ~broken =>
    /\ 2..N \subseteq FreeBlocks \cup {Target(p) : p \in Pointers}
    /\ \A b \in FreeBlocks : disk[b].kind = "free"
    /\ \A p \in Pointers :
         LET from == disk[p[1]].kind
             to == disk[Target(p)].kind
         IN  IF p[2] = Last
             THEN to = IF from \in {"dir", "dircont"} THEN "dircont" ELSE "filecont"
             ELSE IF from \in {"dir", "dircont"} THEN to \in Named ELSE to = "payload"

\* The volume is as it should be: after failures no block is used twice, without
\* failures none is lost.
VolumeSound == BlocksExclusive /\ AsDescribed

\* "When freeing a block, it is put as first one": the chain goes on with what it was.
FreedIsFirst ==
  [][freechain' # freechain /\ stage \in {"remove", "removed"}
       => \A k \in 0..N : Chain'[k + 1] = Chain[k]]_vars

=============================================================================
