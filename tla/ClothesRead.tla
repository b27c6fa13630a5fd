------------------------------ MODULE ClothesRead ------------------------------
(***************************************************************************)
(* Reading a ClothesFS: list(), the Iterator, findFile(), open(), read()    *)
(* and close() (src/fs/clothesfs.cpp, inc/fs/clothesfs.hh) on the disks     *)
(* that module ClothesFS makes, failed and interrupted calls included.      *)
(*                                                                          *)
(* An Iterator works on copies of blocks.  Calls do not overlap: the kernel *)
(* only reads, and the tools that write do one thing at a time.  A name is  *)
(* its length here.  Positions in a block count in units: unit 0 is the     *)
(* header of a payload block.                                               *)
(***************************************************************************)
EXTENDS ClothesFS

CONSTANTS
  PerBlock,  \* units of contents in a payload block
  Counts,    \* lengths asked for by read(), in units
  MaxOut     \* bound: units read through one handle

ASSUME ReadAssumption ==
  PerBlock \in Nat \ {0} /\ Counts \subseteq Nat \ {0} /\ MaxOut \in Nat

VARIABLES
  iter,  \* the Iterator behind the handle, or Closed
  out    \* what read() has returned through it

readVars == <<iter, out>>
allVars  == <<vars, readVars>>

Closed == [open |-> FALSE, block |-> 0, data |-> Blank, data_block |-> 0, pos |-> 0,
           content |-> Blank]

-----------------------------------------------------------------------------
(* list(), getCurrent(), next()                                              *)

\* The entries that list() and next() come to.  An empty word ends the list.  At the end of
\* the block the next one is read, but the entry is taken from its word 0, its type: such a
\* block does not exist and the list ends there.
Length(b) ==
  IF disk[b].kind \notin Meta THEN 0
  ELSE CHOOSE n \in 0..Last : /\ \A i \in 0..n - 1 : FirstEntry(b) + i < Last
                                                     /\ disk[b].word[FirstEntry(b) + i] # 0
                              /\ \/ FirstEntry(b) + n >= Last
                                 \/ disk[b].word[FirstEntry(b) + n] = 0

Listing(b) == [i \in 1..Length(b) |-> disk[b].word[FirstEntry(b) + i - 1]]

\* Iterator::nameLen(), name()
NameOf(b) == disk[b].word[3]

\* Iterator::type(), baseType()
IsDir(b)  == disk[b].kind \in {"dir", "dircont"}
IsFile(b) == disk[b].kind \in {"file", "filecont"}

-----------------------------------------------------------------------------
(* findFile()                                                                *)

\* Mutant: the search ends at an entry without a name.
FirstNamedStops(dir, name) ==
  LET l == Listing(dir)
      at == {k \in DOMAIN l : NameOf(l[k]) = name /\ \A j \in 1..k : NameOf(l[j]) # 0}
  IN  IF at = {} THEN 0 ELSE l[CHOOSE k \in at : \A j \in at : k <= j]

\* The first entry of a directory with a name, 0 if there is none.
FirstNamed(dir, name) ==
  LET l == Listing(dir)
      at == {k \in DOMAIN l : NameOf(l[k]) = name}
  IN  IF at = {} THEN 0 ELSE l[CHOOSE k \in at : \A j \in at : k <= j]

\* pathParts() counts slashes: one less than the names, unless the path ends in one.
Parts(path) == Len(path.names) - IF path.slash THEN 0 ELSE 1

\* The block that the Iterator returned stands on, 0 if it is not ok().  The last name but
\* one of a path without a slash at its end is not gone into, nor is a file.
FindFile(path) ==
  LET from[part \in 1..Len(path.names)] ==
        [parent \in Blocks |->
           LET e == FirstNamed(parent, path.names[part])
           IN  IF e # 0 /\ part < Parts(path) /\ IsDir(e) THEN from[part + 1][e] ELSE e]
  IN  from[1][1]

-----------------------------------------------------------------------------
(* open(), read(), close()                                                   *)

Open(path) ==
  /\ stage = "idle" /\ ~iter.open
  /\ LET file == FindFile(path)
     IN  /\ file # 0 /\ IsFile(file)
         /\ iter' = [Closed EXCEPT !.open = TRUE, !.block = file, !.data = disk[file]]
  /\ out' = <<>>
  /\ UNCHANGED vars

\* Where the first payload block's number is in the file's own block.
DataWord == IF iter.data.kind = "file" THEN 4 + Rounded(iter.data.word[3]) ELSE 1

\* The first payload block: m_data_index stays 0.  A block without any entry has a next
\* one if there is more, whose word 1 is the first entry.
Payload ==
  IF DataWord < Last THEN iter.data.word[DataWord]
  ELSE IF iter.data.next = 0 THEN 0 ELSE disk[iter.data.next].word[1]

\* The units of a block, from pos on.
Units(b, pos, n) ==
  [k \in 1..n |-> [text |-> b.text,
                   unit |-> IF b.kind = "payload" THEN pos + k - 2 ELSE pos + k - 1]]

\* read() needs a payload block: nothing is loaded yet, or all of it was read.
Loads == (iter.pos = 0 /\ iter.data_block = 0) \/ iter.pos > PerBlock

\* Returns 0: no payload block, or one that is not marked as such; the latter is kept and
\* the next read() takes its bytes from position 0.
ReadNothing ==
  /\ stage = "idle" /\ iter.open /\ Loads
  /\ Payload = 0 \/ disk[Payload].kind # "payload"
  /\ iter' = [iter EXCEPT !.data_block = Payload,
                          !.content = IF Payload = 0 THEN @ ELSE disk[Payload]]
  /\ UNCHANGED <<vars, out>>

\* Mutant: what is left of the block is returned again.
ReadCopiesAgain(cnt) ==
  /\ stage = "idle" /\ iter.open /\ Len(out) < MaxOut
  /\ Loads => Payload # 0 /\ disk[Payload].kind = "payload"
  /\ LET loaded == IF Loads THEN [iter EXCEPT !.data_block = Payload, !.pos = 1,
                                              !.content = disk[Payload]] ELSE iter
         left == PerBlock + 1 - loaded.pos
         n == IF cnt < left THEN cnt ELSE left
     IN  /\ out' = out \o Units(loaded.content, loaded.pos, n)
         /\ iter' = IF n < left THEN loaded ELSE [loaded EXCEPT !.pos = @ + n]
  /\ UNCHANGED vars

\* Loads the block if needed, and copies at most what is left of it.
Read(cnt) ==
  /\ stage = "idle" /\ iter.open /\ Len(out) < MaxOut
  /\ Loads => Payload # 0 /\ disk[Payload].kind = "payload"
  /\ LET loaded == IF Loads THEN [iter EXCEPT !.data_block = Payload, !.pos = 1,
                                              !.content = disk[Payload]] ELSE iter
         left == PerBlock + 1 - loaded.pos
         n == IF cnt < left THEN cnt ELSE left
     IN  /\ out' = out \o Units(loaded.content, loaded.pos, n)
         /\ iter' = [loaded EXCEPT !.pos = @ + n]
  /\ UNCHANGED vars

Close ==
  /\ stage = "idle" /\ iter.open
  /\ iter' = Closed /\ out' = <<>>
  /\ UNCHANGED vars

Paths == [names: {<<n>> : n \in NameLens} \cup (NameLens \X NameLens), slash: BOOLEAN]

InitRead == Init /\ iter = Closed /\ out = <<>>

NextRead ==
  \/ Next /\ UNCHANGED readVars
  \/ \E path \in Paths : Open(path)
  \/ ReadNothing
  \/ \E cnt \in Counts : Read(cnt)
  \/ Close

SpecRead == InitRead /\ [][NextRead]_allVars

-----------------------------------------------------------------------------
(* What reading promises                                                     *)

\* No other entry of a directory has the name of this one.
Sole(dir, b) == \A k \in 1..Length(dir) : NameOf(Listing(dir)[k]) = NameOf(b) => Listing(dir)[k] = b

\* The paths of what was added to the root or, with a slash at the end, one directory below.
PathsTo(f) ==
  (IF f.parent = 1 THEN [names: {<<NameOf(f.block)>>}, slash: BOOLEAN] ELSE {})
    \cup [names: {<<NameOf(g.block), NameOf(f.block)>> :
                    g \in {d \in added : d.block = f.parent /\ d.parent = 1 /\ Sole(1, d.block)}},
          slash: {TRUE}]

\* What a call has added to the first block of a directory is found by its path, although
\* calls that failed or were interrupted have left entries without a name before it, unless
\* another entry has the same name.
FindRight ==
  stage = "idle" =>
    \A f \in added :
      Complete(f.parent) /\ Sole(f.parent, f.block) =>
        \A path \in PathsTo(f) : FindFile(path) = f.block

\* What may come after a unit that was read: a block goes on to its end, and a block of the
\* file is followed by the next one.  (The code begins the same block again: m_data_index is
\* never increased.)
Follows(u, v) ==
  /\ u.unit < PerBlock - 1 => v.unit = u.unit + 1 /\ v.text = u.text
  /\ u.text[1] = iter.block /\ v.text[1] = iter.block => v.text[2] \in {u.text[2], u.text[2] + 1}

\* Nothing of another file is ever read; the reads begin with the file's first payload block
\* and pass over nothing of it.  (A block left by a failed call reads as its header and zeros.)
ReadOwn ==
  iter.open =>
    \A k \in DOMAIN out :
      /\ out[k].text = NoText \/ out[k].text[1] = iter.block
      /\ IF k = 1 THEN out[k].text[2] = 0 ELSE Follows(out[k - 1], out[k])

================================================================================
