--------------------------------- MODULE Disk ---------------------------------
(***************************************************************************)
(* The disk from its registers up to the files of an archive on it: the ATA *)
(* driver (src/ata.cpp), its list of devices (src/storage.cpp), the choice  *)
(* of a disk by Kernel::initATA() and the walk of Ustar over the archive's  *)
(* headers (src/fs/ustar.cpp).  One channel with two drives, one caller:    *)
(* nothing in the driver keeps two callers apart.                           *)
(*                                                                          *)
(* A step is what the driver does between two waits for the device.  The    *)
(* device is external: a drive takes a command only when it is neither busy *)
(* nor in the middle of a transfer, and answers later.  The driver counts   *)
(* its polls and gives up on a drive that takes too long; the drive goes on. *)
(***************************************************************************)
EXTENDS Integers, Sequences, FiniteSets, FiniteSetsExt

CONSTANTS
  ByteValues,  \* values of a register's byte
  HeadValues,  \* values of the four bits for the head
  Wrap,        \* sectors in 2^32 bytes, where sizes and positions wrap around
  Capacity,    \* sectors of a disk with LBA
  Cylinders, Heads, Sectors,  \* geometry of a disk without
  BlockSize,   \* bytes of a sector
  Archive,     \* entries of the archive: name, size in bytes, plain file or not
  Inner,       \* the name in a header that is the data of a file
  Scratch,     \* sectors outside the archive, for writing
  Values,      \* what is written to them
  Unknown,     \* no value
  Counts,      \* lengths asked for in one read of a file
  Slow,        \* commands for which a drive may take longer than the driver waits
  MaxLate,     \* bound: how often that happens
  MaxErrors    \* bound: errors of the drives

\* Two and three registers, for a cylinder and for a sector.
TwoBytes   == ByteValues * ByteValues
ThreeBytes == ByteValues * ByteValues * ByteValues

DiskBounds ==
  /\ {ByteValues, HeadValues, Wrap, Capacity, Cylinders, Heads, Sectors, BlockSize}
       \subseteq Nat \ {0}
  /\ Sectors < ByteValues /\ Cylinders <= TwoBytes /\ Heads <= HeadValues
  /\ Capacity <= Wrap /\ Wrap <= ThreeBytes * HeadValues
  /\ Scratch \subseteq 0..Capacity - 1 /\ Unknown \notin Values
  /\ Counts \subseteq Nat \ {0} /\ MaxLate \in Nat /\ MaxErrors \in Nat
  /\ Archive \in Seq([name: {Archive[k].name : k \in DOMAIN Archive}, size: Nat, file: BOOLEAN])
  /\ \A k \in DOMAIN Archive : Archive[k].name \notin {Inner, Unknown}
  /\ Inner # Unknown

VARIABLES
  kind,     \* what is connected: nothing, a packet device, a disk with or without LBA
  devsel,   \* the channel's device register: drive, mode and head
  regs,     \* its registers LBA0 to LBA2
  dev,      \* the drives
  stored,   \* the scratch sectors of the drives
  found,    \* DevicePrivate: what detect() found
  mounted,  \* the device of the ATAPhys that initATA() made
  pc, job,  \* where the driver stands in which access
  ok, got,  \* result and buffer of the last access
  iter,     \* Ustar::Iterator, of a walk or of an open file
  answer,   \* what findFile() said
  late, errors,  \* how often a drive was late, or failed
  kept      \* history: what write() said it had written

device == <<kind, devsel, regs, dev, stored, late, errors>>
driver == <<found, mounted, pc, job, ok, got>>
reader == <<iter, answer, kept>>
vars == <<device, driver, reader>>

Drives  == {0, 1}
NoDrive == 2
Kinds   == {"none", "packet", "lba", "chs"}
Disks   == {"lba", "chs"}
Quarter == 4   \* a sector in units of the 128 bytes that detect() reads
Nothing == [name |-> Unknown, size |-> 0, file |-> FALSE, from |-> <<>>]

-----------------------------------------------------------------------------
(* The archive: a header before the blocks of each file.                     *)

Blocks(size) == (size + BlockSize - 1) \div BlockSize

HeaderOf(k) ==
  LET header[i \in 0..k] == IF i <= 1 THEN 0 ELSE header[i - 1] + 1 + Blocks(Archive[i - 1].size)
  IN  header[k]

\* What a sector outside Scratch holds.  A file's data may itself look like a
\* header: an archive in an archive.
Sector(d, s) ==
  LET heads == {k \in DOMAIN Archive : HeaderOf(k) = s}
      datas == {k \in DOMAIN Archive :
                  s \in HeaderOf(k) + 1..HeaderOf(k) + Blocks(Archive[k].size)}
      Of(k) == [name |-> Archive[k].name, size |-> Archive[k].size,
                file |-> Archive[k].file, from |-> <<d, s>>]
  IN  IF heads # {} THEN Of(CHOOSE k \in heads : TRUE)
      ELSE IF datas # {} THEN [Nothing EXCEPT !.name = Inner, !.file = TRUE,
                                              !.from = <<d, s>>]
      ELSE [Nothing EXCEPT !.from = <<d, s>>]

\* A scratch sector's value does not begin like a header.
Content(d, s) ==
  IF s \in Scratch THEN [Nothing EXCEPT !.from = <<d, s, stored[d][s]>>] ELSE Sector(d, s)

-----------------------------------------------------------------------------
(* The drives, external.                                                     *)

Quiet == [phase |-> "idle", op |-> "none", sector |-> 0, data |-> Nothing,
          left |-> 0, err |-> FALSE]

Sel  == devsel.drive
Busy == dev[Sel].phase = "busy"

\* The sector that the registers name.
Addressed ==
  IF devsel.lba
  THEN regs[1] + ByteValues * (regs[2] + ByteValues * (regs[3] + ByteValues * devsel.head))
  ELSE ((regs[2] + ByteValues * regs[3]) * Heads + devsel.head) * Sectors + regs[1] - 1

Exists(d, s) == s \in 0..(IF kind[d] = "lba" THEN Capacity ELSE Cylinders * Heads * Sectors) - 1

\* A command is lost on a drive that is busy or waits for a transfer to end, and
\* where no drive is.
Commanded(op) ==
  [dev EXCEPT ![Sel] =
     IF @.phase # "idle" \/ kind[Sel] = "none" THEN @
     ELSE [Quiet EXCEPT !.phase = "busy", !.op = op, !.sector = Addressed]]

\* The value 4 and then 0 in the command register: no command of any drive.
CommandedNonsense ==
  [dev EXCEPT ![Sel].err = @ \/ (dev[Sel].phase = "idle" /\ kind[Sel] # "none")]

\* A transfer of n quarters of a sector out of the drive.
Drained(n) ==
  [dev EXCEPT ![Sel] =
     IF @.phase # "in" THEN @
     ELSE IF @.left > n THEN [@ EXCEPT !.left = dev[Sel].left - n]
     ELSE Quiet]

\* What such a transfer of a whole sector yields: the sector if it was all there.
Transferred == IF dev[Sel].phase = "in" /\ dev[Sel].left = Quarter THEN dev[Sel].data
               ELSE Nothing

Answers(d, drive) == dev' = [dev EXCEPT ![d] = drive]

Refused   == [Quiet EXCEPT !.err = TRUE]
Offers(c) == [Quiet EXCEPT !.phase = "in", !.data = c, !.left = Quarter]

\* The drive has done what it was told.
Complete(d) ==
  LET op == dev[d].op
      s  == dev[d].sector
  IN  /\ dev[d].phase = "busy"
      /\ \/ op = "identify" /\ Answers(d, IF kind[d] = "packet" THEN Refused
                                          ELSE Offers(Nothing)) /\ UNCHANGED stored
         \/ op = "packet" /\ Answers(d, IF kind[d] = "packet" THEN Offers(Nothing)
                                        ELSE Refused) /\ UNCHANGED stored
         \/ op = "read" /\ Answers(d, IF Exists(d, s) THEN Offers(Content(d, s))
                                      ELSE Refused) /\ UNCHANGED stored
         \/ op = "write" /\ Answers(d, IF Exists(d, s) THEN [dev[d] EXCEPT !.phase = "out"]
                                       ELSE Refused) /\ UNCHANGED stored
         \/ op = "store" /\ Answers(d, Quiet)
                         /\ stored' = [stored EXCEPT ![d][s] = dev[d].data]
         \/ op = "flush" /\ Answers(d, Quiet) /\ UNCHANGED stored
      /\ UNCHANGED <<kind, devsel, regs, late, errors, driver, reader>>

\* The medium fails: ERR or DF.
DriveError(d) ==
  /\ dev[d].phase = "busy" /\ dev[d].op \in {"read", "write", "store"}
  /\ errors < MaxErrors /\ errors' = errors + 1
  /\ Answers(d, Refused)
  /\ UNCHANGED <<kind, devsel, regs, stored, late, driver, reader>>

-----------------------------------------------------------------------------
(* Access to a sector: ATAPhys::read() and write().                          *)

\* Mutant: select() without the read that comes first.
SelectPlain(d, op, addr, value, then) ==
  /\ job' = [job EXCEPT !.op = op, !.addr = addr, !.value = value, !.then = then,
                        !.drive = d, !.dummy = FALSE]
  /\ pc' = "select"

\* ATA::select() reads sector 0 before the sector asked for.
Access(d, op, addr, value, then) ==
  /\ job' = [job EXCEPT !.op = op, !.addr = addr, !.value = value, !.then = then,
                        !.drive = d, !.dummy = TRUE]
  /\ pc' = "select"

Op   == IF job.dummy THEN "read" ELSE job.op
Addr == IF job.dummy THEN 0 ELSE job.addr
Me   == found[job.drive]

\* The result of select()'s own read is ignored.
Return(success) ==
  /\ ok' = success
  /\ IF job.dummy THEN pc' = "reset" /\ job' = [job EXCEPT !.dummy = FALSE]
     ELSE pc' = "return" /\ UNCHANGED job

Select(lba, head) == devsel' = [drive |-> job.drive, lba |-> lba, head |-> head]

SelectDevice ==
  /\ pc = "select" /\ pc' = "reset"
  /\ Select(Me.lba, 0)
  /\ UNCHANGED <<kind, regs, dev, stored, late, errors, found, mounted, job, ok, got, reader>>

\* reset() writes to the command register, of the drive that happens to be selected.
Reset ==
  /\ pc = "reset" /\ pc' = "choose"
  /\ dev' = CommandedNonsense
  /\ UNCHANGED <<kind, devsel, regs, stored, late, errors, found, mounted, job, ok, got, reader>>

\* io_addr and head.  An address that needs 48 bits is beyond 2^32 bytes.
IoAddr(addr) ==
  IF Me.lba
  THEN <<addr % ByteValues, (addr \div ByteValues) % ByteValues,
         (addr \div TwoBytes) % ByteValues, (addr \div ThreeBytes) % HeadValues>>
  ELSE LET sect == (addr % Sectors) + 1
           cyl  == (addr + 1 - sect) \div (Heads * Sectors)
       IN  <<sect, cyl % ByteValues, (cyl \div ByteValues) % ByteValues,
             ((addr + 1 - sect) % (Heads * Sectors)) \div Sectors>>

SelectHead ==
  /\ pc = "choose" /\ ~Busy /\ pc' = "regs"
  /\ Select(Me.lba, IoAddr(Addr)[4])
  /\ UNCHANGED <<kind, regs, dev, stored, late, errors, found, mounted, job, ok, got, reader>>

SetRegisters ==
  /\ pc = "regs" /\ ~Busy /\ pc' = "command"
  /\ regs' = SubSeq(IoAddr(Addr), 1, 3)
  /\ UNCHANGED <<kind, devsel, dev, stored, late, errors, found, mounted, job, ok, got, reader>>

GiveCommand ==
  /\ pc = "command" /\ pc' = "transfer"
  /\ dev' = Commanded(Op)
  /\ UNCHANGED <<kind, devsel, regs, stored, late, errors, found, mounted, job, ok, got, reader>>

DataRequest == dev[Sel].phase \in {"in", "out"}

\* The waits for no error and for data end well.
ReadData ==
  /\ pc = "transfer" /\ Op = "read" /\ ~Busy /\ DataRequest /\ ~dev[Sel].err
  /\ got' = Transferred /\ dev' = Drained(Quarter)
  /\ Return(TRUE)
  /\ UNCHANGED <<kind, devsel, regs, stored, late, errors, found, mounted, reader>>

ReadFails ==
  /\ pc = "transfer" /\ Op = "read" /\ ~Busy /\ (dev[Sel].err \/ ~DataRequest)
  /\ Return(FALSE)
  /\ UNCHANGED <<device, found, mounted, got, reader>>

\* Data that the drive has asked for, or lost.
Given(value) ==
  [dev EXCEPT ![Sel] = IF @.phase # "out" THEN @
                       ELSE [@ EXCEPT !.phase = "busy", !.op = "store", !.data = value]]

\* Mutant: the data are sent without a wait for the drive.
WriteDataAtOnce ==
  /\ pc = "transfer" /\ Op = "write" /\ pc' = "flush"
  /\ dev' = Given(job.value)
  /\ UNCHANGED <<kind, devsel, regs, stored, late, errors, found, mounted, job, ok, got, reader>>

\* writeSector() does not look whether the drive wants data.
WriteData ==
  /\ pc = "transfer" /\ Op = "write" /\ ~Busy /\ pc' = "flush"
  /\ dev' = Given(job.value)
  /\ UNCHANGED <<kind, devsel, regs, stored, late, errors, found, mounted, job, ok, got, reader>>

\* It flushes without a wait either, and ignores the last poll().
Flush ==
  /\ pc = "flush" /\ pc' = "flushed"
  /\ dev' = Commanded("flush")
  /\ UNCHANGED <<kind, devsel, regs, stored, late, errors, found, mounted, job, ok, got, reader>>

Flushed ==
  /\ pc = "flushed" /\ ~Busy
  /\ Return(TRUE)
  /\ UNCHANGED <<device, found, mounted, got, reader>>

\* waitStatus() has counted to ATA_MAX_WAIT_CNT.
GivesUp ==
  /\ pc \in {"choose", "regs", "transfer", "flushed"}
  /\ Busy /\ dev[Sel].op \in Slow /\ late < MaxLate /\ late' = late + 1
  /\ Return(pc = "flushed")
  /\ UNCHANGED <<kind, devsel, regs, dev, stored, errors, found, mounted, got, reader>>

-----------------------------------------------------------------------------
(* Start: ATA::init() detects the drives, Kernel::initATA() takes a disk.    *)

\* detect() of the next drive, or the choice among them.
Detected ==
  IF job.drive = 0 THEN pc' = "detect" /\ job' = [job EXCEPT !.drive = 1]
  ELSE pc' = "mount" /\ UNCHANGED job

Detect ==
  /\ pc = "detect" /\ pc' = "dselect"
  /\ dev' = CommandedNonsense
  /\ UNCHANGED <<kind, devsel, regs, stored, late, errors, found, mounted, job, ok, got, reader>>

DetectSelect ==
  /\ pc = "dselect" /\ ~Busy /\ pc' = "didentify"
  /\ Select(FALSE, 0)
  /\ UNCHANGED <<kind, regs, dev, stored, late, errors, found, mounted, job, ok, got, reader>>

Identify ==
  /\ pc = "didentify" /\ pc' = "dpoll"
  /\ dev' = Commanded("identify")
  /\ UNCHANGED <<kind, devsel, regs, stored, late, errors, found, mounted, job, ok, got, reader>>

\* m_size, in sectors; without LBA it is larger than the disk.
SizeOf(k) == IF k = "lba" THEN Capacity % Wrap
             ELSE ((Cylinders * Heads + Heads) * Sectors + Sectors - 1) % Wrap

\* A quarter of the drive's answer is read, the rest stays in the drive.
DetectDisk ==
  /\ pc = "dpoll" /\ dev[Sel].phase = "in" /\ ~dev[Sel].err
  /\ dev' = Drained(1)
  /\ found' = [found EXCEPT ![job.drive] =
       [model |-> "disk", lba |-> kind[Sel] = "lba", size |-> SizeOf(kind[Sel])]]
  /\ Detected
  /\ UNCHANGED <<kind, devsel, regs, stored, late, errors, mounted, ok, got, reader>>

DetectPacket ==
  /\ pc = "dpoll" /\ dev[Sel].err /\ pc' = "dpacket"
  /\ dev' = Commanded("packet")
  /\ UNCHANGED <<kind, devsel, regs, stored, late, errors, found, mounted, job, ok, got, reader>>

\* Whether the drive has answered by then is not looked at.
PacketRead ==
  /\ pc = "dpacket"
  /\ dev' = Drained(1)
  /\ \E size \in {0, 1} :
       found' = [found EXCEPT ![job.drive] = [model |-> "packet", lba |-> FALSE, size |-> size]]
  /\ Detected
  /\ UNCHANGED <<kind, devsel, regs, stored, late, errors, mounted, ok, got, reader>>

DetectAbsent ==
  /\ pc = "dpoll" /\ kind[Sel] = "none"
  /\ Detected
  /\ UNCHANGED <<device, found, mounted, ok, got, reader>>

DetectGivesUp ==
  /\ pc \in {"dselect", "dpoll"}
  /\ Busy /\ dev[Sel].op \in Slow /\ late < MaxLate /\ late' = late + 1
  /\ Detected
  /\ UNCHANGED <<kind, devsel, regs, dev, stored, errors, found, mounted, ok, got, reader>>

\* The model of a drive that detect() did not get to is not initialized, but its
\* size is 0.
Usable == {d \in Drives : found[d].model = "disk" /\ found[d].size > 0}

\* The first disk of the list; Ustar::detect() reads its first sector.
Mount ==
  /\ pc = "mount" /\ Usable # {}
  /\ mounted' = Min(Usable)
  /\ Access(Min(Usable), "read", 0, Unknown, "probe")
  /\ UNCHANGED <<device, found, ok, got, reader>>

\* The kernel goes on without a disk.
NoDisk ==
  /\ pc = "mount" /\ Usable = {}
  /\ UNCHANGED vars

Probed ==
  /\ pc = "return" /\ job.then = "probe" /\ pc' = "idle"
  /\ UNCHANGED <<device, found, mounted, job, ok, got, reader>>

-----------------------------------------------------------------------------
(* Ustar: findFile() walks over the headers, read() copies a file's blocks.  *)

\* getBlock(): the position is computed in 32 bits.
GetBlock(index, then) == Access(mounted, "read", index % Wrap, Unknown, then)

PastEnd(index) == index % Wrap >= found[mounted].size

NoFile == [want |-> Unknown, block |-> 0, index |-> 0, size |-> 0, done |-> 0, left |-> 0]

Find(name) ==
  /\ pc = "idle"
  /\ iter' = [NoFile EXCEPT !.want = name] /\ answer' = "none"
  /\ GetBlock(0, "header")
  /\ UNCHANGED <<device, found, mounted, ok, got, kept>>

\* Mutant: a block that is only partly filled is not skipped.
NextBlockDown(block, size) == block + size \div BlockSize + 1

NextBlock(block, size) == block + Blocks(size) + 1

Examining == pc = "return" /\ job.then = "header"

Ends(why) ==
  /\ answer' = why /\ pc' = "idle" /\ UNCHANGED iter
  /\ UNCHANGED <<device, found, mounted, job, ok, got, kept>>

\* The wanted header; open() takes plain files only.
Finds ==
  /\ Examining /\ ok /\ got.name = iter.want
  /\ pc' = "idle" /\ answer' = IF got.file THEN "found" ELSE "no file"
  /\ iter' = [iter EXCEPT !.size = got.size]
  /\ UNCHANGED <<device, found, mounted, job, ok, got, kept>>

\* next() and getCurrent(): the header after this file.
WalksOn ==
  LET n == NextBlock(iter.block, got.size)
  IN  /\ Examining /\ ok /\ got.name \notin {Unknown, iter.want}
      /\ ~PastEnd(iter.index + 1) /\ ~PastEnd(n)
      /\ iter' = [iter EXCEPT !.block = n, !.index = n]
      /\ GetBlock(n, "header")
      /\ UNCHANGED <<device, found, mounted, ok, got, answer, kept>>

\* A failed read, a sector without the mark of a header, or the end of the disk.
WalkEnds ==
  /\ Examining
  /\ \/ ~ok /\ Ends("failed")
     \/ ok /\ got.name = Unknown /\ Ends("missing")
     \/ ok /\ got.name \notin {Unknown, iter.want}
           /\ (PastEnd(iter.index + 1) \/ PastEnd(NextBlock(iter.block, got.size)))
           /\ Ends("missing")

\* read() of an open file: one block at a time until cnt bytes are there.  Its
\* test for the last block never says more than the one for the size.
CopyBlock(cnt) ==
  /\ iter' = [iter EXCEPT !.left = cnt]
  /\ GetBlock(iter.block + 1 + iter.done \div BlockSize, "content")

MoreToRead(cnt) == cnt > 0 /\ iter.done < iter.size

ReadFile(cnt) ==
  /\ pc = "idle" /\ answer = "found" /\ MoreToRead(cnt)
  /\ CopyBlock(cnt)
  /\ UNCHANGED <<device, found, mounted, ok, got, answer, kept>>

Copied == Min({iter.left, BlockSize - (iter.done % BlockSize), iter.size - iter.done})

ContentRead ==
  /\ pc = "return" /\ job.then = "content" /\ ok
  /\ iter' = [iter EXCEPT !.done = @ + Copied, !.left = @ - Copied]
  /\ pc' = "more"
  /\ UNCHANGED <<device, found, mounted, job, ok, got, answer, kept>>

ReadsOn ==
  /\ pc = "more" /\ MoreToRead(iter.left)
  /\ CopyBlock(iter.left)
  /\ UNCHANGED <<device, found, mounted, ok, got, answer, kept>>

ReadEnds ==
  /\ \/ pc = "more" /\ ~MoreToRead(iter.left)
     \/ pc = "return" /\ job.then = "content" /\ ~ok
  /\ pc' = "idle" /\ iter' = [iter EXCEPT !.left = 0]
  /\ UNCHANGED <<device, found, mounted, job, ok, got, answer, kept>>

-----------------------------------------------------------------------------
(* ATAPhys::write(), from whoever has the device.                            *)

Write(s, value) ==
  /\ pc = "idle" /\ Exists(mounted, s)
  /\ Access(mounted, "write", s, value, "written")
  /\ kept' = [kept EXCEPT ![s] = Unknown]
  /\ UNCHANGED <<device, found, mounted, ok, got, iter, answer>>

Written ==
  /\ pc = "return" /\ job.then = "written" /\ pc' = "idle"
  /\ kept' = IF ok THEN [kept EXCEPT ![job.addr] = job.value] ELSE kept
  /\ UNCHANGED <<device, found, mounted, job, ok, got, iter, answer>>

-----------------------------------------------------------------------------
Init ==
  /\ kind \in [Drives -> Kinds]
  /\ devsel = [drive |-> 0, lba |-> FALSE, head |-> 0] /\ regs = <<0, 0, 0>>
  /\ dev = [d \in Drives |-> Quiet]
  /\ stored = [d \in Drives |-> [s \in Scratch |-> Unknown]]
  /\ found = [d \in Drives |-> [model |-> "unknown", lba |-> FALSE, size |-> 0]]
  /\ mounted = NoDrive
  /\ pc = "detect"
  /\ job = [drive |-> 0, op |-> "read", addr |-> 0, value |-> Unknown, then |-> "none",
            dummy |-> FALSE]
  /\ ok = FALSE /\ got = Nothing
  /\ iter = NoFile /\ answer = "none"
  /\ late = 0 /\ errors = 0
  /\ kept = [s \in Scratch |-> Unknown]

Names == {Archive[k].name : k \in DOMAIN Archive}

Start  == Detect \/ DetectSelect \/ Identify \/ DetectDisk \/ DetectPacket \/ PacketRead
          \/ DetectAbsent \/ DetectGivesUp \/ Mount \/ NoDisk \/ Probed
Driver == SelectDevice \/ Reset \/ SelectHead \/ SetRegisters \/ GiveCommand \/ ReadData
          \/ ReadFails \/ WriteData \/ Flush \/ Flushed \/ GivesUp
Ustar  == (\E name \in Names \cup {Inner} : Find(name)) \/ Finds \/ WalksOn \/ WalkEnds
          \/ (\E cnt \in Counts : ReadFile(cnt)) \/ ContentRead \/ ReadsOn \/ ReadEnds
Writer == (\E s \in Scratch, value \in Values : Write(s, value)) \/ Written

Next ==
  \/ \E d \in Drives : Complete(d) \/ DriveError(d)
  \/ Start \/ Driver \/ Ustar \/ Writer

Spec == Init /\ [][Next]_vars

-----------------------------------------------------------------------------
(* What the theorems about the disk assume besides                            *)

\* No drive takes longer for a sector than the driver waits.
Prompt == Slow \cap {"read", "write"} = {}

\* Every position, in 32 bits, is in a cylinder whose number has two bytes.
Addressable == Wrap <= TwoBytes * Heads * Sectors

\* The archive lies on any disk there may be, and nothing is written over it.
ArchiveFits ==
  /\ \A k \in Disks : HeaderOf(Len(Archive) + 1) <= SizeOf(k)
  /\ \A s \in Scratch : s >= HeaderOf(Len(Archive) + 1)

-----------------------------------------------------------------------------
(* What the disk promises                                                    *)

\* Every variable keeps its type; no register is given more than a byte.
TypeOK ==
  /\ devsel \in [drive: Drives, lba: BOOLEAN, head: 0..HeadValues - 1]
  /\ regs \in Seq(0..ByteValues - 1) /\ Len(regs) = 3
  /\ \A d \in Drives :
       /\ dev[d].phase \in {"idle", "busy", "in", "out"}
       /\ dev[d].left \in 0..Quarter /\ dev[d].err \in BOOLEAN
       /\ found[d].size \in Nat /\ found[d].model \in {"unknown", "disk", "packet"}
  /\ mounted \in Drives \cup {NoDrive}
  /\ late \in 0..MaxLate /\ errors \in 0..MaxErrors
  /\ stored \in [Drives -> [Scratch -> Values \cup {Unknown}]]
  /\ kept \in [Scratch -> Values \cup {Unknown}]

\* A read that says it succeeded has brought the sector that was asked for, of the
\* disk it was asked of, and no remainder of an earlier answer: readSector() and
\* select() (src/ata.cpp) after whatever went before.
ReadFaithful ==
  /\ TypeOK
  /\ pc = "return" /\ ok /\ job.op = "read" => got = Content(mounted, job.addr)

\* While the drives report no error, what writeSector() said it had written is on
\* the disk or on its way from the drive's buffer.
WriteKept ==
  \A s \in Scratch : kept[s] # Unknown /\ errors = 0 =>
    \/ stored[mounted][s] = kept[s]
    \/ /\ dev[mounted].phase = "busy" /\ dev[mounted].op = "store"
       /\ dev[mounted].sector = s /\ dev[mounted].data = kept[s]

\* The first entry with a name.
EntryOf(name) == Min({k \in DOMAIN Archive : Archive[k].name = name})

\* findFile() finds the header of the file and never data that look like one, misses
\* no file unless a read failed, and read() copies the file's own blocks in order.
ArchiveFaithful ==
  LET k == EntryOf(iter.want)
  IN  /\ answer = "found" => iter.want \in Names /\ iter.block = HeaderOf(k)
                                                 /\ iter.size = Archive[k].size
      /\ Examining /\ ok => \E j \in DOMAIN Archive \cup {Len(Archive) + 1} :
                              job.addr = HeaderOf(j)
      /\ answer = "missing" => iter.want \notin Names
      /\ pc = "return" /\ job.then = "content" /\ ok =>
           got.from = <<mounted, HeaderOf(k) + 1 + iter.done \div BlockSize>>
=============================================================================
