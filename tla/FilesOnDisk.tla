------------------------------ MODULE FilesOnDisk ------------------------------
(***************************************************************************)
(* Files from the handle down to the sector: the table of open files with   *)
(* the calls on it (Files), and the disk with the archive that the files    *)
(* are in (Disk).  What the table needs of the disk, whether a name is      *)
(* there and how long it is, Files leaves open in Size, and a read of a     *)
(* file is one step there, so a behaviour is one of a single module, as     *)
(* part says.                                                               *)
(***************************************************************************)
EXTENDS Files

CONSTANTS
  ByteValues, HeadValues, Wrap, Capacity, Cylinders, Heads, Sectors, BlockSize,
  Archive, Inner, Scratch, Values, Unknown, Counts, Slow, MaxLate, MaxErrors   \* Disk

VARIABLES
  part,
  kind, devsel, regs, dev, stored, found, mounted, at, job, ok, got, walker, answer,
  late, errors, kept

disk == <<kind, devsel, regs, dev, stored, found, mounted, at, job, ok, got, walker, answer,
          late, errors, kept>>
all  == <<part, vars, disk>>

\* Where the driver stands is at, the iterator of a walk over the archive is walker.
Ata == INSTANCE Disk WITH pc <- at, iter <- walker

ASSUME FilesOnDiskAssumption == Ata!DiskBounds

StoreInit ==
  /\ part \in {"table", "disk"}
  /\ Init /\ Ata!Init
  /\ part # "disk" => kind = CHOOSE k \in [Ata!Drives -> Ata!Kinds] : TRUE

StoreNext ==
  \/ part = "table" /\ Next /\ UNCHANGED <<part, disk>>
  \/ part = "disk" /\ Ata!Next /\ UNCHANGED <<part, vars>>

StoreSpec == StoreInit /\ [][StoreNext]_all

-----------------------------------------------------------------------------
\* A read that says it succeeded has brought the sector that was asked for: readSector()
\* and select() after whatever went before.
ReadFaithful == Ata!ReadFaithful

\* While the drives report no error, what writeSector() said it had written is there.
WriteKept == Ata!WriteKept

\* findFile() finds the header of the file and read() copies the file's own blocks.
ArchiveFaithful == Ata!ArchiveFaithful
================================================================================
