------------------------------- MODULE MCFiles -------------------------------
(* Files on a disk for TLC: two tasks, a device, a file of an archive, a name *)
(* that is not there and a list that keeps one object for reuse; on the disk  *)
(* an archive of a file, a directory, a longer file and another file with the *)
(* name of the first.                                                         *)
EXTENDS FilesOnDisk, TLC
CONSTANTS random, file, missing
MCPaths  == {random, file, missing}
MCSize   == [p \in {file} |-> 1]
Symmetry == Permutations(Tasks)

MCArchive == << [name |-> "a", size |-> 2, file |-> TRUE],
                [name |-> "b", size |-> 0, file |-> FALSE],
                [name |-> "c", size |-> 3, file |-> TRUE],
                [name |-> "a", size |-> 1, file |-> TRUE] >>

\* The constants are ones that the theorems about the disk are for.
ASSUME MCFilesAssumption == Ata!Prompt /\ Ata!Addressable /\ Ata!ArchiveFits
==============================================================================
