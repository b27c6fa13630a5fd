------------------------------- MODULE OpenFiles -------------------------------
(***************************************************************************)
(* What the system calls on files promise a program: a table of open       *)
(* files.  open() gives a handle that was never given before, reading moves *)
(* only the position of its own handle, forward and not past the end.      *)
(***************************************************************************)
EXTENDS Integers, FiniteSets

CONSTANTS
  Paths,    \* names of files
  Size      \* length of each file, in blocks

VARIABLES
  files,    \* open handle -> path, position and descriptor flags
  given     \* the last handle that was given

Put(h, f) == [k \in DOMAIN files \cup {h} |-> IF k = h THEN f ELSE files[k]]

Init == files = <<>> /\ given = 2

Open(path) ==
  /\ given' = given + 1
  /\ files' = Put(given + 1, [path |-> path, pos |-> 0, flags |-> 0])

Close(h) ==
  /\ files' = [k \in DOMAIN files \ {h} |-> files[k]]
  /\ UNCHANGED given

Read(h) ==
  /\ \E p \in files[h].pos..Size[files[h].path] : files' = Put(h, [files[h] EXCEPT !.pos = p])
  /\ UNCHANGED given

SetFlags(h) ==
  /\ \E f \in {0, 1} : files' = Put(h, [files[h] EXCEPT !.flags = f])
  /\ UNCHANGED given

Next ==
  \/ \E path \in Paths : Open(path)
  \/ \E h \in DOMAIN files : Close(h) \/ Read(h) \/ SetFlags(h)

Spec == Init /\ [][Next]_<<files, given>>
================================================================================
