---------------------------------- MODULE Paths ----------------------------------
(***************************************************************************)
(* From a path to an open file: the strings of the kernel (src/string.cpp), *)
(* the mounted file systems (src/fs/vfs.cpp) and the beginning of the       *)
(* open() system call (libc/syscall_fileio.cpp).  A String owns a block of   *)
(* memory, or has a null pointer and a length that nothing may have set.    *)
(***************************************************************************)
EXTENDS Integers, Sequences, FiniteSets

CONSTANTS
  Chars,    \* characters of a path beside the slash
  MaxLen,   \* bound: length of a path
  Dev,      \* the mount point of DevFS
  Ustar,    \* the mount point of the archive
  Files     \* the names of each file system's files, by mount point

Slash == "/"
Nul   == "nul"
Junk  == -1     \* a length that nothing has set
Null  == 0      \* no block

PathsAssumption ==
  /\ {Slash, Nul, "null read"} \cap Chars = {} /\ MaxLen \in Nat
  /\ Dev # Ustar /\ <<>> \notin {Dev, Ustar}
  /\ \A p \in {Dev, Ustar} : p \in Seq(Chars \cup {Slash}) /\ Files[p] \subseteq Seq(Chars \cup {Slash})

\* tar leaves out a slash at the beginning of a name.  With one the file cannot be opened.
NamesPlain == \A p \in {Dev, Ustar} : \A n \in Files[p] : n # <<>> => n[1] # Slash

Paths == UNION {[1..n -> Chars \cup {Slash}] : n \in 0..MaxLen}

VARIABLES
  mounts,   \* VFS::m_mounts, the mount points in their order
  pc,       \* where the call is
  path,     \* its argument
  fs,       \* the file system that access() found
  mem,      \* the blocks of memory in use, with their characters
  name,     \* the String that basedir() returned
  res,      \* the String of stripslash(), then of the call
  result    \* "none", "opened", "failed" or "undefined"

vars == <<mounts, pc, path, fs, mem, name, res, result>>

-----------------------------------------------------------------------------
(* String                                                                    *)

NullString(len) == [str |-> Null, len |-> len]

Unused(m) == CHOOSE b \in 1..(Cardinality(DOMAIN m) + 1) : b \notin DOMAIN m

\* String(const char *)
New(m, text) ==
  [mem |-> [b \in DOMAIN m \cup {Unused(m)} |-> IF b \in DOMAIN m THEN m[b] ELSE text],
   s   |-> [str |-> Unused(m), len |-> Len(text)]]

Destroy(m, s) == [b \in DOMAIN m \ {s.str} |-> m[b]]

\* init() with the string and the length of another: a null pointer leaves the length.
InitFrom(m, s, len) ==
  IF s.str = Null THEN [mem |-> m, s |-> NullString(len)] ELSE New(m, SubSeq(m[s.str], 1, s.len))

CopyOf(m, s) == InitFrom(m, s, Junk)

\* operator=(): the block that the string had is not given back.
Assign(m, to, from) == InitFrom(m, from, to.len)

startsWith(text, point) == Len(text) >= Len(point) /\ SubSeq(text, 1, Len(point)) = point

\* right(): nothing is allocated for nothing.
right(m, s, index) ==
  IF index >= s.len THEN [mem |-> m, s |-> NullString(0)]
  ELSE New(m, SubSeq(m[s.str], index + 1, s.len))

\* What at(0) may give: a character, or a read through the null pointer.
First(m, s) ==
  CASE s.len = 0 -> {Nul}
    [] s.len = Junk -> {Nul, "null read"}
    [] s.len > 0 /\ s.str = Null -> {"null read"}
    [] OTHER -> {m[s.str][1]}

-----------------------------------------------------------------------------
(* VFS                                                                       *)

\* Kernel::initFileSystem() registers and mounts DevFS, initATA() the archive if
\* there is a disk.  A mounted file system keeps a String for its mount point.
Mount(point) ==
  /\ pc = "idle"
  /\ \/ mounts = <<>> /\ point = Dev
     \/ mounts = <<Dev>> /\ point = Ustar
  /\ mounts' = Append(mounts, point)
  /\ mem' = New(mem, point).mem
  /\ UNCHANGED <<pc, path, fs, name, res, result>>

\* syscall_open() and access(): the first mount point that the path begins with.
Access(p) ==
  /\ pc = "idle" /\ mounts # <<>>
  /\ path' = p
  /\ LET hits == {i \in DOMAIN mounts : startsWith(p, mounts[i])}
     IN  IF hits = {}
         THEN pc' = "done" /\ result' = "failed" /\ UNCHANGED fs
         ELSE LET first == CHOOSE i \in hits : \A j \in hits : i <= j
              IN  fs' = mounts[first] /\ pc' = "basedir" /\ UNCHANGED result
  /\ UNCHANGED <<mounts, mem, name, res>>

\* Mutant: one character less is cut off.
BasedirShort ==
  /\ pc = "basedir"
  /\ LET file == New(mem, path)
         r == right(file.mem, file.s, Len(fs))
     IN  name' = r.s /\ mem' = Destroy(r.mem, file.s)
  /\ pc' = "copy"
  /\ UNCHANGED <<mounts, path, fs, res, result>>

\* basedir(): what follows the mount point and one more character.
Basedir ==
  /\ pc = "basedir"
  /\ LET file == New(mem, path)
         r == right(file.mem, file.s, Len(fs) + 1)
     IN  name' = r.s /\ mem' = Destroy(r.mem, file.s)
  /\ pc' = "copy"
  /\ UNCHANGED <<mounts, path, fs, res, result>>

\* stripslash(): a copy first,
StripCopy ==
  /\ pc = "copy"
  /\ LET r == CopyOf(mem, name) IN mem' = r.mem /\ res' = r.s
  /\ pc' = "strip"
  /\ UNCHANGED <<mounts, path, fs, name, result>>

\* then one slash in a round,
StripSlash ==
  /\ pc = "strip" /\ Slash \in First(mem, res)
  /\ LET t == right(mem, res, 1)
         r == Assign(t.mem, res, t.s)
     IN  res' = r.s /\ mem' = Destroy(r.mem, t.s)
  /\ UNCHANGED <<mounts, pc, path, fs, name, result>>

\* until there is another character.  A length that nothing set was 0 then.
StripEnd ==
  /\ pc = "strip"
  /\ \E c \in First(mem, res) : c \notin {Slash, "null read"}
  /\ mem' = Destroy(mem, name)
  /\ res' = IF res.len = Junk THEN NullString(0) ELSE res
  /\ pc' = "open"
  /\ UNCHANGED <<mounts, path, fs, name, result>>

NullRead ==
  /\ pc = "strip" /\ "null read" \in First(mem, res)
  /\ pc' = "done" /\ result' = "undefined"
  /\ UNCHANGED <<mounts, path, fs, mem, name, res>>

\* The call gives back its own String at its end.
Finish(m, r) ==
  /\ mem' = Destroy(m, res)
  /\ result' = r /\ pc' = "done"
  /\ UNCHANGED <<mounts, path, fs, name, res>>

\* DevFS::open() and UstarFilesystem::open() compare a copy of the name with their
\* files; mapfile() keeps the type of the file system and the name.
OpenFound ==
  /\ pc = "open" /\ res.str # Null
  /\ mem[res.str] \in Files[fs]
  /\ LET p == CopyOf(mem, res)
         kept == New(New(p.mem, <<>>).mem, mem[res.str])
     IN  Finish(Destroy(kept.mem, p.s), "opened")

OpenFails ==
  /\ pc = "open"
  /\ \/ res.str # Null /\ mem[res.str] \notin Files[fs]
     \/ res.str = Null
     \/ fs = Dev   \* flags that DevFS refuses
  /\ Finish(mem, "failed")

\* The copy of an empty String may have the length of some name.
OpenUndefined ==
  /\ pc = "open" /\ res.str = Null /\ Files[fs] # {}
  /\ Finish(mem, "undefined")

\* open(nullptr), or anything else that does not come here.
OpenNull == pc = "idle" /\ UNCHANGED vars
Ended == pc = "done" /\ UNCHANGED vars

Init ==
  /\ mounts = <<>> /\ pc = "idle" /\ path = <<>> /\ fs = <<>>
  /\ mem = <<>> /\ name = NullString(0) /\ res = NullString(0) /\ result = "none"

Next ==
  \/ \E p \in {Dev, Ustar} : Mount(p)
  \/ \E p \in Paths : Access(p)
  \/ Basedir \/ StripCopy \/ StripSlash \/ StripEnd \/ NullRead
  \/ OpenFound \/ OpenFails \/ OpenUndefined
  \/ OpenNull \/ Ended

Spec == Init /\ [][Next]_vars

-----------------------------------------------------------------------------
(* Properties                                                                *)

Slashes(text) == \A i \in DOMAIN text : text[i] = Slash

\* The path p is the mount point m, a character, any slashes, and the name n.
Means(p, m, n) ==
  \E i \in Len(m) + 2 .. Len(p) :
    /\ SubSeq(p, 1, Len(m)) = m
    /\ Slashes(SubSeq(p, Len(m) + 2, i - 1))
    /\ SubSeq(p, i, Len(p)) = n

\* open() opens a file only if the path is its mount point and its name, and finds
\* every file that way: with one slash or several between them.  (The character
\* behind the mount point may be any other, too: it is not looked at.)
OpensNamed ==
  pc = "done" =>
    /\ result = "opened" => \E n \in Files[fs] : Means(path, fs, n)
    /\ result = "failed" /\ fs = Ustar => \A n \in Files[fs] : ~Means(path, fs, n)
    /\ fs = <<>> => \A i \in DOMAIN mounts : \A n \in Files[mounts[i]] : ~Means(path, mounts[i], n)

\* The null pointer of an empty String is read only if nothing but slashes follows
\* the mount point and the character behind it: open("/dev") is enough.
NamesNothing(p, m) == Slashes(SubSeq(p, Len(m) + 2, Len(p)))
UndefinedOnlyEmpty == result = "undefined" => NamesNothing(path, fs)

\* Blocks of memory that the call does not give back: one for every slash that was
\* removed, and the two Strings of an open file.
Removed == Cardinality({i \in Len(fs) + 2 .. Len(path) : Slashes(SubSeq(path, Len(fs) + 2, i))})
LeaksPerSlash ==
  pc = "done" /\ result # "undefined" =>
    Cardinality(DOMAIN mem) =
      Len(mounts) + (IF result = "opened" THEN 2 ELSE 0) + (IF fs = <<>> THEN 0 ELSE Removed)

\* open() does what its path says for every path, and what it loses is known.
OpenRight == OpensNamed /\ UndefinedOnlyEmpty /\ LeaksPerSlash
=================================================================================
