-------------------------------- MODULE Files --------------------------------
(***************************************************************************)
(* Open files: the system calls of libc/syscall_fileio.cpp, the virtual    *)
(* file system that finds the owner of a handle (src/fs/vfs.cpp), the      *)
(* global table of open files (src/fs/filesystem.cpp) kept in a linked     *)
(* list (src/list.cpp), and the two file systems the kernel mounts: DevFS  *)
(* and Ustar, which keeps an Iterator object for every open file.          *)
(*                                                                         *)
(* An operation of the table holds __fs_mutex and is one step (see module  *)
(* Scheduler for what the mutex promises); between two of them any other   *)
(* task may run.  A task uses the handles it opened.                       *)
(***************************************************************************)
EXTENDS Integers, Sequences, FiniteSets, Functions

CONSTANTS
  Tasks,           \* tasks that use files
  Paths,           \* names that open() is given
  Devices,         \* names that DevFS knows: random, urandom
  Size,            \* names of the archive's plain files, with their length in blocks
  Nil,             \* the null pointer
  LIST_MAX_FREED,  \* one more than the list objects kept for reuse
  MaxHandles       \* bound: files opened

ASSUME FilesAssumption ==
  /\ Devices \subseteq Paths
  /\ DOMAIN Size \subseteq Paths \ Devices
  /\ Size \in [DOMAIN Size -> Nat]
  /\ Nil \notin 1..MaxHandles + 2
  /\ LIST_MAX_FREED \in Nat \ {0}
  /\ MaxHandles \in Nat

VARIABLES
  first, last, size,  \* List::m_first, m_last, m_size of Filesystem::m_files
  next, ptr,          \* of the list objects
  freed,              \* List::m_freed, the last one is used first
  filehandle,         \* Filesystem::m_filehandle
  data,               \* FileData of a handle
  iter,               \* Ustar::Iterator objects
  pc, op, arg, it,    \* where a task stands in which call, on what, with which Iterator
  own,                \* handles that open() returned to a task and it has not closed
  leaked              \* history: handles that stat() opened

listVars == <<first, last, size, next, ptr, freed>>
callVars == <<pc, op, arg, it>>
vars == <<listVars, filehandle, data, iter, callVars, own, leaked>>

Files   == DOMAIN Size
Handles == 3..MaxHandles + 2
Objects == 1..MaxHandles      \* list objects
Iters   == 1..MaxHandles      \* addresses of Iterator objects
NoIter  == [live |-> FALSE, path |-> Nil, pos |-> 0]
NoFile  == [name |-> Nil, custom |-> Nil, fcntl |-> 0]
Labels  == {"idle", "map", "custom", "use", "delete", "unlink", "flags"}
Ops     == {"none", "open", "stat", "read", "fstat", "close", "fcntl"}

Init ==
  /\ first = Nil /\ last = Nil /\ size = 0
  /\ next = [o \in Objects |-> Nil] /\ ptr = [o \in Objects |-> Nil]
  /\ freed = <<>>
  /\ filehandle = 2
  /\ data = [h \in Handles |-> NoFile]
  /\ iter = [i \in Iters |-> NoIter]
  /\ pc = [t \in Tasks |-> "idle"] /\ op = [t \in Tasks |-> "none"]
  /\ arg = [t \in Tasks |-> Nil] /\ it = [t \in Tasks |-> Nil]
  /\ own = [t \in Tasks |-> {}] /\ leaked = {}

-----------------------------------------------------------------------------
(* List                                                                      *)

\* The object that at(i) and deleteAt(i) come to, or the null pointer.
Nth(i) ==
  LET walk[k \in 0..i] ==
        IF k = 0 THEN first
        ELSE IF walk[k - 1] = Nil THEN Nil ELSE next[walk[k - 1]]
  IN  walk[i]

At(i) == IF Nth(i) = Nil THEN Nil ELSE ptr[Nth(i)]

\* An object no list has: new ListObject.  (An object that deleteAt(0) drops is
\* never used again.)
NewObject == CHOOSE o \in Objects : ptr[o] = Nil

GetFree == IF freed = <<>> THEN NewObject ELSE freed[Len(freed)]

\* append(), and addFirst() for an empty list.
ListAppend(h) ==
  LET obj == GetFree
      link == IF last = Nil THEN first ELSE Nil
  IN  /\ ptr' = [ptr EXCEPT ![obj] = h]
      /\ next' = [o \in Objects |-> IF o = obj THEN link
                                    ELSE IF o = last THEN obj ELSE next[o]]
      /\ first' = IF last = Nil THEN obj ELSE first
      /\ last' = IF last = Nil /\ first # Nil THEN last ELSE obj
      /\ size' = size + 1
      /\ freed' = IF freed = <<>> THEN freed ELSE SubSeq(freed, 1, Len(freed) - 1)

\* List::free(): the object is kept for reuse, or deleted.
ListFree(obj) ==
  freed' = IF Len(freed) + 1 >= LIST_MAX_FREED THEN freed ELSE Append(freed, obj)

\* deleteAt(0) does not give the object back.
DeleteFirst ==
  /\ first' = next[first]
  /\ last' = IF next[first] = Nil THEN Nil ELSE last
  /\ size' = IF next[first] = Nil THEN 0 ELSE size - 1
  /\ UNCHANGED <<next, ptr, freed>>

\* deleteAt(i) for i > 0; obj is the object before it.
DeleteAfter(obj) ==
  LET tmp == next[obj]
  IN  /\ IF tmp # Nil
         THEN /\ next' = [next EXCEPT ![obj] = next[tmp]]
              /\ last' = IF next[tmp] = Nil THEN obj ELSE last
              /\ size' = size - 1
              /\ ListFree(tmp)
              /\ UNCHANGED first
         ELSE /\ first' = Nil /\ last' = Nil /\ size' = 0
              /\ ListFree(obj)
              /\ UNCHANGED next
      /\ UNCHANGED ptr

\* Mutant: one object too far.
DeleteAtNext(i) == IF i = 0 THEN DeleteFirst ELSE DeleteAfter(Nth(i))

DeleteAt(i) == IF i = 0 THEN DeleteFirst ELSE DeleteAfter(Nth(i - 1))

-----------------------------------------------------------------------------
(* Filesystem: the table, searched from the start                            *)

Found(h) == {i \in 0..size - 1 : At(i) = h}
Index(h) == CHOOSE i \in Found(h) : \A j \in Found(h) : i <= j

\* getCustom(), and getFilesystem(), which is DevFS for a file without Iterator.
GetCustom(h) == IF Found(h) = {} THEN Nil ELSE data[h].custom

MapFile(h, name, custom) ==
  /\ filehandle' = h
  /\ data' = [data EXCEPT ![h] = [name |-> name, custom |-> custom, fcntl |-> 0]]
  /\ ListAppend(h)

\* The FileData is not deleted, but nothing reaches it any more.
CloseFile(h) ==
  IF Found(h) = {} THEN UNCHANGED <<listVars, data>>
  ELSE DeleteAt(Index(h)) /\ data' = [data EXCEPT ![h] = NoFile]

-----------------------------------------------------------------------------
(* System calls                                                              *)

\* What a task is doing; nothing is kept of a call that has returned.
Doing(t, label, o, a, i) ==
  /\ pc' = [pc EXCEPT ![t] = label]
  /\ op' = [op EXCEPT ![t] = IF label = "idle" THEN "none" ELSE o]
  /\ arg' = [arg EXCEPT ![t] = IF label = "idle" THEN Nil ELSE a]
  /\ it' = [it EXCEPT ![t] = IF label = "idle" THEN Nil ELSE i]

Goto(t, label) == Doing(t, label, op[t], arg[t], it[t])

\* Room for one more handle, counting the calls that are about to take one.
Room == filehandle + Cardinality({t \in Tasks : pc[t] = "map"}) < MaxHandles + 2

\* open() and stat() by path: VFS::access() and the file system's open() up to the
\* table.  DevFS needs nothing, Ustar finds the header and makes an Iterator.
\* stat() opens the file too.
SysOpen(t, path) ==
  /\ Room
  /\ path \in Devices \cup Files
  /\ pc[t] = "idle"
  /\ LET i == IF path \in Devices THEN Nil ELSE CHOOSE j \in Iters : ~iter[j].live
     IN  /\ \E o \in {"open", "stat"} : Doing(t, "map", o, path, i)
         /\ iter' = [j \in Iters |-> IF j = i THEN [live |-> TRUE, path |-> path, pos |-> 0]
                                     ELSE iter[j]]
  /\ UNCHANGED <<listVars, filehandle, data, own, leaked>>

\* No mount, no such file, not a plain file, a device opened for writing, or a block
\* that cannot be read.  (write() changes nothing either: both file systems refuse it.)
SysOpenFails(t, path) ==
  /\ pc[t] = "idle"
  /\ UNCHANGED vars

\* mapfile().  stat() goes on with the handle and nobody will ever close it.
SysMap(t) ==
  LET h == filehandle + 1
  IN  /\ pc[t] = "map"
      /\ MapFile(h, arg[t], it[t])
      /\ Doing(t, IF op[t] = "stat" THEN "custom" ELSE "idle", op[t], h, Nil)
      /\ own' = IF op[t] = "stat" THEN own ELSE [own EXCEPT ![t] = @ \cup {h}]
      /\ leaked' = IF op[t] = "stat" THEN leaked \cup {h} ELSE leaked
      /\ UNCHANGED iter

\* A call on a handle: VFS::accessHandle() asks the first mount for the owner of the
\* handle; if there is one, its operation follows.
SysCall(t, o, h) ==
  /\ pc[t] = "idle" /\ Found(h) # {}
  /\ Doing(t, CASE o = "fcntl" -> "flags"
                [] o = "close" /\ data[h].custom = Nil -> "unlink"
                [] OTHER -> "custom", o, h, Nil)
  /\ own' = IF o = "close" THEN [own EXCEPT ![t] = @ \ {h}] ELSE own
  /\ UNCHANGED <<listVars, filehandle, data, iter, leaked>>

\* getCustom() of read(), stat() and close(); DevFS has none and is done.
SysCustom(t) ==
  LET custom == GetCustom(arg[t])
  IN  /\ pc[t] = "custom"
      /\ Doing(t, CASE custom # Nil /\ op[t] = "close" -> "delete"
                    [] custom # Nil /\ op[t] # "close" -> "use"
                    [] custom = Nil /\ op[t] = "close" -> "unlink"
                    [] OTHER -> "idle", op[t], arg[t], custom)
      /\ UNCHANGED <<listVars, filehandle, data, iter, own, leaked>>

Earlier(a, b) == IF a < b THEN a ELSE b

\* Mutant: the end of the file is not looked at.
SysUseUnclamped(t) ==
  /\ pc[t] = "use"
  /\ Goto(t, "idle")
  /\ iter' = [iter EXCEPT ![it[t]].pos = IF op[t] = "read" THEN @ + 1 ELSE @]
  /\ UNCHANGED <<listVars, filehandle, data, own, leaked>>

\* Iterator::read() advances to the end of what was asked for or of the file, or stops
\* at a block that cannot be read; stat() only looks.
SysUse(t) ==
  /\ pc[t] = "use"
  /\ Goto(t, "idle")
  /\ IF op[t] = "read"
     THEN \E count \in 0..2 :
            iter' = [iter EXCEPT ![it[t]].pos = Earlier(@ + count, Size[iter[it[t]].path])]
     ELSE UNCHANGED iter
  /\ UNCHANGED <<listVars, filehandle, data, own, leaked>>

\* Mutant: the Iterator is not deleted.
SysDeleteForgotten(t) ==
  /\ pc[t] = "delete"
  /\ Goto(t, "unlink")
  /\ UNCHANGED <<listVars, filehandle, data, iter, own, leaked>>

\* UstarFilesystem::close() deletes the Iterator, then takes the handle away.
SysDelete(t) ==
  /\ pc[t] = "delete"
  /\ Goto(t, "unlink")
  /\ iter' = [iter EXCEPT ![it[t]] = NoIter]
  /\ UNCHANGED <<listVars, filehandle, data, own, leaked>>

SysUnlink(t) ==
  /\ pc[t] = "unlink"
  /\ Goto(t, "idle")
  /\ CloseFile(arg[t])
  /\ UNCHANGED <<filehandle, iter, own, leaked>>

\* setFcntl(); getFcntl() changes nothing.
SysFlags(t) ==
  /\ pc[t] = "flags"
  /\ Goto(t, "idle")
  /\ IF Found(arg[t]) = {} THEN UNCHANGED data
     ELSE \E f \in {0, 1} : data' = [data EXCEPT ![arg[t]].fcntl = f]
  /\ UNCHANGED <<listVars, filehandle, iter, own, leaked>>

Next ==
  \E t \in Tasks :
    \/ \E path \in Paths : SysOpen(t, path) \/ SysOpenFails(t, path)
    \/ SysMap(t)
    \/ \E h \in own[t], o \in {"read", "fstat", "close", "fcntl"} : SysCall(t, o, h)
    \/ SysCustom(t) \/ SysUse(t) \/ SysDelete(t) \/ SysUnlink(t) \/ SysFlags(t)

Spec == Init /\ [][Next]_vars

-----------------------------------------------------------------------------
(* What open files promise                                                   *)

\* Every variable keeps its type.
TypeOK ==
  /\ first \in Objects \cup {Nil} /\ last \in Objects \cup {Nil} /\ size \in 0..MaxHandles
  /\ next \in [Objects -> Objects \cup {Nil}] /\ ptr \in [Objects -> Handles \cup {Nil}]
  /\ freed \in Seq(Objects) /\ filehandle \in 2..MaxHandles + 2
  /\ data \in [Handles -> [name: Paths \cup {Nil}, custom: Iters \cup {Nil}, fcntl: {0, 1}]]
  /\ iter \in [Iters -> [live: BOOLEAN, path: Files \cup {Nil}, pos: Nat]]
  /\ pc \in [Tasks -> Labels] /\ op \in [Tasks -> Ops]
  /\ arg \in [Tasks -> Paths \cup Handles \cup {Nil}] /\ it \in [Tasks -> Iters \cup {Nil}]
  /\ own \in [Tasks -> SUBSET Handles] /\ leaked \subseteq Handles

\* The linked list is a list: m_size objects from m_first to m_last, none twice, none
\* of them waiting for reuse, with the handles in the order in which they were opened.
ListSound ==
  LET chain == [i \in 1..size |-> Nth(i - 1)]
  IN  /\ TypeOK
      /\ Nil \notin Range(chain) /\ Nth(size) = Nil
      /\ last = IF size = 0 THEN Nil ELSE chain[size]
      /\ Cardinality(Range(chain) \cup Range(freed)) = size + Len(freed)
      /\ \A i \in 1..size - 1 : At(i - 1) < At(i)

Listed == {h \in Handles : Found(h) # {}}

\* A handle that open() returned stays what it was until its task closes it: it is in
\* the table, and a file of the archive has an Iterator of its own, on that file.
HandlesKept ==
  \A t \in Tasks : \A h \in own[t] :
    /\ h \in Listed
    /\ data[h].name \in Files =>
         /\ iter[data[h].custom].live
         /\ iter[data[h].custom].path = data[h].name
         /\ \A g \in Listed \ {h} : data[g].custom # data[h].custom
              \/ \E u \in Tasks : pc[u] = "unlink" /\ arg[u] = g

\* No call uses or deletes an Iterator that was deleted since the call looked it up.
NoUseAfterFree ==
  \A t \in Tasks : pc[t] \in {"use", "delete"} =>
    /\ iter[it[t]].live
    /\ data[arg[t]].custom = it[t]
    /\ arg[t] \in Listed

Closing(h) == \E t \in Tasks : op[t] = "close" /\ arg[t] = h

\* Whatever the tasks open and close meanwhile, a handle leads through the list to its
\* own Iterator, which is alive as long as a call or the handle's owner can use it.
HandlesSound == ListSound /\ HandlesKept /\ NoUseAfterFree

\* Only stat() leaves handles and Iterators behind: every other entry of the table has
\* a task that can still close it, and every Iterator is reached from an entry or from
\* a call that is about to enter it.
OnlyStatLeaks ==
  /\ \A h \in Listed : h \in leaked \/ Closing(h) \/ \E t \in Tasks : h \in own[t]
  /\ \A i \in Iters : iter[i].live =>
       \/ \E h \in Listed : data[h].custom = i
       \/ \E t \in Tasks : pc[t] = "map" /\ it[t] = i

\* The detailed table implements the abstract one.  A handle is gone once its
\* Iterator is.
Open == {h \in Listed : ~\E t \in Tasks : pc[t] = "unlink" /\ arg[t] = h}
Position(h) == IF data[h].custom = Nil THEN 0 ELSE iter[data[h].custom].pos

Table == INSTANCE OpenFiles WITH
  Size <- [p \in Paths |-> IF p \in Files THEN Size[p] ELSE 0],
  files <- [h \in Open |-> [path |-> data[h].name, pos |-> Position(h),
                            flags |-> data[h].fcntl]],
  given <- filehandle

TableSpec == Table!Spec

=============================================================================
