-------------------------------- MODULE Library --------------------------------
(***************************************************************************)
(* The functions that the rest of the kernel calls: the list, the way from  *)
(* a path to a file, division, printf() and the clock.  They share no       *)
(* state, so a behaviour is one of a single module, as part says.           *)
(***************************************************************************)
EXTENDS Integers

CONSTANTS
  Values, MaxObjects, LIST_MAX_FREED,   \* Lists
  Chars, MaxLen, Dev, Ustar, Files,     \* Paths
  Bits,                                 \* of a number in Divide
  WordBits, MaxFormat, MaxOwed,         \* Printf
  Starts, MaxTicks, MaxCalls            \* Clock

VARIABLES
  part,
  list, odd,
  mounts, at, path, fs, mem, name, res, opened,
  step, op, x, y, minus, num, den, qbit, quot, result,
  read, format_char, l_cnt, fmtcnt, owed, last, asked, twisted,
  now, ticks, calls, register, info, entered, tv_sec

lists   == <<list, odd>>
paths   == <<mounts, at, path, fs, mem, name, res, opened>>
numbers == <<step, op, x, y, minus, num, den, qbit, quot, result>>
format  == <<read, format_char, l_cnt, fmtcnt, owed, last, asked, twisted>>
clock   == <<now, ticks, calls, register, info, entered, tv_sec>>
vars    == <<part, lists, paths, numbers, format, clock>>

L == INSTANCE Lists
P == INSTANCE Paths WITH pc <- at, result <- opened
D == INSTANCE Divide WITH pc <- step, W <- Bits
F == INSTANCE Printf WITH W <- WordBits, odd <- twisted, n <- read
C == INSTANCE Clock WITH pc <- register

ASSUME LibraryAssumption ==
  /\ L!ListsAssumption /\ P!PathsAssumption /\ D!WidthAssumption
  /\ F!PrintAssumption /\ C!ClockAssumption

Init ==
  /\ part \in {"list", "path", "division", "format", "clock"}
  /\ L!Init /\ P!Init /\ D!Init /\ F!Init /\ C!Init
  /\ part # "clock" => now = CHOOSE t \in Starts : TRUE

Next ==
  \/ part = "list" /\ L!Next /\ UNCHANGED <<part, paths, numbers, format, clock>>
  \/ part = "path" /\ P!Next /\ UNCHANGED <<part, lists, numbers, format, clock>>
  \/ part = "division" /\ D!Next /\ UNCHANGED <<part, lists, paths, format, clock>>
  \/ part = "format" /\ F!Next /\ UNCHANGED <<part, lists, paths, numbers, clock>>
  \/ part = "clock" /\ C!Next /\ UNCHANGED <<part, lists, paths, numbers, format>>

Spec == Init /\ [][Next]_vars

-----------------------------------------------------------------------------
\* The list is the sequence of its values: its pointers agree with each other, and every
\* call does to the values what its name says.
ListSound == L!ListSound

\* open() does what its path says for every path, and what it loses is known.
OpenRight == P!OpenRight

\* The division functions of src/math.cpp are right, round by round and in the end.
DivideSound == D!DivideSound

\* A conversion of vprintf() prints the argument it stands for, and prints it right.
PrintsRight == F!PrintsRight

\* What clock_gettime() makes of a clock that goes on while it is read.
ClockRight == C!ClockRight

\* The timestamp of clock_gettime() is that of the time it read.
TimestampRight == C!TimestampRight
================================================================================
