-------------------------------- MODULE Heap --------------------------------
(***************************************************************************)
(* What malloc(), free() and realloc() promise their callers: an allocated *)
(* block is memory that belongs to nobody else until it is freed.          *)
(***************************************************************************)
EXTENDS Integers

CONSTANTS
  Addresses,  \* addresses a block can start at
  Lengths,    \* lengths of blocks, header included
  MemoryEnd   \* first address past the memory

VARIABLE live   \* the blocks in use

Blocks == [addr: Addresses, len: Lengths]

Overlap(b, c) == b.addr < c.addr + c.len /\ c.addr < b.addr + b.len

Init == live = {}

\* A block that touches no other and lies in memory.
Alloc == \E b \in Blocks :
           /\ live' = live \cup {b}
           /\ b.addr + b.len <= MemoryEnd
           /\ \A c \in live : ~Overlap(b, c)

Free == \E b \in live : live' = live \ {b}

Next == Alloc \/ Free

Spec == Init /\ [][Next]_live
=============================================================================
