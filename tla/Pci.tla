---------------------------------- MODULE Pci ---------------------------------
(***************************************************************************)
(* The PCI bus as the kernel finds its devices on it: the walk over the     *)
(* configuration space (src/pci.cpp) that scanDevices(), findNextDevice()   *)
(* and findNextDeviceByVendor() make.  What is plugged in is external: a    *)
(* device with one function may answer for all of them, one with several    *)
(* says so in the header of function 0, and function 0 is always there.     *)
(***************************************************************************)
EXTENDS Integers

CONSTANTS
  LastBus, LastDev, LastFunc,  \* the last number of each kind
  Machines  \* what may be plugged in: for each bus and device, whether it says that it
            \* has several functions, and what answers at which function

PciAssumption ==
  /\ {LastBus, LastDev, LastFunc} \subseteq Nat
  /\ \A m \in Machines, s \in (0..LastBus) \X (0..LastDev) :
       DOMAIN m[s].funcs = {} \/ 0 \in DOMAIN m[s].funcs

VARIABLE machine

Start     == <<0, 0, 0>>
Over      == <<LastBus + 1, 0, 0>>
Positions == (0..LastBus) \X (0..LastDev) \X (0..LastFunc)

Slot(p)    == machine[<<p[1], p[2]>>]
Answers(p) == p[3] \in DOMAIN Slot(p).funcs
What(p)    == Slot(p).funcs[p[3]]
IsMulti(p) == p[3] = 0 /\ Slot(p).multi

\* The functions that there are, each once.
Functions == {p \in Positions : Answers(p) /\ (p[3] = 0 \/ Slot(p).multi)}

Before(p, q) ==
  \/ p[1] < q[1]
  \/ p[1] = q[1] /\ p[2] < q[2]
  \/ p[1] = q[1] /\ p[2] = q[2] /\ p[3] < q[3]

\* Mutant: functions are looked at whatever function 0 says.
VisitedAll(iter, p) == ~Before(p, iter)

\* A walk that goes on at iter comes to p: to function 0 of every device, to the others
\* if it has just seen function 0 say that there are any.  It begins with multi = false,
\* also in the middle of a device.
Visited(iter, p) ==
  LET first == <<p[1], p[2], 0>>
  IN  /\ ~Before(p, iter)
      /\ p[3] = 0 \/ (~Before(first, iter) /\ Answers(first) /\ IsMulti(first))

\* The iterator stays at what was found.
FindNext(iter, what) ==
  LET found == {p \in Positions : Visited(iter, p) /\ Answers(p) /\ What(p) = what}
  IN  IF found = {} THEN Over
      ELSE CHOOSE p \in found : \A q \in found : q = p \/ Before(p, q)

\* scanDevices(): the functions it reads the header of.
Scanned == {p \in Positions : Visited(Start, p) /\ Answers(p)}
===============================================================================
