--------------------------------- MODULE Start ---------------------------------
(***************************************************************************)
(* The start of the kernel from three sides: the devices and the screen     *)
(* (Display), the other CPUs (Smp) and the objects of Platform (Boot).      *)
(* What one of them needs of another is an outcome that it leaves open, so  *)
(* a behaviour is one of a single module, as part says.                     *)
(***************************************************************************)
EXTENDS Boot

CONSTANTS
  LastBus, LastDev, LastFunc, Machines,                \* Pci
  TextWidth, TextHeight, FontWidth, FontHeight, TAB_SIZE, Glyphs,
  Prefer, ModeLists, LineLengths,
  PAGE_SIZE, MaxRow, MaxControllers,                   \* Display
  Ids, First, Present, MaxCpus, Roms, MaxCnt, MaxAllocs   \* Smp

VARIABLES
  part,
  at, machine, iter, controllers, commands, listed, fb, locked, mode, mapped, offered,
  mem, size, cursor, roll, stray,
  rom, cpu_ids, bsp, lock, done, code, active, ap, esp, prompt, mutex, spoilt

screen  == <<at, machine, iter, controllers, commands, listed, fb, locked, mode, mapped,
             offered, mem, size, cursor, roll, stray>>
cpus    == <<rom, cpu_ids, bsp, lock, done, code, active, ap, esp, prompt, mutex, spoilt>>
all     == <<part, vars, screen, cpus>>

D == INSTANCE Display WITH pc <- at
S == INSTANCE Smp WITH Boot <- First

ASSUME StartAssumption ==
  S!SmpAssumption /\ D!PciAssumption /\ D!DisplayAssumption

StartInit ==
  /\ part \in {"devices", "cpus", "objects"}
  /\ Init /\ D!Init /\ S!Init
  /\ part # "devices" => machine = CHOOSE m \in Machines : TRUE
  /\ part # "cpus" => rom = <<>>

Devices(A) == part = "devices" /\ A /\ UNCHANGED <<part, vars, cpus>>
Others(A)  == part = "cpus" /\ A /\ UNCHANGED <<part, vars, screen>>
Objects(A) == part = "objects" /\ A /\ UNCHANGED <<part, screen, cpus>>

StartNext == Devices(D!Next) \/ Others(S!Next) \/ Objects(Next)

\* The fairness of each of the three: the first CPU, the others and the timer chip.
StartSpec ==
  /\ StartInit /\ [][StartNext]_all
  /\ WF_all(Devices(D!KernelStep) \/ Others(S!Kernel) \/ Objects(Step("boot")))
  /\ \A c \in Present : WF_all(Others(S!Other(c)))
  /\ \A c \in Cpus \ Late : WF_all(Objects(Step(c)))
  /\ WF_all(Objects(Tick))

-----------------------------------------------------------------------------
\* The frame buffer, its mode and the disk controllers are those that the code looks for,
\* whatever is plugged in.
DevicesFound == D!DevicesFound

\* The screen is a window on the text written: scrolling, wrapping and erasing lose and
\* move nothing.
TextKept == D!TextKept

\* Once nothing more is written, what was written comes on the screen, however the copies
\* of kernel_loop() and the writing have overlapped.
ScreenFollows == part = "devices" => D!ScreenFollows

\* What the first CPU and the others share during the start, stacks, the count of CPUs
\* and the page mutex, stays right however late a CPU answers.
Handshake == S!Handshake

\* Nothing that is plugged in, refused or late keeps the kernel from its main loop, and
\* every CPU that is described starts (but for IdeFirst and a mutex that was found taken).
AllStart == (part = "devices" => D!StartEnds) /\ (part = "cpus" => S!AllStart)

\* Kernel::run() gets to its tasks, unless the serial port is busy when nothing ticks.
BootEnds == part = "objects" => TasksTakeOver
================================================================================
