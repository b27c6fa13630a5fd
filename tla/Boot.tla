---------------------------------- MODULE Boot ----------------------------------
(***************************************************************************)
(* The start of the kernel: the constructor of Kernel and Kernel::run()     *)
(* (src/kernel.cpp), the objects that Platform makes when they are first    *)
(* asked for (arch/platform.cpp), the interrupts that come as soon as they  *)
(* are on, the other CPUs, which print a line each, and the two tasks that  *)
(* take over.  A getter looks and makes in two steps: an interrupt, another *)
(* CPU or another task may come in between.                                 *)
(*                                                                          *)
(* An actor's code is a sequence of operations; a stage says how far it is  *)
(* in the one at hand.                                                      *)
(***************************************************************************)
EXTENDS Integers, Sequences, FiniteSets

CONSTANTS
  Cpus,     \* the other CPUs
  Late,     \* those that need more than the last msleep(100) to print their line
  MaxKeys   \* bound: keys pressed

ASSUME BootAssumption ==
  /\ Late \subseteq Cpus /\ MaxKeys \in Nat
  /\ Cpus \cap {"boot", "kernel", "app"} = {}

Devs == {"video", "idt", "timer", "pm", "kb", "cpu", "fb", "pci", "ata", "task",
         "vfs", "random", "realtime"}

Actors == {"boot", "kernel", "app"} \cup Cpus

VARIABLES
  pc, stage, bus,   \* of an actor: operation, step of it, the PCI object it has got
  ptr,              \* the static pointers of Platform, as numbers of objects; 0 is null
  glob,             \* the static pointers of Video, IDT, Timer and KB
  objs,             \* the objects made
  freed,            \* the objects deleted
  paging,           \* Paging::isOk(): operator new takes from the heap
  gates,            \* initISR() and initIRQ() are done
  routines,         \* interrupts with a routine
  hz,               \* setFrequency() was called
  iflag,            \* the first CPU takes interrupts
  irq, kbfull,      \* the keyboard's interrupt, its output buffer
  keys,             \* keys pressed
  hung,             \* the first CPU waits for a tick inside an interrupt
  released,         \* the other CPUs may go on
  running,          \* "no", "set" (ProcessManager::setRunning()) or "tasks"
  app,              \* the application's task was added
  stale             \* actors that used a deleted frame buffer

actors  == <<pc, stage, bus>>
objects == <<ptr, glob, objs, freed, routines>>
keyboard == <<irq, kbfull, keys, hung>>
flags   == <<paging, gates, hz, iflag, released, running, app>>
vars == <<actors, objects, keyboard, flags, stale>>

-----------------------------------------------------------------------------
(* The code of the actors                                                    *)

Get(d)    == [op |-> "get", dev |-> d]
Global(d) == [op |-> "global", dev |-> d]
Do(op)    == [op |-> op, dev |-> "none"]

PlatformCpu == Get("cpu")
PlatformTimer == Get("timer")
PlatformVideo == Get("video")
PlatformIdt == Get("idt")
PlatformKb == Get("kb")
PlatformFb == Get("fb")
PlatformPci == Get("pci")
PlatformAta == Get("ata")
PlatformTask == Get("task")
ProcessManager == Get("pm")
PlatformVfs == Get("vfs")
PlatformRandom == Get("random")
PlatformRealtime == Get("realtime")

VideoGet == <<PlatformVideo, Global("video")>>
IdtGet   == <<PlatformIdt, Global("idt")>>
TimerGet == <<PlatformTimer, Global("timer")>>
KbGet    == <<PlatformKb, Global("kb")>>

\* Video::printf(): the serial port first, then the screen.
PrintLine == <<PlatformVideo, Do("serial"), PlatformFb, Do("use")>>

\* Mutant: nothing is printed before the other CPUs start.
InitSMPSilent == <<PlatformCpu, Do("sleep"), Do("release"), Do("settle")>> \o PrintLine

InitSMP == <<PlatformCpu>> \o PrintLine \o <<Do("sleep"), Do("release"), Do("settle")>> \o PrintLine

\* paging_init() writes to the serial port, too.
PagingInit == <<Do("serial"), Do("paging")>>

\* Mutant: interrupts are turned on when the CPUs have started.
KernelStiLate ==
  VideoGet \o IdtGet \o <<Do("gates")>> \o TimerGet \o PagingInit \o KbGet
    \o <<Do("frequency")>> \o InitSMP \o <<Do("sti")>>

\* Kernel::Kernel()
Kernel ==
  VideoGet \o IdtGet \o <<Do("gates")>> \o TimerGet \o PagingInit \o KbGet
    \o <<Do("frequency"), Do("sti")>> \o InitSMP

InitFrameBuffer == <<PlatformFb, Do("initialize"), Do("delete"), Do("vesa")>>
InitVideo == <<PlatformFb, Do("use")>> \o InitFrameBuffer \o PrintLine
InitFileSystem == <<PlatformVfs>>
InitPCI == <<PlatformPci>> \o PrintLine
InitATA == <<PlatformAta, PlatformPci>> \o PrintLine
InitSysCall == <<Do("syscall")>>
StartProcessManager == <<ProcessManager, PlatformTask, Do("run")>>

KernelRun == InitVideo \o InitFileSystem \o InitPCI \o InitATA \o InitSysCall
               \o StartProcessManager

\* kernel_loop(), app_proc() with the system calls of an application, _smp_main().
KernelLoop == <<ProcessManager, PlatformTask, Do("addapp"), PlatformFb, Do("use"), Do("sleep")>>
AppProc == <<PlatformVfs, PlatformRandom, PlatformRealtime, PlatformKb>> \o PrintLine
SmpMain == PrintLine

Code(a) == CASE a = "boot" -> Kernel \o KernelRun
             [] a = "kernel" -> KernelLoop
             [] a = "app" -> AppProc
             [] OTHER -> SmpMain

\* Where a loop starts again; the others stop behind their last operation.
Again(a) == CASE a = "kernel" -> 4 [] a = "app" -> 1 [] OTHER -> Len(Code(a)) + 1

Ended(a) == pc[a] > Len(Code(a))

\* The first CPU runs the boot code until the first switch, then the tasks.
Runs(a) ==
  CASE a = "boot" -> ~hung /\ running # "tasks"
    [] a = "kernel" -> ~hung /\ running = "tasks"
    [] a = "app" -> ~hung /\ running = "tasks" /\ app
    [] OTHER -> released

At(a, op, s) == Runs(a) /\ ~Ended(a) /\ Code(a)[pc[a]].op = op /\ stage[a] = s

Dev(a) == Code(a)[pc[a]].dev

Stage(a, s) == stage' = [stage EXCEPT ![a] = s] /\ UNCHANGED <<pc, bus>>

Jump(a, n) ==
  /\ pc' = [pc EXCEPT ![a] = IF n > Len(Code(a)) THEN Again(a) ELSE n]
  /\ stage' = [stage EXCEPT ![a] = "look"]
  /\ bus' = [bus EXCEPT ![a] = 0]

Done(a) == Jump(a, pc[a] + 1)

-----------------------------------------------------------------------------
(* The getters                                                               *)

\* operator new: static memory until there is paging.
Object(d, b) == [dev |-> d, place |-> IF paging THEN "heap" ELSE "static", bus |-> b]

\* The constructors of TimerX86, KBX86 and SysCall install their routine.
Installed(d) == CASE d = "timer" -> {32} [] d = "kb" -> {33} [] OTHER -> {}

\* An object is made and its pointer set.
Made(os, p, d, b) ==
  LET n == Append(os, Object(d, b))
  IN  [objs |-> n, ptr |-> [p EXCEPT ![d] = Len(n)]]

SetObjects(m) == objs' = m.objs /\ ptr' = m.ptr

\* if (__platform_x == nullptr)
Look(a) ==
  /\ At(a, "get", "look")
  /\ IF ptr[Dev(a)] # 0 THEN Done(a)
     ELSE Stage(a, IF Dev(a) = "fb" THEN "bus" ELSE "make")
  /\ UNCHANGED <<objects, keyboard, flags, stale>>

\* new BochsFB(pci()): the PCI object is looked for inside.
LookBus(a) ==
  /\ At(a, "get", "bus")
  /\ IF ptr["pci"] # 0
     THEN /\ stage' = [stage EXCEPT ![a] = "make"]
          /\ bus' = [bus EXCEPT ![a] = ptr["pci"]]
          /\ UNCHANGED pc
     ELSE Stage(a, "makebus")
  /\ UNCHANGED <<objects, keyboard, flags, stale>>

MakeBus(a) ==
  /\ At(a, "get", "makebus")
  /\ SetObjects(Made(objs, ptr, "pci", 0))
  /\ stage' = [stage EXCEPT ![a] = "make"]
  /\ bus' = [bus EXCEPT ![a] = Len(objs) + 1]
  /\ UNCHANGED <<pc, glob, freed, routines, keyboard, flags, stale>>

\* The constructor of TimerX86 asks for the process manager, too.
Make(a) ==
  /\ At(a, "get", "make")
  /\ LET m == Made(objs, ptr, Dev(a), bus[a])
     IN  SetObjects(IF Dev(a) = "timer" /\ m.ptr["pm"] = 0
                    THEN Made(m.objs, m.ptr, "pm", 0) ELSE m)
  /\ routines' = routines \cup Installed(Dev(a))
  /\ Done(a)
  /\ UNCHANGED <<glob, freed, keyboard, flags, stale>>

\* Video::get() and the like keep a pointer of their own.
SetGlobal(a) ==
  /\ At(a, "global", "look")
  /\ glob' = IF glob[Dev(a)] = 0 THEN [glob EXCEPT ![Dev(a)] = ptr[Dev(a)]] ELSE glob
  /\ Done(a)
  /\ UNCHANGED <<ptr, objs, freed, routines, keyboard, flags, stale>>

-----------------------------------------------------------------------------
(* The other operations                                                      *)

\* uart_putc(): the port takes the character, or the actor waits for a tick.
Serial(a) ==
  /\ At(a, "serial", "look")
  /\ Done(a) \/ Stage(a, "wait")
  /\ UNCHANGED <<objects, keyboard, flags, stale>>

\* Timer::msleep()
Sleep(a) ==
  /\ \E op \in {"sleep", "settle"} : At(a, op, "look")
  /\ Stage(a, "wait")
  /\ UNCHANGED <<objects, keyboard, flags, stale>>

\* Platform::fb()->isConfigured(), swap(), blit()
Use(a) ==
  /\ At(a, "use", "look")
  /\ stale' = IF ptr["fb"] \in freed THEN stale \cup {a} ELSE stale
  /\ Done(a)
  /\ UNCHANGED <<objects, keyboard, flags>>

\* initISR(), initIRQ(), paging_init(), setFrequency(), startInterrupts(), the byte
\* at SMP_DONE_ADDR, setRunning() with addTask(), and addTask() in kernel_loop().
Set(a) ==
  /\ \E op \in {"gates", "paging", "frequency", "sti", "release", "run", "addapp"} :
       /\ At(a, op, "look")
       /\ gates' = (gates \/ op = "gates")
       /\ paging' = (paging \/ op = "paging")
       /\ hz' = (hz \/ op = "frequency")
       /\ iflag' = (iflag \/ op = "sti")
       /\ released' = (released \/ op = "release")
       /\ running' = IF op = "run" THEN "set" ELSE running
       /\ app' = (app \/ op = "addapp")
  /\ Done(a)
  /\ UNCHANGED <<objects, keyboard, stale>>

SysCallInit(a) ==
  /\ At(a, "syscall", "look")
  /\ routines' = routines \cup {153}
  /\ Done(a)
  /\ UNCHANGED <<ptr, glob, objs, freed, keyboard, flags, stale>>

\* BochsFB::initialize(): the device is there, or fbAlternative(1) follows.
Initialize(a) ==
  /\ At(a, "initialize", "look")
  /\ Done(a) \/ Jump(a, pc[a] + 3)
  /\ UNCHANGED <<objects, keyboard, flags, stale>>

\* fbAlternative(): the old object first; its pointer stays.
Delete(a) ==
  /\ At(a, "delete", "look")
  /\ freed' = freed \cup {ptr["fb"]}
  /\ Done(a)
  /\ UNCHANGED <<ptr, glob, objs, routines, keyboard, flags, stale>>

Vesa(a) ==
  /\ At(a, "vesa", "look")
  /\ SetObjects(Made(objs, ptr, "fb", 0))
  /\ Done(a)
  /\ UNCHANGED <<glob, freed, routines, keyboard, flags, stale>>

-----------------------------------------------------------------------------
(* Interrupts                                                                *)

\* The waiting that a tick ends; 100 ms are enough for the CPUs that are not late.
Wakes(a) == /\ ~Ended(a) /\ stage[a] = "wait" /\ Runs(a)
            /\ Code(a)[pc[a]].op = "settle" => \A c \in Cpus \ Late : Ended(c)

\* Timer::handler(): without the object nothing is counted.  The first tick after
\* setRunning() leaves the boot code for good.
Tick ==
  /\ iflag /\ ~hung /\ hz /\ 32 \in routines /\ glob["timer"] # 0
  /\ LET W == {a \in Actors : Wakes(a)}
         end(a) == IF pc[a] = Len(Code(a)) THEN Again(a) ELSE pc[a] + 1
     IN  /\ pc' = [a \in Actors |-> IF a \in W THEN end(a) ELSE pc[a]]
         /\ stage' = [a \in Actors |-> IF a \in W THEN "look" ELSE stage[a]]
         /\ W # {} \/ running = "set"
  /\ running' = IF running = "set" THEN "tasks" ELSE running
  /\ UNCHANGED <<bus, objects, keyboard, paging, gates, hz, iflag, released, app, stale>>

\* A key fills the keyboard's buffer; it asks for an interrupt only then.
Press ==
  /\ keys < MaxKeys /\ gates /\ ~kbfull
  /\ keys' = keys + 1
  /\ kbfull' = TRUE /\ irq' = TRUE
  /\ UNCHANGED <<actors, objects, hung, flags, stale>>

\* KB::handler() reads the code from the keyboard's buffer if there is an object.
Handled == 33 \in routines /\ glob["kb"] # 0

KeyIrq ==
  /\ irq /\ iflag /\ ~hung
  /\ irq' = FALSE
  /\ kbfull' = (kbfull /\ ~Handled)
  /\ UNCHANGED keys

\* KBX86::run(): a code without a character.
KeySilent == KeyIrq /\ UNCHANGED <<actors, objects, hung, flags, stale>>

\* A character is printed inside the interrupt, which makes the frame buffer's
\* object if nobody has; the serial port may have the interrupt wait forever.
KeyPrinted ==
  /\ KeyIrq /\ Handled
  /\ LET b == IF ptr["pci"] = 0 THEN Made(objs, ptr, "pci", 0) ELSE [objs |-> objs, ptr |-> ptr]
         f == IF ptr["fb"] = 0 THEN Made(b.objs, b.ptr, "fb", b.ptr["pci"])
              ELSE [objs |-> objs, ptr |-> ptr]
     IN  \/ hung' = TRUE /\ UNCHANGED <<objs, ptr, stale>>
         \/ /\ SetObjects(f)
            /\ stale' = IF f.ptr["fb"] \in freed THEN stale \cup {"key"} ELSE stale
            /\ UNCHANGED hung
  /\ UNCHANGED <<actors, glob, freed, routines, flags>>

-----------------------------------------------------------------------------
Init ==
  /\ pc = [a \in Actors |-> 1] /\ stage = [a \in Actors |-> "look"]
  /\ bus = [a \in Actors |-> 0]
  /\ ptr = [d \in Devs |-> 0]
  /\ glob = [d \in {"video", "idt", "timer", "kb"} |-> 0]
  /\ objs = <<>> /\ freed = {} /\ routines = {}
  /\ irq = FALSE /\ kbfull = FALSE /\ keys = 0 /\ hung = FALSE
  /\ paging = FALSE /\ gates = FALSE /\ hz = FALSE /\ iflag = FALSE
  /\ released = FALSE /\ running = "no" /\ app = FALSE
  /\ stale = {}

Step(a) ==
  \/ Look(a) \/ LookBus(a) \/ MakeBus(a) \/ Make(a) \/ SetGlobal(a)
  \/ Serial(a) \/ Sleep(a) \/ Use(a) \/ Set(a) \/ SysCallInit(a)
  \/ Initialize(a) \/ Delete(a) \/ Vesa(a)

\* The boot code waits, and nothing ticks; paging_init() does for the serial port.
BootWaits == stage["boot"] = "wait" /\ ~iflag
SerialHang == BootWaits /\ ~paging

Stopped == (hung \/ BootWaits) /\ UNCHANGED vars

Next ==
  \/ \E a \in Actors : Step(a)
  \/ Tick \/ Press \/ KeySilent \/ KeyPrinted
  \/ Stopped

\* The first CPU and those that are not late go on; the timer chip ticks.
Spec ==
  /\ Init /\ [][Next]_vars
  /\ WF_vars(Step("boot")) /\ WF_vars(Tick)
  /\ \A c \in Cpus \ Late : WF_vars(Step(c))

-----------------------------------------------------------------------------
(* Properties                                                                *)

\* Whoever asked first and whatever came in between, once nobody is inside a getter
\* the frame buffer's object uses the PCI object that Platform::pci() returns, and
\* the pointers of Video, IDT, Timer and KB are those of Platform.
OneOfEach ==
  (\A a \in Actors : stage[a] \in {"look", "wait"}) =>
    /\ ptr["fb"] # 0 /\ objs[ptr["fb"]].bus # 0 => objs[ptr["fb"]].bus = ptr["pci"]
    /\ \A d \in DOMAIN glob : glob[d] \in {0, ptr[d]}

\* The keyboard's buffer is never full without an interrupt to come: no key finds
\* a handler that leaves it there, after which the keyboard would be dead ("This
\* needs to be done before we start interrupts", src/kernel.cpp).
KeyboardAlive == kbfull => irq

\* The frame buffer that fbAlternative() deletes was made by new from the heap: it
\* was first asked for when paging was ready.
HeapFreed == \A n \in freed : n # 0 /\ objs[n].place = "heap"

\* The pointer to the frame buffer that fbAlternative() has deleted stays no longer than
\* until it makes the new one, and meanwhile nobody but a late CPU's line or a key's
\* interrupt comes to use it.
DeletedInSwitch == ptr["fb"] \in freed => ~Ended("boot") /\ Code("boot")[pc["boot"]].op = "vesa"
StaleOnlyInSwitch == stale \subseteq Late \cup {"key"}

\* The objects of Platform fit together, no key is left in the keyboard, and what is deleted
\* is of the heap and replaced at once, whoever asks first and whatever interrupts a getter.
ObjectsReady ==
  OneOfEach /\ KeyboardAlive /\ HeapFreed /\ DeletedInSwitch /\ StaleOnlyInSwitch

\* The tasks take over, unless the serial port is busy when nothing ticks: in
\* paging_init(), before interrupts are on, or inside the keyboard's interrupt.
TasksTakeOver == <>(running = "tasks" \/ hung \/ SerialHang)
=================================================================================
