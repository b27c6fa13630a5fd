# cxx-kernel in TLA+

Verification project for the cxx-kernel operating system kernel: TLA+ modules
translated from the source, TLC runs that model-check them on small instances,
and TLAPS proofs of the most important results for every instance. Paths below
are relative to the repository. `PROJECT.json` maps every definition to the
lines it models.

## 1. Inventory

The x86 kernel runs on one CPU; the others are started, print a line each and
spin. `Kernel::run()` constructs the
subsystems in a fixed order, starts the process manager, and `kernel_loop()`
becomes the first task. From then on three kinds of activity interleave: the
code of the tasks, the timer interrupt (1000 Hz, preempts and schedules) and the
keyboard interrupt. Tasks share every subsystem and protect some of them with
spinlocks or sleeping mutexes.

| component | state | operations | correct when |
|---|---|---|---|
| Scheduler (`src/processmanager.cpp`, `inc/task.h`, `arch/x86/timerx86.cpp`) | run list, current task, scheduling lock, status/slice/lock of each task | `addTask`, `schedule`, `yield`, timer tick | every runnable task gets the CPU; the list stays a rotation of all tasks; a lock is never left behind |
| Mutexes (`inc/mutex.hh`, `src/waitlist.cpp`) | `value`, `locker`, queue | `lock`, `unlock`, `enqueue`, `dequeue` | exclusion; no lost wakeup; waiters wake |
| Page allocator (`src/bits.cpp`, `src/paging.cpp`, `arch/x86/pagingx86.cpp`) | bitmap of frames, page tables, heap and static addresses | `getPage`, `freePage`, `map`, `identityMap`, `unmap`, `Paging::page/free` | a frame has one user; no table is handed out; none is overlooked; what does not exist comes last |
| Memory manager (`src/mm.cpp`) | current chunk, tree of freed blocks | `alloc` in four kinds, `free`, `realloc` | blocks are disjoint and large enough; freed blocks are found again |
| Keyboard (`arch/x86/kbx86.cpp`, `src/kb.cpp`) | ring of 32 keys, modifiers, read lock | interrupt handler, `hasKey`, `getKey`; `read`/`readv` of fd 0 | keys arrive in order, once |
| Open files (`src/fs/filesystem.cpp`, `src/fs/vfs.cpp`, `src/fs/devfs.cpp`, `src/list.cpp`, `libc/syscall_fileio.cpp`) | list of open files, handle counter, mounts | `open`, `close`, `read`, `write`, `fcntl`, `stat`, `mount` | a handle belongs to one file; an operation meets the file it was called for |
| ClothesFS (`src/fs/clothesfs.cpp`, `doc/clothes.md`) | blocks, chained free list, directories | format, `addFile`, `remove`, iterators | a block is either free or in one chain, also after a failed write |
| Ustar (`src/fs/ustar.cpp`) | position in the archive | header walk, `read` | walks each header once, ends |
| ATA and storage (`src/ata.cpp`, `src/storage.cpp`) | device registers, list of devices | identify, read, write with polling | a command is given to a ready device; errors surface |
| Interrupts (`arch/x86/idtx86.cpp`, `arch/x86/idt_handlers.asm`, `arch/x86/process.asm`) | gates, frames on the stacks, interrupts in service | stubs, `irq_handler`, switch of tasks, end of interrupt | the interrupted code gets its registers back; no line goes dead |
| Timer (`src/timer.cpp`) | ticks | `wait`, `msleep`, `usleep` | waits at least as long as asked |
| PCI (`src/pci.cpp`) | an iterator per walk | `scanDevices`, `findNextDevice`, `findNextDeviceByVendor` | every function is found, the walks end |
| Frame buffers (`src/fb.cpp`, `arch/x86/bochs.cpp`, `arch/x86/vesa.cpp`) | mode, buffers, `__fb_mutex` | `initialize`, `query`, `configure`, `swap`, `blit` | the best mode is taken; the screen follows the buffer |
| Text console (`src/video.cpp`, `arch/x86/videox86.cpp`) | cursor, cells | `putCh`, `printf`, `scroll`, `handleChar` | text is neither lost nor moved |
| Start of the other CPUs (`arch/x86/acpix86.cpp`, `arch/x86/cpux86.cpp`, `arch/x86/loader.asm`, `src/main.cpp`) | ids of the CPUs, two words of low memory, stacks | table search, start and answer of each CPU | each CPU has its own stack; a dead one does not stop the others |
| Kernel start (`src/kernel.cpp`, `arch/platform.cpp`) | static pointers to the objects, interrupts | constructor, `run()`, the getters of `Platform` | one object of each kind, ready when an interrupt needs it; the tasks take over |
| Linked list (`src/list.cpp`) | pointers, size, pool of freed objects | eight operations | it is a sequence; no freed object is met |
| Strings and paths (`src/string.cpp`, `src/fs/vfs.cpp`) | pointer and length of a string, mounts | `open()` down to the file system | the named file is opened; memory comes back |
| Arithmetic (`src/math.cpp`) and `printf` (`src/video.cpp`) | none | 64 bit division, conversions of numbers | the results of C; each conversion takes its own argument |
| Clock (`arch/x86/realtimex86.cpp`, `libc/syscall_time.cpp`) | the battery clock | `clock_gettime()` | a reading lies within the call, the timestamp is its own |
| ARM and Linux ports, pthread, BIOS calls | | | section 8 |

What is hard here: the interrupt may come between any two instructions that run
with interrupts enabled; spinlocks are taken by code that an interrupt handler
may need; the allocators keep their state through arbitrary sequences of calls
and through failures in the middle of a call; nothing is ever unlocked by a
destructor when the CPU hangs. `PROJECT.json` lists each hazard at its line.

## 2. Plan

Order: first what everything else stands on (who runs, who owns memory), then
what tasks share (keys, files), then what survives a crash (the volume), then
devices.

| stage | module | models | state |
|---|---|---|---|
| 1 | `Scheduler` | process manager, mutexes, timer interrupt | done, proved |
| 2 | `Paging` | frames, page tables, `Paging` calls | done, proved |
| 3 | `Mm`, `Heap` | memory manager, and what it promises | done |
| 4 | `Keyboard` | interrupt handler, ring, readers of fd 0 | done |
| 5 | `Files`, `OpenFiles` | open files down to the linked list, and what they promise | done |
| 6 | `ClothesFS` | volume, write by write, with crashes | done |
| 7 | `Disk` | ATA commands with a polled device, `Storage`, header walk of Ustar | done |
| 8 | `Interrupts` | stubs, nested interrupts, task switch, controllers, `Timer::wait` | done |
| 9 | `Pci`, `Display` | walk over the bus, start of the devices, frame buffers, console | done |
| 10 | `ClothesRead`, `Lists` | the Iterator of ClothesFS, every operation of the list | done |
| 11 | `Smp` | table of the CPUs, their start, the page mutex before any task | done |
| 12 | `Boot` | constructor and `run()` of `Kernel`, the objects of `Platform` | done |
| 13 | `Clock`, `Paths`, `Divide`, `Printf` | `clock_gettime()`, `open()` with its strings, division, `printf` | done |
| 14 | proofs | of the modules of stages 1 to 8 and 10 to 12, of `Divide` and `Clock` | done; what is left is in section 7 |

Compositions: `Mm` is shown to implement `Heap`, `Files` to implement
`OpenFiles`; `Keyboard` and `Files` rest on the exclusion that `Scheduler`
establishes (an operation under a mutex is one step there). `Disk` composes
driver, drive and Ustar, and `FilesOnDisk` puts it under `Files`; the failing accesses of `ClothesFS` are what the driver in
`Disk` may return. `ClothesRead` extends `ClothesFS`: it reads what additions, failures and
crashes have left there. `Boot` puts the steps of the other modules in order.
`Display` extends `Pci`. `Scheduler` and `Interrupts` look at the
same switch of tasks from two sides: who runs next, and what lies on the stacks.

## 3. Modules and the code they model

**Scheduler.** One CPU executes the code of `m_current`. What runs with
interrupts off is one step; between any two other steps the timer may come
(`Tick`). `TickInSlice` counts the slice down, `TickSchedule` is
`ProcessManager::schedule()` called from the handler: its early returns and
hangs (`ScheduleHangs`), the search for the next task in the rotating list
(`Stops`, `FirstStop`, `Rotate`), and the switch (`SwitchTo`). A task that was
switched away keeps a *frame* of `schedule()` on its stack and finishes it when
it gets the CPU back (`Resume`), which is where its `Task::m_m` is unlocked.
The code of a task is the loop `lock(m); ...; unlock(m)` of `BaseMutex`,
instruction by instruction (`CallLock` ... `HandOff`), including the spinlock
`locker`, the wait list and `yield()`. `SetRunning`, `BootLock`, `BootSwitch`
are `startProcessManager()`, `AddLock` and `AddSwitch` are `addTask()`. Where
the code spins forever or follows a null pointer the variable `hung` says why.

**Paging.** Numbers of pages instead of addresses. `used` and `last` are the
bitmap of `Bits`, `pte` and `tables` the page directory, `static` and `heap`
the two bump addresses. A `Paging::alloc` of several pages takes one step per
page (`MapTaken`, `MapFrame`), so it can run out in the middle
(`NoFreeMemory`). `GetPage`, `IdentityMap` and `Map` are the other entries.
`Paging::free()` has no caller and is left out (section 6). Low memory is contiguous in
the model: the code leaves a hole between 0x10000 and 0x9FFFF.

**Mm, Heap.** `info` holds the headers that lie in memory, `root` the tree of
freed blocks. `Malloc` has the code's order: a freed block (`Reuse`), the rest of
the chunk (`Bump`), new pages with the tail of the old ones freed
(`NewPages`). `Bottom` is the walk of `treeAdd()`, `Search` the loop of `findAvail()` with its next
block (`Onward`); `ReleaseFree` drops and re-adds subtrees the way the code does.
`ReallocAlloc` and `ReallocFree` are separate: the mutex is free between
them. `Heap` knows only the set of live blocks. `MallocFails` is a request for pages that cannot
be had (`NoPages`: the tail is freed all the same). If there was a tail it is then in the tree
and still the space the next block is cut from: `torn` says so, and what the memory manager does
from there on is not followed (section 6).

**Keyboard.** `KeySilent`, `KeyStored`, `KeyHangs` are the handler when the
lock is free, `KeySpins` when it is held: `Spinlock::lock()` yields with
interrupts enabled, so the handler becomes a frame (`irq`) of the interrupted
task and finishes later (`IrqAcquire`, `IrqStore`). `StartRead` to `GetDone`
are `read()` and `readv()` of fd 0 down to `getKey()`.

**Files, OpenFiles.** The list of open files with its pointers (`first`,
`last`, `next`, `ptr`, `freed`), `FileData` and the Iterators of Ustar. A
system call is two or three steps with the mutex free between them: `SysOpen`
then `SysMap`; `SysCall` then `SysCustom` then `SysUse`, `SysDelete` or
`SysUnlink`. A task uses only the handles it opened; tasks that share a handle
are outside of the model and of what the code supports (section 6).

**ClothesFS.** A step is one `putBlock()` with the reads before it; `Abort` is a
crash or a failing device before any write. `FormatBlock` to `FormatSlash` are
`format()`; `Add` to `PutData` are `addFile()`/`addDir()` with `takeFree` (`Taken`),
`addToMeta` (`Places`, `EnterPlace`, `EnterNext`, `Continue`) and the data
blocks. Blocks are kept word by word, because `addToMeta()` reads its starting
point from a word. `Remove`, `RemoveEntry` and `RemoveSelf` are only in
`SpecRemove`.

**Disk.** A step is what the driver does between two waits. The drives are
external: `Complete` and `DriveError` are the answers, `Commanded` the rule
that a drive ignores commands while it is busy or in a transfer. `Detect` to
`DetectGivesUp` are `ATA::init()` for the two drives of a channel, of any kind;
`Mount` is `initATA()` with the first read of `Ustar::detect()`. `SelectDevice`
to `GivesUp` are `ATAPhys::read()`/`write()`: each access reads sector 0 first
(`job.dummy`), as `ATA::select()` does. `Find`, `WalksOn`, `Finds`, `WalkEnds` are
`findFile()`, `ReadFile` to `ReadEnds` are `Iterator::read()`. Bytes have few
values, so that an address needs all registers. The data of files look like
headers, which is the worst case for the walk. One caller: see section 6.

**Interrupts.** Registers have symbolic values that name their owner; `Pushed`,
`IrqTimer` and `IrqCommon` are the stubs, push by push. `frames` says how far
the handlers on a task's stack are: `routine` (the installed routine), `away` (switched
away inside `schedule()`), `ack` (back in `TimerX86::run()`, before its own end of
interrupt), `spin` (the keyboard's routine waits for its lock), `eoi`, `leave`. Which
task comes next is any. The controllers are external: `Raise`, `Deliver`,
`Ended`. `Exception` stops the machine, as `isr_handler()` does. `Wait` to `WaitEnds`
are `Timer::wait()`.

**Pci, Display.** `Visited` says which functions a walk comes to that goes on at an
iterator, `FindNext` what it finds; `machine` is what is plugged in. `Display`
follows `Kernel::run()`: `InitBochs`, `Alternative`, `QueryBochs`,
`QueryVesa`, `Configure` or `ConfigureFails`, `DrawTestData` (`initFrameBuffer()`),
`ScanDevices` (`initPCI()`), `SetUpController` and `NoController` (`ATA::init()`;
`OutOfMemory` is the end of its endless loop), then `LoopSwap`, `LoopBlit`, `LoopBlitRest`
(`kernel_loop()`). Meanwhile a task writes (`HandleChar`) and reads
(`SetOrigin`). A cell holds the set of characters drawn there; `roll` is the text
as it was written, from the first row on the screen. The console's `m_width` and `m_height`
(`size`) are the text screen's (`TextSize`) until `Video::adapt()` makes them the mode's
(`Adapt`, `Adapted`), which it does before `configure()`, so also when the mode is then refused
(`Refused`): the text screen goes on with the columns and rows of the mode.

**ClothesRead.** `Open` is `findFile()` with the path taken apart (`Parts`) and the
search in each directory (`FirstNamed`), whose entries are those that `list()` and
`next()` come to (`Listing`, `Length`). `Read` is `Iterator::read()` with the loading of
payload blocks (`Loads`, `Payload`), `Close` ends it. Calls that write and calls that read do
not overlap. A name is its length.

**Lists.** One record holds `m_first`, `m_last`, `m_size`, the objects and the pool; each
operation of `List` is a function of it and an action. `odd` notes the calls that do
not do what their name says (`BehindLast`, `PassesOver`, `FollowsNull`, `BehindEnd`).

**Smp.** `Search` takes the candidates for the firmware's tables one by one and lists the
CPUs (`Parsed`). `StartCpu` to `Failed` are `initSMP_CPUS()` with its rounds of waiting
and its second attempt; `Answer`, `Go` and `LockPages` are another CPU in `loader.asm` and
`_smp_main()`. `Take`, `Enqueue` and `Give` are the page mutex, taken by the kernel and by CPUs
while no task exists: the queue then holds the null pointer, and memory at address 0 says
whether `schedule()` returns.

**Boot.** The code of an actor is a sequence of operations (`Kernel`, `KernelRun`,
`KernelLoop`, `AppProc`, `SmpMain`); the getters of `Platform` and of the classes are
operations that look and make in two steps (`Look`, `Make`, `SetGlobal`). `Tick`, `Press` and
the keyboard's interrupt (`KeyIrq`, `KeySilent`, `KeyPrinted`) come between them whenever
`iflag` allows. `Serial` is the busy port of `uart_putc()`, `Delete` and `Vesa` the
switch to the other frame buffer. `hung` is a wait for a tick where none comes.

**Clock.** `Tick` moves the battery clock, `ReadRegister` reads one register (`bcd`),
`Return` computes the timestamp (`TmToSecs`). A tick is one step: that the registers of a real clock
are undefined while it updates them, which `getTime()` does not ask it about, is left out.

**Paths.** `mem` holds the blocks of memory that strings own; `New`, `Destroy`,
`CopyOf`, `Assign`, `right` are the constructors, destructor and operations of `String`. `Access` is
the search among the mounts, `Basedir` to `StripEnd` take the prefix and the slashes off, `OpenFound`,
`OpenFails` and `OpenUndefined` end the call; `NullRead` and `OpenNull` are what a string with a null pointer leads to.

**Divide.** `Entry`, `Justify`, `Loop` are `my__udivmoddi4()`, one round a step; `Call` and
`Return` are the four functions around it with their signs.

**Printf.** `Read` takes one character of the format; `Plain` to `Convert` are the
cases of `vprintf()`. `print_ull`, `print_l` and `print_prenull` give the digits.

## 4. Runs

| run | question | answer |
|---|---|---|
| `scheduler` | exclusion, wakeups, rotation, locks at every point of preemption | holds, as the task of `kernel_loop()` contends for no mutex: `blit()` takes the frame buffer's, which nobody else does |
| `scheduler_live` | does every runnable task run, every waiter wake | holds, but for a hung CPU and a stranded `locker`, which the properties name |
| `scheduler_exclusion` | the same when the kernel task contends for the mutex | violated |
| `memory` | pages: one user per frame of memory, none overlooked; blocks: one owner each, search tree, implements `Heap` | holds, but for bit 31 and tables behind the static area, which the property names, and until a request for pages fails behind a freed tail |
| `keyboard` | order, ring, lock, shift, keys drain | holds, but for a handler that waits for the code it interrupted |
| `files`, table | list, handles, Iterators, implements `OpenFiles` | holds; `stat()` leaks |
| `files`, disk | does a read bring its sector, a write arrive, the walk meet headers only | holds, if no read is late |
| `clothesfs` | free or used once, also after a crash; is what was added kept and found, does a read return only its own file, and all of it up to there | holds, without `remove()` and if a name is there once |
| `clothesfs_remove` | is a freed block first in the chain | violated |
| `interrupts` | registers, ends of interrupt and waits under any nesting | holds, but for a wait across the counter's overflow, which the property names |
| `start`, devices | are devices found, does the start end, is text kept, does the screen follow | holds, but for a controller at function 0, a missing second buffer and a mode that was refused, which the properties name |
| `start`, CPUs | stacks, count of CPUs, page mutex, does the start end with CPUs that are late or dead | holds, but for a page mutex found taken before any task exists, which the properties name |
| `start`, objects | one object of each kind, keyboard ready, heap freed once, does the start end | holds, but for a serial port that is busy where nothing ticks, which the property names |
| `library`, lists | is the list a sequence, do walks end and meet no freed object | holds until one of three odd calls; the walks hold even then |
| `library`, paths | does `open()` open the file that is named, when is it undefined, what does it leak | holds; a block is lost for each slash removed |
| `library`, division | do the division functions return what C asks for | holds, but for the remainder by a negative divisor, which the property names |
| `library`, formats | are numbers printed right, does a conversion take its own argument | holds until a `%lld` |
| `library`, clock | does a reading of a running clock lie within the call | never behind; right unless a minute ends meanwhile |
| `clock_timestamp` | is the timestamp the one of the time that was read | violated |

`Memory`, `FilesOnDisk`, `Start` and `Library` hold modules side by side that share no
state (`MCFiles`, `MCStart` and `MCLibrary` only give the last three their constants): what one needs of another is an outcome that it leaves open (pages are
given or not, a CPU is late or not, a name is in the archive or not). A behaviour is one of a single module, as the
variable `part` says, and the rest of the state does not move; interleaving them
would add states and no case. Fairness is the one of each module.

Most properties are conjunctions of named parts, each with a comment of its own:
`FramesKnown` is `NoFreeFrameMissed` and `TablesPrivate`, `BlocksOwned` is
`BlocksDisjoint` and `SourceKept`, `SearchTree` is `TreeSound` and
`SearchComplete`, `KeysSound` is `LockExclusive`, `RingSound` and
`NoStuckModifier`, `HandlesSound` is `ListSound`, `HandlesKept` and
`NoUseAfterFree`, `VolumeSound` is `BlocksExclusive` and `AsDescribed`,
`Handshake` is `StacksApart`, `CountRight` and `MutexFreed`, `ObjectsReady` is
`OneOfEach`, `KeyboardAlive`, `HeapFreed`, `DeletedInSwitch` and `StaleOnlyInSwitch`, `ListSound` of
`Lists` is `WalksSafe`, `Consistent` and `IsSequence`, `OpenRight` is `OpensNamed`,
`UndefinedOnlyEmpty` and `LeaksPerSlash`, `DivideSound` is `LoopInvariant` and
`DivisionRight`, `PrintsRight` is `NumberRight` and `OwnArgument`, `ClockRight` is
`NotBehind` and `ReadInside`.

Each property of a passing run has a mutant in `PROJECT.json`: a plausible
slip in the code, defined next to the original and marked as a mutant, under
which the run finds the property violated.

**Bounds.** *Scheduler*: the kernel task, two tasks that contend for one
mutex, slices of one tick (so every switch point is reached), two stacked
frames of `schedule()`: a second comes from a tick inside `yield()`. *Paging*: three
words of four frames and tables of two pages, so that words fill up, a search
starts in the middle, tables are created for the heap and memory runs out.
*Mm*: pages of 10 with headers of 2 and sizes 1 to 3, two
pages: blocks are reused whole, tails are freed, the
tree gets both subtrees; `Top` = 64 keeps the wrap-around of addresses apart from
real addresses. *Keyboard*: a ring of 2, three keys, so it overflows; a plain
reader and a vectored one; one letter, Enter and the right shift.
*Files*: two tasks, three handles and a pool that overflows at the second
freed object. *ClothesFS*: five blocks after header and root, blocks of 8
words so that directories need a second block; one fault; until the volume is full.
*Disk*: every pair of drives among none, packet device, disk with and without LBA; bytes of three
values, so that sectors 10 and 28 need three registers and the head; an
archive of a file, a directory, a file with a partly filled last block and another one with the name of the first; one
error and one late answer to anything but a read. *Interrupts*: two tasks, timer, keyboard and a
line of the second controller, two frames on a stack, so that each kind nests in
each other; a counter of four values and waits of two, so that waits overflow and
do not. *Display*: machines with one and several controllers on two buses, at
function 0 and elsewhere, a graphics device that answers for all functions or
is function 2; a text screen of three by two characters, characters of three by two pixels and modes 6 or 8
wide and 5 high, so that a mode has fewer columns than the text screen and a rest that no character
fills; five rows of text, so that both kinds of screen scroll more than once, after a wrapped line and after a new
line; modes that cannot be used, that tie and that fit; pages that divide a frame and
that do not. *Smp*: two other CPUs that exist and one that is listed only, tables
that are missing, wrong, newer, twice there or in another order; two rounds of waiting, so that an
answer is in time, late or after the second attempt. *Lists*: four objects, two values and a
pool of two, so that every place before, at and behind the end is met and the pool
overflows. *ClothesRead*: the disks of `ClothesFS` with six blocks, files of two
payload blocks, reads shorter and longer than a block. *Clock*: eight times near the ends of minutes, hours, days, months, years and a century, leap
days included; four seconds, two calls. *Boot*: two other CPUs, one of them late, two keys. *Paths*: every path of up to six
characters over the slash and three letters, two mounts, a file in a directory of the archive. *Divide*: all pairs of five bits.
*Printf*: every format of up to six characters, all words of four bits, one word left over.

Types are part of the structural invariants, and theorems where those are (section 7).

**Deadlock** is checked in every run but those of `ClothesFS`: a state in which the
code spins for good, ends or follows a null pointer is a stuttering action of its
own (`SpinForever`, `Stuck`, `Stopped`, `Over`, `Torn`, `Lost`), so anything else
that stops is an error. A volume may fill up, after which nothing can be done.

**Symmetry** only in `files` and `interrupts`, over the tasks, where the only
temporal properties are a refinement without fairness and an action property, and in
`library`, over the values of a list, where there are only invariants.

## 5. Fairness

*Scheduler*: the steps of boot are weakly fair, `Tick` is weakly fair (the
timer has 1000 Hz and its handler always acknowledges it). Steps of a task are
strongly fair: a task gets the CPU for at least 20 ticks
(`SCHEDULING_GRANULARITY_MIN` in `src/processmanager.cpp`), in which it executes many instructions, so it
cannot be preempted before its next one each time. Nothing is assumed about
when a task locks or leaves its section other than that it
executes. *Keyboard*: in addition, a tick finds the lock free infinitely often
if the lock is free infinitely often: it is held for a few
instructions, while readers sleep 10 ms between tries.
*Display*: the steps of the kernel's own task are weakly fair together; until the
scheduler starts nothing else runs, and afterwards `RunnableRuns` of
`Scheduler` gives that task the CPU again and again. The task that writes is not fair:
`ScreenFollows` is about what happens once it stops.
*Smp*: the kernel's start and each CPU that exists go on by themselves, each on its own processor, so their steps
are weakly fair one by one; an absent CPU takes no step.
*Boot*: the kernel's start, the timer once it is set up and the CPUs that are not late are weakly
fair; keys, tasks and late CPUs are not.
No other run has a liveness property.

## 6. What the code does that it should not

Three runs expect a violation:

1. `scheduler_exclusion`: `schedule()` takes a current task that it meets in the list for the only
   one that can run, and returns to it without moving it to the end
   (`src/processmanager.cpp:150`). The trace: a task is preempted inside `unlock()`, before
   it wakes its waiter; the blocked waiter is moved behind and the current task met, which so
   stays at the *head* of the list. It hands the mutex over, the waiter could run now; the
   current task calls `lock()` again, is queued and `BLOCKED`, and reschedules.
   `schedule()` finds it at the head (`:130`) and returns to it, though it is blocked and the owner
   is behind it: `lock()` returns and two tasks are in the critical section. In the kernel
   `kernel_loop()` prevents it: its task can always run, so the search stops at it or, when it is the
   current one, at the owner that a blocked task waits for, and never comes to the current task. The only
   mutex it takes is the frame buffer's, in `blit()`, for which nobody contends.
2. `clothesfs_remove`: `addFreeBlock()` never writes the block it frees
   (`src/fs/clothesfs.cpp:320`), so the chain that `doc/clothes.md` describes is
   lost.
3. `clock_timestamp`: the month is handed over as 1 to 12 to a function that counts from 0
   (`libc/syscall_time.cpp:30`, under "Just make sure the date/time is in right format."): a timestamp
   is a month ahead, and 31 January is later than 1 February.

Two more appear when constants of a passing run are changed:

4. `Bits::findUnset()` searches all bits of the last word, `set()` refuses those
   past the end (`src/bits.cpp:75`): with a number of pages that is no multiple
   of 32, frames that do not exist are handed out repeatedly once all that it finds of memory is in
   use (`memory` with 10 frames and words of 4, and `FrameExclusive` without its bound
   `f < PageCnt`). Before that they are not (`MemoryGoesFirst`, section 7).
5. `waitStatus()` gives up on a drive, but nothing stops the drive: `reset()`
   writes to the command register, which a busy drive ignores. Its late answer
   is then returned for the next sector asked for (`src/ata.cpp:291`; `files` with
   `Slow = {"read"}` violates `ReadFaithful`). The model also
   shows why "for some reason first read/write does nothing" (`src/ata.cpp:694`):
   `detect()` reads 128 of the 512 bytes of the drive's answer, the drive stays in
   that transfer, ignores the next command and the first read gets the
   rest. The read of sector 0 in `select()` hides this, as the mutant
   `SelectPlain` shows.

Seen while modelling, not a run of their own:

- `Iterator::read()` never moves `m_data_index` and does not look at the size
  (`src/fs/clothesfs.cpp:633`): the first payload block comes again and again, where
  `doc/clothes.md:150` says "until everything is read" (modelled: `Payload`).
- In a block where a directory continues the entry is taken from word 0, the block's
  type (`src/fs/clothesfs.cpp:597`): the list ends there (modelled: `Length`).
- If `allocPage()` fails, the tail that was freed just before is in the tree and still the
  space the next block is cut from (`src/mm.cpp:409`; modelled: `torn`).
- The loop that should "skip first page to detect nullptr" starts at address 1, which lies in
  it (`arch/x86/pagingx86.cpp:174`): a null pointer is read without a fault. Several of the
  oddities below go unnoticed because of it.

Of tasks, memory and files: `setRunning()` precedes the first
`addTask()`, a tick between them follows a null pointer (modelled: `hung`);
`addTask()` takes the scheduling lock before it disables interrupts (modelled); a
tick between `BLOCKED` and the release of `locker` strands the mutex (modelled:
`LockerStranded`); `releaseFree()` drops what hangs
below the children it adds again, so freed memory is forgotten (modelled), and
`m_freeTop + size2` may wrap around. A keyboard
handler that interrupts the holder of the read lock never gets it (modelled:
`Stuck`); any ALT counts as ALTGR, and releasing one of two shifts clears SHIFT. Two
tasks that share a handle can close it twice; `FileData` is never
freed. `addToMeta()` starts one word early, so an empty name's length can be
overwritten;
`format()` returns true after failed writes. `Timer::wait()` ends at once when
its target wraps around (`src/timer.cpp:45`). `Paging::free()` would clear the bit
of frame 0 and, as `unmap()` divides twice, of a frame nobody freed. Two tasks that read files share the disk's registers without
a lock. A write that the drive refuses returns true. `m_size` and positions
wrap at 4 GiB.

Of interrupts and devices: a timer interrupt that switches tasks ends up to three
interrupts (modelled); `ATA_INTERRUPT_BASE` is 14, so the driver's handler is
installed at vector 14, an exception, not 46; `__isr_common` discards the saved
`eax`; `usleep()` divides by 10^7. `ATA::init()` never ends if a controller is
function 0 of its device, and takes only the first of several in one device (modelled:
`IdeFirst`); its base addresses are read behind what `getHeader()` has filled.
`BochsFB::configure()` returns with the mutex locked when the mode was not set
(modelled; nobody takes it afterwards), and the console has already been adapted to a size
that the text screen does not have: its rows are shown broken at other columns (modelled: `Refused`). Without a second buffer `scroll()` and `blit()`
work on address 0 (modelled: `NoBuffer`). The text screen scrolls two rows at a time
and `handleChar()` makes two new lines of one (modelled, harmless); a tab in the
last column goes back onto the last character; a backspace right after a new line at the
bottom erases part of another row (modelled: `smudged`).

Of the start: a CPU that finds the page mutex taken queues the null pointer and runs
`schedule()` without a task (modelled: `Enqueue`); a CPU with id 0 would share the first
one's stack; a late answer is taken for that of the next CPU. The getters of `Platform` and
the classes are not protected: only the early prints make the objects before a second
CPU asks for them (modelled; mutant `InitSMPSilent`). `uart_putc()` waits for a tick when the port is busy,
in `paging_init()` and in the keyboard's interrupt none comes (modelled: `hung`). A key or a late CPU
may print to the frame buffer that `fbAlternative()` has just deleted (modelled: `StaleOnlyInSwitch`); the pointer to it stays until the next one is made (`DeletedInSwitch`).

Of lists, strings and numbers, all modelled: `addAt()` behind the last item leaves `m_last` behind, `deleteAt()`
one place behind the end empties the list, `deleteAll()` passes over an item and follows a null pointer. A
`String` made of nothing has a null pointer and a length nobody set, so `open()` with a mount
point alone, such as `/dev`, reads address 0; `operator=` forgets the old block, which loses one for every slash; the
character behind a mount point is not looked at, so `/dev-x` opens `x` of `/dev`. The
remainder by a negative divisor has the wrong sign (`src/math.cpp:78`); the smallest number prints
as a sign alone; zeros come before the sign; `%lld` takes one word, and every conversion
behind it takes the wrong one. Two registers of the clock that are read around the end of a minute give a time up to
a century ahead.

Of code that is not modelled: `String::left()` never counts, `tv_nsec` is no number of nanoseconds,
`pthread_mutex_init()` leaves the mutex locked, `__aeabi_uidivmod` is wrong for exact
multiples.

## 7. Proofs

Every leaf is checked by tlapm. The theorems of `StartProofs` and `LibraryProofs`, those of `MemoryProofs` about blocks and those of `FilesProofs` about the disk are
about the composed specifications `StartSpec`, `Spec` of `Library`, `MemorySpec` and `StoreSpec`; `StoreHasParts`
carries the others of `FilesProofs` over to `StoreSpec`:

| module | theorem | establishes, for every value of the constants |
|---|---|---|
| `SchedulerProofs` | `MutexExcludes`, `WakeupsKept`, `ListRotates` | `MutualExclusion`, `NoLostWakeup`, `RunListRotates` |
| | `LockDiscipline` | `SchedulingLockDiscipline`, also if `kernel_loop()` locks |
| `MemoryProofs` | `FramesAreExclusive` | `FrameExclusive` |
| | `MemoryGoesFirst` | `MemoryFirst`: a bit past the end of memory is handed out only when all that `findUnset()` finds of memory is in use |
| | `FramesAreKnown`, `HeapKeepsPages` | `FramesKnown`, `HeapStable` (an action property) |
| | `BlocksHaveOwners`, `TreeIsSearched` | `BlocksOwned`, `SearchTree` |
| | `MemoryIsAHeap` | `HeapSpec`: `Mm` implements `Heap` |
| `KeyboardProofs` | `KeysAreSound` | `KeysSound` |
| `FilesProofs` | `FilesAreSound`, `NothingElseLeaks` | `HandlesSound`, `OnlyStatLeaks` |
| | `TableImplements` | `TableSpec`: `Files` implements `OpenFiles` |
| | `ReadsAreFaithful`, `WritesAreKept`, `ArchiveIsFaithful` | `ReadFaithful`, `WriteKept`, `ArchiveFaithful` of `Disk` |
| `ClothesFSProofs` | `VolumeStaysSound`, `AddedStays` | `VolumeSound`, `Durable` |
| | `ReadingWritesNothing` | `SpecRead` implements `Spec`: what holds of the volume holds while files are read |
| | `ReadsAreOwn`, `AddedIsFound` | `ReadOwn`, `FindRight` |
| `InterruptsProofs` | `StubsKeepRegisters`, `LinesStayAlive`, `WaitsAreLongEnough` | `RegistersKept`, `NoDeadLine`, `WaitsLongEnough` (an action property) |
| `StartProofs` | `StartIsShared`, `ObjectsAreReady` | `Handshake`, `ObjectsReady` |
| | `TextIsKept`, `DevicesAreFound` | `TextKept`, `DevicesFound` |
| `LibraryProofs` | `DivisionIsRight`, `ClockIsRight` | `DivideSound`, `ClockRight` |
| | `OpensAreRight`, `NumbersArePrinted` | `OpenRight`, `PrintsRight` |
| | `ListsAreSound` | `ListSound` of `Lists` |

*Assumptions.* The ASSUMEs of the modules (types and ordering of the constants; TLC evaluates
them in the runs); of the modules that `Memory`, `FilesOnDisk`, `Start` and `Library` instantiate these are named definitions
(`MmAssumption`, `SmpAssumption`, `PciAssumption`, `DisplayAssumption`, `WidthAssumption`, `ClockAssumption`, `PathsAssumption`, `PrintAssumption`, `ListsAssumption`), which `MemoryAssumption`,
`StartAssumption` and `LibraryAssumption` assume; of `Disk` it is `DiskBounds`, which `FilesOnDiskAssumption` assumes.
Some clauses were added for the proofs, each true by construction of the program: no task is called `NoOne`
(`KeyboardAssumption`), the id of a CPU is a byte (`SmpAssumption`), the null pointer is no list
object (`Files`), no CPU is the first one or a task (`BootAssumption`), a name in the archive is not
the model's sign for none (`DiskBounds`), what `drawTestData()` draws is no character, and the fields of a mode
are numbers (`DisplayAssumption`), no mount point is an empty string and no character is a zero or the model's sign for
a read at address 0 (`PathsAssumption`), and no value in a list is the null pointer, which `at()` returns for
a place that the list does not have (`ListsAssumption`). `MutexExcludes`, `WakeupsKept`
and `ListRotates` assume `Kernel \in Idle`: the task of `kernel_loop()` contends for no
mutex (`blit()` takes the frame buffer's, which is always free); run `scheduler_exclusion` shows it cannot be dropped.
`FramesAreExclusive` holds of any memory; `FramesAreKnown` and `MemoryGoesFirst` assume that memory holds the area that `init()` maps.
The theorems about blocks assume `RequestsFit`: no request added to an address of the heap passes the
last address. A larger one makes `m_freeTop + size2` wrap around, seems to fit and is given memory of
other blocks (section 6); the code only refuses what wraps with the header alone (`TooLarge`).
`OpensAreRight` assumes `NamesPlain`: no name in the archive begins with a slash (tar leaves it out), since `open()`
removes all slashes before the name and would not find such a file.
The theorems about `Disk` assume `Prompt`: no drive takes longer for a read or a write than the driver waits, without
which `ReadFaithful` is violated (section 6); it may take longer for anything else. They also assume `Addressable`: a position has 32 bits, so a
sector has a number below 2^23, and without LBA its cylinder fits into two registers if a cylinder has
128 sectors or more. `ArchiveIsFaithful` assumes `ArchiveFits`: the archive ends before the smallest disk does, and
nothing else is written to its sectors. `MCFiles` assumes the three, so TLC evaluates them for the run.

*Recursion.* The library's induction theorems cannot be used, because they take a predicate.
In its place stands the well-foundedness of the natural numbers: a set of them has a least one
(`LeastNat`), so a recursive function that is wrong somewhere is wrong at a least argument, and
one step of the recursion refutes it. The walks along the list of open files, along the chain
of free blocks and through a directory are treated like that, and so are the loop that chooses a mode and each `CHOOSE` of the
first place. That a recursive function is defined at all needs the same where its argument is no number:
`Recursion` builds one rank by rank, if it only goes on to places of a lower rank. Powers of two, which `Divide` needs, are numbers of subsets.

*Scheduler.* `MutualExclusion` is not inductive: a step of `unlock()` is only
safe when the queue holds only tasks that wait, when the holder of
`locker` is unique, and when a blocked task cannot execute. `IInv` says so, part
by part: `CurrentListed` and `ListInv` (the list holds each added task once, the
current one last, the kernel task always; a task not yet added has not moved),
`KernelInv` (the kernel task is never in a mutex), `QueueInv` (a queue holds
waiters of this mutex, once each), `LockerInv` (a task at a guarded label holds
`locker`, alone), `BranchInv` (what a task has tested under `locker`
still holds), `AwakeInv` (a task that runs after its sleep is not blocked), and
the two properties themselves, which need each other. `ScheduleSafe` treats the
switch for all callers at once: the essential facts are `OwnerRuns`, that with a
blocked task there is an unblocked one besides the kernel task, and `StayAlone`, that
the search ends at the current task only if it is the only one in the list. `CodeSafe` has one step per instruction.

*Paging.* `IInv` adds `BitmapInv` to the properties: every frame that `init()` maps and every
frame handed out has its bit set. Then what `findUnset()` returns was in use by nobody. `LeastFrame`
shows that the `CHOOSE` of the lowest free frame is defined. None of it needs a full last
word: bits past the end are never set, but they are no frames of memory. `KnownInv`: page tables come from what `init()` mapped, and a search takes
the least bit, so one past the end only when all those of memory are set (`MemoryFirst`).

*Mm.* `BlocksInv`: `HeapInv` bounds blocks and free space by the pages given, `CutInv` keeps them apart,
`Sources` gives each `realloc()` a block in use of its own. The tree needs more than its shape (`Knit`: every
pointer leads to a freed block, and no other leads there). `Down` gives blocks ranks that pointers only lower,
so that the walks of `treeAdd()` and `findAvail()` end. `Ways` gives each block of the tree the set of those on the way to
it and says that a search for its size stays among them. That cannot be said as an order of whole subtrees, since
`findAvail()` also goes to the wrong side; but it only does so where the right one is empty, so it never
leaves a way (`OnwardIs`, `SearchFinds`). `treeAdd()` hangs a block where its own way ends (`WalkEnds`,
`TreeAdded`). `releaseFree()` is proved as cutting a subtree off (`ChildCut`, or `RootTaken` for the root) and adding the
two children: what hung below them keeps its pointers and is in no tree any more, so the tree that is
left is sorted, though blocks are lost. Then each kind of allocation is one lemma, and what a step
does to the blocks in use (`Stays`, `Grows`, `Shrinks`) maps it to `Heap`.

*Keyboard.* `KeyInv`: the lock's holder is who is between `lock()` and `unlock()` (`TaskInv`,
`LockInv`), keys have numbers of their own wherever they are (`NumberInv`), the ring is a window on
the history of keys stored, with all that was taken before it (`RingInv`), and a reader about to move
the index has the first key of the ring (`GotInv`).

*Files.* `ListInv` describes the objects by a sequence; `Nth()`, `open()`, `close()` and
rotation are proved on it. `CallInv` says of each handle who may use it: its owner, one call that closes it, or, after
`stat()`, nobody; an Iterator belongs to one entry or to one call that is about to enter it. The refinement
has one lemma per action: a step is one of `OpenFiles` or changes nothing there. It needed one change of the model:
the cases of `SysCustom` were not disjoint where no state of the program is.

*Disk.* `DiskInv` says what can be at each place of the driver. `MountInv`: once the head and the registers are set, they name the
sector asked for (`Registers`, from the division of its number by the geometry, `ChsFits`, or by bytes,
`LbaFits`). `PhaseInv`: what the drive may be doing meanwhile. It may be in the rest of an old answer only
until the read of sector 0 is over, so the sector asked for is never taken from that; and when
`writeSector()` hands out data, a drive without an error wants them. `DetectInv` says where that rest
comes from, `StoreInv` that a value which counts as written is on the disk or in the buffer of the drive, where no later
command can displace it. `WalkInv`: the walk stands at a header of the archive, and no entry before that one has the
name it looks for. The headers rise by at least a sector (`HeadersRise`), so none is mistaken for another one, and
none lies in the data of a file (`SectorIs`).

*ClothesFS.* `VolumeInv` has twelve parts. The free chain is always all the blocks from
the header's one on (`ChainOk`), since `format()` links them in order and blocks are only taken from
the front. `Exclusive` says that no block is free and named or named twice, `LinksOk` that only a block
that another one goes on in is of a continued kind, `JobOk`, `FilingOk` and `PlainOk` where a call stands
between two writes, `FilesOk` that the first payload block of a file is its own, `Described` that without failures every block is
what it is named for, `AddedOk` that what was added is stored and that the running call has nothing to
do with it. Each write is one lemma. `HandleOk` adds for reading that the copy the Iterator works on is still what is on the
disk, because only the call that adds a file writes the file's own block (`FileKept`); `Packed` that no entry comes
after an empty word, so that what is entered is listed.

*Interrupts.* `StubInv` gives each stack as a sequence of frames of 23 words, the ones the stub
pushes for the code of that task at that depth; `LineInv` adds where the handlers are and which
lines they have in service, `WaitInv` how many ticks a wait has seen.

*Smp.* `SmpInv`: where an answer that is not counted yet comes from (`CountInv`), and who is inside the page
mutex when it is taken or has a queue (`MutexInv`).

*Boot.* `BootInv`: what the boot code has passed is switched on (`OrderInv`) and made (`MadeInv`), an actor inside a
getter is at an operation that asks for that object, and nobody but the boot code makes what others use (`GetterInv`),
so that only an interrupt inside `fb()` can find another PCI object, and the frame buffer gets its own again when the
getter is through (`FbInv`). The 51 operations of the boot code are looked at once (`BootTable`, `BootCode`).

*Display.* `TextInv`: which buffers there are (`FrameInv`), and that once something was written the area drawn on
shows the rows of the text that `roll` has, with the row of the cursor on the screen and the rows behind it free (`PaperInv`: `Shows`,
`Placed`), unless the second buffer is not there or a backspace was smudged. `Scrolled` treats both kinds of
scrolling, `CharWritten` one character, and a new line is two of them. `DevInv`: a walk from the start meets exactly the
functions there are (`AllReached`) and stops at the first of what it looks for (`FindsFirst`); while
`ATA::init()` walks, the controllers up to the iterator that are first of their device are set up, unless the iterator stays at function 0 of one (`WalkInv`),
since from one that is not function 0 it can only come to later devices (`ReachedLater`). `PickRight` is the loop of
`Vesa::query()`: after each mode its choice is right for the modes seen.

*Divide.* For the absolute values a and b: `quot * b + num = a` and `den = b * qbit`, with
`qbit` a power of two.

*Clock.* `ClockInv`: what the call has read so far is completed, by what the registers hold now, to a
time no later than now (`Later`), and if no minute has ended to the time at entry or after it. A register read leaves that as it
is, a second only makes now later.

*Paths.* `PathInv` says, for each place where a call of `open()` stands, what its strings hold: the rest of the path
behind the mount point without the slashes removed so far, in a block of its own, or nothing when the path ends there,
and that exactly the blocks lost so far are in use besides (`StepInv`). The mount point the walk has found is the first one the path
begins with.

*Printf.* The three recursions of a number (the digits counted, the digits taken off, the value of digits) are shown to have values
by looking at the least place where they would not, since induction is out of reach; in the same way what is left after k digits has k digits less to
count (`DigitsAre`), and the value of the first i digits is what is left before the others are taken off (`DigitsMean`).
`PrintInv` adds that words are left over only after an odd conversion.

*Lists.* `ListInv`: unless a `deleteAll()` went on at address 0, there is a line of distinct objects, all of them in use, that a walk
from `m_first` meets, the last one without a next (`Good`); while no call was odd, `m_size` and `m_last` are theirs (`Ends`). Each
call has a lemma that says which values the new line has and whether its end is known (`AddFirstOp`, `AppendOp`, `DeleteAtOp`, ...), which gives
both that the invariant goes on and that the call does what its name says. After an odd call `m_last` may be an
object inside the line, and `append()` then cuts off what is behind it (`CutLine`), or one that has left it, and then the line stays as it was. The loop of `deleteAll()` is followed round by round
(`RoundReaches`): after k rounds the values before the cursor are the ones kept so far, and those behind it are still to be
looked at (`Half`). That this holds after every round is shown by looking at the first one after which it would not.

*Only model-checked*: liveness (`RunnableRuns`, `WaiterWakes`, `KeysDrain`, `ScreenFollows`, `AllStart`, `BootEnds`:
fairness is out of the prover's reach).

## 8. Not modelled

Registers, stacks, descriptor tables and access rights (hardware state);
the contents of files, characters and pixels; `killer()`/`doKill()`, `GuardMutex`
and `PageDir::copyTo` (no running caller); vendored code (x86 emulator, C library
headers) and the applications. The ARM port is not part of any build that links (its paging is
written against interfaces the kernel no longer has), the Linux port replaces the devices by
stubs, `pthread` is a set of stubs around one mutex, real-mode BIOS calls run inside the emulator. `PROJECT.json` has the reason for every component.
