---------------------------------- MODULE Smp ----------------------------------
(***************************************************************************)
(* The start of the other CPUs: acpiSearch() and its parsers list them      *)
(* (arch/x86/acpix86.cpp), initSMP_CPUS() starts them one by one            *)
(* (arch/x86/cpux86.cpp), each answers in a word of low memory, waits for   *)
(* another one (arch/x86/loader.asm) and enters _smp_main() (src/main.cpp), *)
(* where it loads the page directory under the page allocator's mutex.      *)
(*                                                                          *)
(* No task exists yet: a CPU that finds the mutex taken queues the process  *)
(* manager's current task, which is the null pointer, and runs schedule()   *)
(* with it.  Memory at address 0 decides whether it comes back.             *)
(***************************************************************************)
EXTENDS Integers, Sequences, FiniteSets, FiniteSetsExt

CONSTANTS
  Ids,        \* local APIC ids that a table may name
  Boot,       \* id of the CPU that runs the kernel's start
  Present,    \* ids of the other CPUs that exist
  MaxCpus,    \* max_cpu_count, and the parts of the stack area
  Roms,       \* what acpiSearch() may meet, one sequence of candidates per machine
  MaxCnt,     \* rounds of the loop that waits for an answer (1000 in the code)
  MaxAllocs   \* bound: page allocations of the kernel's start after the hand-shake

\* The id of a CPU is a byte of its entry in the tables.
SmpAssumption ==
  /\ Ids \subseteq 0..255 /\ Boot \in Ids /\ Present \subseteq Ids \ {Boot}
  /\ MaxCpus \in Nat /\ MaxCnt \in Nat \ {0} /\ MaxAllocs \in Nat
  /\ \A rom \in Roms : \A k \in DOMAIN rom :
       rom[k].sum \in BOOLEAN /\ rom[k].rev \in Nat

VARIABLES
  rom,      \* the candidates that acpiSearch() has not reached
  cpu_ids,  \* the CPUs listed
  bsp,      \* where the kernel's start is: step, CPU, rounds waited, attempts
  lock,     \* the word at SMP_INIT_ADDR
  done,     \* the byte at SMP_DONE_ADDR
  code,     \* the code at BASE_ADDR is in place
  active,   \* active_cpu_count
  ap,       \* where each other CPU is
  esp,      \* part of the stack area a CPU uses, counted from its top
  prompt,   \* CPUs that answered while they were waited for
  mutex,    \* __page_mapping_mutex: its value, and whether its queue has the null task
  spoilt    \* some CPU found the mutex taken

kernel == <<rom, cpu_ids, bsp>>
words  == <<lock, done, code, active>>
vars   == <<kernel, words, ap, esp, prompt, mutex, spoilt>>

-----------------------------------------------------------------------------
(* The tables: acpiSearch(), parseACPI(), parseRSDT(), parseAcpiApic()       *)

\* parseAcpiApic(): entries of type 0 name a CPU, enabled or not.
Entries(table) == [k \in DOMAIN SelectSeq(table.entries, LAMBDA e : e.type = 0) |->
                     SelectSeq(table.entries, LAMBDA e : e.type = 0)[k].apicId]

Listed(ids, table) ==
  IF table.signature = "APIC" THEN SubSeq(ids \o Entries(table), 1,
                                          Min({MaxCpus, Len(ids) + Len(Entries(table))}))
  ELSE ids

\* parseRSDT(): every table in turn.
Parsed(ids, tables) ==
  LET p[k \in 0..Len(tables)] == IF k = 0 THEN ids ELSE Listed(p[k - 1], tables[k])
  IN  p[Len(tables)]

At(step) == bsp.at = step

\* The signature, then parseACPI(): a wrong sum ends the search.
Search ==
  /\ At("search") /\ rom # <<>>
  /\ rom' = IF Head(rom).sum THEN Tail(rom) ELSE <<>>
  /\ cpu_ids' = IF Head(rom).sum /\ Head(rom).rev = 0 THEN Parsed(cpu_ids, Head(rom).tables)
                ELSE cpu_ids
  /\ UNCHANGED <<bsp, words, ap, esp, prompt, mutex, spoilt>>

-----------------------------------------------------------------------------
(* initSMP_CPUS()                                                            *)

Goto(step) == bsp' = [bsp EXCEPT !.at = step]

\* INIT to every other CPU that is listed.
Initialise ==
  /\ At("search") /\ rom = <<>>
  /\ lock' = 0 /\ done' = 0
  /\ ap' = [c \in Present |-> IF c \in Range(cpu_ids) THEN "init" ELSE ap[c]]
  /\ Goto("copy")
  /\ UNCHANGED <<rom, cpu_ids, code, active, esp, prompt, mutex, spoilt>>

CopyCode ==
  /\ At("copy")
  /\ code' = TRUE /\ active' = 1
  /\ Goto("next")
  /\ UNCHANGED <<rom, cpu_ids, lock, done, ap, esp, prompt, mutex, spoilt>>

Cpu == cpu_ids[bsp.i]

\* acpiStartCpuById(): a CPU that is not waiting for it takes no notice, external.
Started(c) == [d \in Present |-> IF d = c /\ ap[d] = "init" THEN "start" ELSE ap[d]]

SkipOwn ==
  /\ At("next") /\ bsp.i <= Len(cpu_ids) /\ Cpu = Boot
  /\ bsp' = [bsp EXCEPT !.i = @ + 1]
  /\ UNCHANGED <<rom, cpu_ids, words, ap, esp, prompt, mutex, spoilt>>

\* Mutant: the word keeps the answer of the CPU before.
StartCpuUncleared ==
  /\ At("next") /\ bsp.i <= Len(cpu_ids) /\ Cpu # Boot
  /\ ap' = Started(Cpu)
  /\ bsp' = [bsp EXCEPT !.at = "wait", !.cnt = 0, !.tries = 1]
  /\ UNCHANGED <<rom, cpu_ids, words, esp, prompt, mutex, spoilt>>

StartCpu ==
  /\ At("next") /\ bsp.i <= Len(cpu_ids) /\ Cpu # Boot
  /\ lock' = 0
  /\ ap' = Started(Cpu)
  /\ bsp' = [bsp EXCEPT !.at = "wait", !.cnt = 0, !.tries = 1]
  /\ UNCHANGED <<rom, cpu_ids, done, code, active, esp, prompt, mutex, spoilt>>

WaitRound ==
  /\ At("wait") /\ lock = 0 /\ bsp.cnt < MaxCnt
  /\ bsp' = [bsp EXCEPT !.cnt = @ + 1]
  /\ UNCHANGED <<rom, cpu_ids, words, ap, esp, prompt, mutex, spoilt>>

WaitOver == At("wait") /\ (lock # 0 \/ bsp.cnt >= MaxCnt)

\* "Timer hit, try again"
Retry ==
  /\ WaitOver /\ bsp.tries = 1 /\ bsp.cnt >= MaxCnt
  /\ ap' = Started(Cpu)
  /\ bsp' = [bsp EXCEPT !.tries = 2, !.cnt = 0]
  /\ UNCHANGED <<rom, cpu_ids, words, esp, prompt, mutex, spoilt>>

Answered ==
  /\ WaitOver /\ bsp.cnt < MaxCnt
  /\ active' = active + 1
  /\ bsp' = [bsp EXCEPT !.at = "next", !.i = @ + 1]
  /\ UNCHANGED <<rom, cpu_ids, lock, done, code, ap, esp, prompt, mutex, spoilt>>

\* "Failed to boot cpu"
Failed ==
  /\ WaitOver /\ bsp.tries = 2 /\ bsp.cnt >= MaxCnt
  /\ bsp' = [bsp EXCEPT !.at = "next", !.i = @ + 1]
  /\ UNCHANGED <<rom, cpu_ids, words, ap, esp, prompt, mutex, spoilt>>

\* Mutant: the others are let go only if each of them was counted.
ReleaseIfAll ==
  /\ At("next") /\ bsp.i > Len(cpu_ids)
  /\ done' = IF active = Len(cpu_ids) THEN 1 ELSE 0
  /\ bsp' = [bsp EXCEPT !.at = "run", !.cnt = 0]
  /\ UNCHANGED <<rom, cpu_ids, lock, code, active, ap, esp, prompt, mutex, spoilt>>

Release ==
  /\ At("next") /\ bsp.i > Len(cpu_ids)
  /\ done' = 1
  /\ bsp' = [bsp EXCEPT !.at = "run", !.cnt = 0]
  /\ UNCHANGED <<rom, cpu_ids, lock, code, active, ap, esp, prompt, mutex, spoilt>>

-----------------------------------------------------------------------------
(* The page allocator's mutex, without tasks                                 *)

\* BaseMutex::lock() finds it free.
Take == mutex.value = 0 /\ mutex' = [mutex EXCEPT !.value = 1] /\ UNCHANGED spoilt

\* Waitlist::enqueue() of the null task; schedule() unlocks the null task and may come back.
Enqueue == mutex.value = 1 /\ mutex' = [mutex EXCEPT !.queue = TRUE] /\ spoilt' = TRUE

\* BaseMutex::unlock(), Waitlist::dequeue(): the only item, however often it was queued.
Give ==
  /\ mutex' = IF mutex.queue THEN [mutex EXCEPT !.queue = FALSE] ELSE [mutex EXCEPT !.value = 0]
  /\ UNCHANGED spoilt

\* The kernel's start maps pages.
Allocate ==
  /\ At("run") /\ bsp.cnt < MaxAllocs
  /\ \/ Take /\ Goto("pages")
     \/ Enqueue /\ \E step \in {"pages", "stuck"} : Goto(step)
  /\ UNCHANGED <<rom, cpu_ids, words, ap, esp, prompt>>

Allocated ==
  /\ At("pages")
  /\ Give
  /\ bsp' = [bsp EXCEPT !.at = "run", !.cnt = @ + 1]
  /\ UNCHANGED <<rom, cpu_ids, words, ap, esp, prompt>>

\* startProcessManager(): needs the scheduler's lock, which a CPU that is stuck in
\* schedule() holds.
StartTasks ==
  /\ At("run") /\ bsp.cnt = MaxAllocs
  /\ \A c \in Present : ap[c] # "stuck"
  /\ Goto("tasks")
  /\ UNCHANGED <<rom, cpu_ids, words, ap, esp, prompt, mutex, spoilt>>

-----------------------------------------------------------------------------
(* The other CPUs                                                            *)

Move(c, step) == ap' = [ap EXCEPT ![c] = step]

\* The code at BASE_ADDR and loader_smp_init: a stack of its own, the answer.
Answer(c) ==
  /\ ap[c] = "start" /\ code
  /\ esp' = [esp EXCEPT ![c] = c]
  /\ lock' = 1
  /\ prompt' = IF At("wait") /\ Cpu = c /\ bsp.cnt < MaxCnt THEN prompt \cup {c} ELSE prompt
  /\ Move(c, "spin")
  /\ UNCHANGED <<kernel, done, code, active, mutex, spoilt>>

\* _smp_main(), gdt_load().
Go(c) ==
  /\ ap[c] = "spin" /\ done # 0
  /\ Move(c, "main")
  /\ UNCHANGED <<kernel, words, esp, prompt, mutex, spoilt>>

\* pagingEnableSmp()
LockPages(c) ==
  /\ ap[c] = "main"
  /\ \/ Take /\ Move(c, "pages")
     \/ Enqueue /\ \E step \in {"pages", "stuck"} : Move(c, step)
  /\ UNCHANGED <<kernel, words, esp, prompt>>

\* enablePagingSmp(), unlock, the message and the endless loop.
Enabled(c) ==
  /\ ap[c] = "pages"
  /\ Give
  /\ Move(c, "up")
  /\ UNCHANGED <<kernel, words, esp, prompt>>

-----------------------------------------------------------------------------

Init ==
  /\ rom \in Roms /\ cpu_ids = <<>>
  /\ bsp = [at |-> "search", i |-> 1, cnt |-> 0, tries |-> 0]
  /\ lock = 0 /\ done = 0 /\ code = FALSE /\ active = 0
  /\ ap = [c \in Present |-> "off"]
  /\ esp = [c \in Present |-> 0]
  /\ prompt = {}
  /\ mutex = [value |-> 0, queue |-> FALSE] /\ spoilt = FALSE

Kernel ==
  \/ Search \/ Initialise \/ CopyCode \/ SkipOwn \/ StartCpu \/ WaitRound \/ Retry
  \/ Answered \/ Failed \/ Release \/ Allocate \/ Allocated \/ StartTasks

Other(c) == Answer(c) \/ Go(c) \/ LockPages(c) \/ Enabled(c)

\* The start is over, or waits for a lock that nobody gives back.
Over ==
  /\ At("tasks") \/ At("stuck") \/ \E c \in Present : ap[c] = "stuck"
  /\ UNCHANGED vars

Next == Kernel \/ (\E c \in Present : Other(c)) \/ Over

\* Every CPU executes its instructions; msleep() ends because the timer interrupts.
Fairness == WF_vars(Kernel) /\ \A c \in Present : WF_vars(Other(c))

Spec == Init /\ [][Next]_vars /\ Fairness

-----------------------------------------------------------------------------
(* Properties                                                                *)

Running(c) == ap[c] \notin {"off", "init", "start"}

\* No two CPUs that run share a part of the stack area, and none is outside of it, as long
\* as the id of the first CPU is 0 and ids are below MaxCpus: loader_smp_init takes the
\* part from the id, the kernel's start uses the top.
StacksApart ==
  (Boot = 0 /\ \A c \in Present : c < MaxCpus) =>
    \A c \in Present : Running(c) =>
      esp[c] \in 1..MaxCpus - 1 /\ \A d \in Present \ {c} : Running(d) => esp[c] # esp[d]

\* initSMP_CPUS() counts no more CPUs than run, although a late answer is taken for that of
\* the next one, and it counts at least those that answered while it waited for them.
CountRight ==
  /\ active <= 1 + Cardinality({c \in Present : Running(c)})
  /\ bsp.at \in {"run", "pages", "tasks"} => active >= 1 + Cardinality(prompt)

\* When no CPU is between lock() and unlock() of the page mutex, and none is stuck, it is
\* free and its queue empty: CPUs that went on without owning it leave it as it was.
MutexFreed ==
  (bsp.at \notin {"pages", "stuck"} /\ \A c \in Present : ap[c] \notin {"pages", "stuck"}) =>
    mutex = [value |-> 0, queue |-> FALSE]

\* What the first CPU and the others share during the start: stacks, count and mutex.
Handshake == StacksApart /\ CountRight /\ MutexFreed

\* A good description: acpiSearch() meets it first, and it fits the list.
Described(r) ==
  /\ r # <<>> /\ Head(r).sum /\ Head(r).rev = 0
  /\ Present \subseteq Range(Parsed(<<>>, Head(r).tables))

\* The start of the kernel ends, as every CPU is waited for a bounded time only, and every CPU
\* that exists and is described gets its pages, however late it answers.  The exception is a
\* mutex that was found taken, which may leave the scheduler's lock taken.
AllStart ==
  /\ <>(At("tasks") \/ spoilt)
  /\ Described(rom) => <>(spoilt \/ \A c \in Present : ap[c] = "up")
================================================================================
