------------------------------ MODULE Scheduler ------------------------------
(***************************************************************************)
(* The x86 kernel's single-CPU preemptive scheduler together with the      *)
(* sleeping mutex built on it: ProcessManager (src/processmanager.cpp),    *)
(* Task (inc/task.h), BaseMutex, Spinlock (inc/mutex.hh), Waitlist         *)
(* (src/waitlist.cpp) and the timer interrupt (arch/x86/timerx86.cpp).     *)
(*                                                                         *)
(* One CPU executes the code of m_current.  A code section that runs with  *)
(* interrupts seized (cli) is one atomic step; everywhere else the timer   *)
(* interrupt Tick may come between two steps.  Tasks run the loop          *)
(*     { MutexLocker lock(&m); ... }                                       *)
(* over the mutexes in Mutexes, one mutex at a time.                       *)
(***************************************************************************)
EXTENDS Integers, Sequences, FiniteSets

CONSTANTS
  Tasks,      \* Task objects the kernel can create
  Kernel,     \* the task running kernel_loop(); it is added first, adds the rest
  Idle,       \* tasks that contend for none of Mutexes (kernel_loop() locks only the
              \* frame buffer's, in blit(), which no other task takes)
  Mutexes,    \* Mutex objects shared by the tasks
  NoTask,     \* the null Task pointer
  MaxSlice,   \* bound: longest time slice, in ticks
  MaxFrames   \* bound: schedule() frames stacked on one task's kernel stack

ASSUME ConstAssumption ==
  /\ Kernel \in Tasks
  /\ Idle \subseteq Tasks
  /\ NoTask \notin Tasks
  /\ MaxSlice \in Nat \ {0}
  /\ MaxFrames \in Nat \ {0}

VARIABLES
  boot,       \* how far Kernel::startProcessManager() has come
  tasks,      \* ProcessManager::m_tasks
  current,    \* ProcessManager::m_current
  schedLock,  \* __scheduling_lock.locked
  hung,       \* why the CPU spins forever, or "no"
  status,     \* Task::m_status
  slice,      \* Task::m_slice
  taskLocker, \* Task::m_m.locker.locked
  taskValue,  \* Task::m_m.value
  frames,     \* suspended schedule() calls on the task's stack, innermost first
  pc,         \* where the task's own code stands
  mtx,        \* the mutex that code works on
  locker,     \* BaseMutex::locker.locked
  value,      \* BaseMutex::value
  queue       \* BaseMutex::queue, the waiting tasks, head first

procVars  == <<boot, tasks, current, schedLock, hung>>
taskVars  == <<status, slice, taskLocker, taskValue, frames>>
mutexVars == <<locker, value, queue>>
vars == <<procVars, taskVars, pc, mtx, mutexVars>>

Statuses  == {"RUNNING", "WAITING", "BLOCKED"}
HangCause == {"no", "null task", "scheduling lock", "task lock", "next already locked"}
Points    == {"next", "nextHeld", "self", "selfHeld", "sched"}
Frame     == [at: Points, next: Tasks]
Labels    == {"run", "adding", "lock", "test", "take", "took", "enqueue", "linked",
              "enqueued", "resched", "slept", "cs", "unlock", "wake", "free",
              "handoff", "woke"}

\* A slice is never counted below zero, and every list, queue, lock and program
\* point of the scheduler keeps its type (Task::decSlice()).
TypeOK ==
  /\ boot \in {"off", "running", "locked", "done"}
  /\ tasks \in Seq(Tasks)
  /\ current \in Tasks \cup {NoTask}
  /\ schedLock \in {0, 1}
  /\ hung \in HangCause
  /\ status \in [Tasks -> Statuses]
  /\ slice \in [Tasks -> Nat]
  /\ taskLocker \in [Tasks -> {0, 1}]
  /\ taskValue \in [Tasks -> {0, 1}]
  /\ frames \in [Tasks -> Seq(Frame)]
  /\ pc \in [Tasks -> Labels]
  /\ mtx \in [Tasks -> Mutexes]
  /\ locker \in [Mutexes -> {0, 1}]
  /\ value \in [Mutexes -> {0, 1}]
  /\ queue \in [Mutexes -> Seq(Tasks)]

Elems(s) == {s[i] : i \in DOMAIN s}

Init ==
  /\ boot = "off" /\ tasks = <<>> /\ current = NoTask
  /\ schedLock = 0 /\ hung = "no"
  /\ status = [t \in Tasks |-> "WAITING"]
  /\ slice = [t \in Tasks |-> 0]
  /\ taskLocker = [t \in Tasks |-> 0]
  /\ taskValue = [t \in Tasks |-> 0]
  /\ frames = [t \in Tasks |-> <<>>]
  /\ pc = [t \in Tasks |-> "run"]
  /\ mtx \in [Tasks -> Mutexes]
  /\ locker = [m \in Mutexes |-> 0]
  /\ value = [m \in Mutexes |-> 0]
  /\ queue = [m \in Mutexes |-> <<>>]

-----------------------------------------------------------------------------
(* Kernel::startProcessManager(): setRunning(), then addTask(kernel_task).   *)

\* The interrupt handlers find m_running set from here on.
SetRunning ==
  /\ boot = "off"
  /\ boot' = "running"
  /\ UNCHANGED <<tasks, current, schedLock, hung, taskVars, pc, mtx, mutexVars>>

\* addTask() takes the scheduling lock before it seizes interrupts.
BootLock ==
  /\ hung = "no" /\ boot = "running"
  /\ boot' = "locked" /\ schedLock' = 1
  /\ UNCHANGED <<tasks, current, hung, taskVars, pc, mtx, mutexVars>>

\* The rest of addTask() without a current task, up to switchTo().
BootSwitch ==
  /\ hung = "no" /\ boot = "locked"
  /\ boot' = "done" /\ schedLock' = 0
  /\ tasks' = Append(tasks, Kernel) /\ current' = Kernel
  /\ UNCHANGED <<hung, taskVars, pc, mtx, mutexVars>>

-----------------------------------------------------------------------------
(* ProcessManager::schedule()                                                *)

\* Mutant: schedule() forgets rotateFirstLast().
RotateForgotten(s, k) == s

\* The list after k calls of rotateFirstLast().
Rotate(s, k) ==
  [i \in 1..Len(s) |-> IF i + k <= Len(s) THEN s[i + k] ELSE s[i + k - Len(s)]]

\* Positions where the search loop stops: the current task, or one that may run.
Stops == {i \in 1..Len(tasks) :
            tasks[i] = current \/ status[tasks[i]] # "BLOCKED"}

FirstStop == CHOOSE i \in Stops : \A j \in Stops : i <= j

\* A Spinlock that its own interrupted holder can never release: yield() takes
\* the scheduling lock itself, so the spin never ends.
Hang(why) ==
  /\ hung' = why
  /\ UNCHANGED <<boot, tasks, current, schedLock, taskVars, pc, mtx, mutexVars>>

\* schedule() returns the current task: it was met first in the list.  The
\* blocked tasks before it have been rotated behind it, and it stays first.
Stay ==
  /\ tasks' = Rotate(tasks, FirstStop - 1)
  /\ UNCHANGED <<boot, current, schedLock, hung, taskVars, mutexVars>>

\* Mutant: the chosen task is not rotated to the end of the list.
SwitchToUnrotated(next, s) ==
  /\ tasks' = Rotate(tasks, FirstStop - 1)
  /\ current' = next
  /\ status' = [t \in Tasks |->
                  IF t = next THEN "RUNNING"
                  ELSE IF t = current /\ status[t] # "BLOCKED" THEN "WAITING"
                  ELSE status[t]]
  /\ slice' = [slice EXCEPT ![next] = s]
  /\ taskValue' = [t \in Tasks |-> IF t \in {next, current} THEN 0 ELSE taskValue[t]]
  /\ frames' = [frames EXCEPT ![current] = <<[at |-> "next", next |-> next]>> \o @]
  /\ UNCHANGED <<boot, schedLock, hung, taskLocker, mutexVars>>

\* schedule() switches to the task met first: the current one is suspended
\* inside save(), the new one goes on where it was suspended.  restore()
\* clears the lock of the task left behind and enables interrupts.
SwitchTo(next, s) ==
  /\ tasks' = Rotate(tasks, FirstStop)
  /\ current' = next
  /\ status' = [t \in Tasks |->
                  IF t = next THEN "RUNNING"
                  ELSE IF t = current /\ status[t] # "BLOCKED" THEN "WAITING"
                  ELSE status[t]]
  /\ slice' = [slice EXCEPT ![next] = s]
  /\ taskValue' = [t \in Tasks |-> IF t \in {next, current} THEN 0 ELSE taskValue[t]]
  /\ frames' = [frames EXCEPT ![current] = <<[at |-> "next", next |-> next]>> \o @]
  /\ UNCHANGED <<boot, schedLock, hung, taskLocker, mutexVars>>

\* Task::lock() of t would spin or sleep inside the scheduler.
Locked(t) == taskLocker[t] = 1 \/ taskValue[t] = 1

CanSearch == schedLock = 0 /\ tasks # <<>> /\ ~Locked(current)

\* The ways schedule() never comes back.
ScheduleHangs ==
  \/ schedLock = 1 /\ Hang("scheduling lock")
  \/ schedLock = 0 /\ tasks = <<>> /\ Hang("null task")
  \/ schedLock = 0 /\ tasks # <<>> /\ Locked(current) /\ Hang("task lock")
  \/ /\ CanSearch
     /\ tasks[FirstStop] # current /\ Locked(tasks[FirstStop])
     /\ Hang(IF taskValue[tasks[FirstStop]] = 1 THEN "next already locked"
                                               ELSE "task lock")

ScheduleReturns ==
  /\ CanSearch
  /\ \/ tasks[FirstStop] = current /\ Stay
     \/ /\ tasks[FirstStop] # current /\ ~Locked(tasks[FirstStop])
        /\ Len(frames[current]) < MaxFrames
        /\ \E s \in 1..MaxSlice : SwitchTo(tasks[FirstStop], s)

-----------------------------------------------------------------------------
(* TimerX86::run(), the timer interrupt                                      *)

InSlice == current # NoTask /\ slice[current] > 0

\* decSlice() locks the current task: fatal if the interrupted code was just
\* unlocking it, one tick less otherwise.
TickInSlice ==
  /\ hung = "no" /\ InSlice
  /\ \/ Locked(current) /\ Hang("task lock")
     \/ /\ ~Locked(current)
        /\ slice' = [slice EXCEPT ![current] = @ - 1]
        /\ UNCHANGED <<procVars, status, taskLocker, taskValue, frames, pc, mtx, mutexVars>>

TickSchedule ==
  /\ hung = "no" /\ boot # "off" /\ ~InSlice
  /\ \/ ScheduleHangs
     \/ ScheduleReturns /\ UNCHANGED <<pc, mtx>>

Tick == TickInSlice \/ TickSchedule

-----------------------------------------------------------------------------
(* The end of schedule() and addTask() in a task that was switched to again: *)
(* next->unlock(), current->unlock(), __scheduling_lock.unlock(), sti.       *)
(* restore() has enabled interrupts already.                                 *)

OnCpu(t) == hung = "no" /\ current = t
Resuming(t, p) == OnCpu(t) /\ frames[t] # <<>> /\ Head(frames[t]).at = p
MoveFrame(t, p) == frames' = [frames EXCEPT ![t][1].at = p]

\* Task whose lock the innermost frame of t is unlocking.
Unlocking(t) == IF Head(frames[t]).at = "next" THEN Head(frames[t]).next ELSE t

AcquireTaskLocker(t) ==
  /\ Resuming(t, "next") \/ Resuming(t, "self")
  /\ taskLocker[Unlocking(t)] = 0
  /\ taskLocker' = [taskLocker EXCEPT ![Unlocking(t)] = 1]
  /\ MoveFrame(t, IF Head(frames[t]).at = "next" THEN "nextHeld" ELSE "selfHeld")
  /\ UNCHANGED <<procVars, status, slice, taskValue, pc, mtx, mutexVars>>

\* Spinlock::lock() calls yield(), which zeroes the slice.
SpinTaskLocker(t) ==
  /\ Resuming(t, "next") \/ Resuming(t, "self")
  /\ taskLocker[Unlocking(t)] = 1
  /\ slice' = [slice EXCEPT ![t] = 0]
  /\ UNCHANGED <<procVars, status, taskLocker, taskValue, frames, pc, mtx, mutexVars>>

UnlockTask(t) ==
  /\ \/ Resuming(t, "nextHeld") /\ MoveFrame(t, "self")
     \/ Resuming(t, "selfHeld") /\ MoveFrame(t, "sched")
  /\ LET u == IF Head(frames[t]).at = "nextHeld" THEN Head(frames[t]).next ELSE t
     IN  /\ taskValue' = [taskValue EXCEPT ![u] = 0]
         /\ taskLocker' = [taskLocker EXCEPT ![u] = 0]
  /\ UNCHANGED <<procVars, status, slice, pc, mtx, mutexVars>>

LeaveSchedule(t) ==
  /\ Resuming(t, "sched")
  /\ schedLock' = 0
  /\ frames' = [frames EXCEPT ![t] = Tail(@)]
  /\ UNCHANGED <<boot, tasks, current, hung, status, slice, taskLocker, taskValue,
                 pc, mtx, mutexVars>>

Resume(t) ==
  AcquireTaskLocker(t) \/ SpinTaskLocker(t) \/ UnlockTask(t) \/ LeaveSchedule(t)

-----------------------------------------------------------------------------
(* kernel_loop(): ProcessManager::addTask() of the other tasks               *)

At(t, l) == OnCpu(t) /\ frames[t] = <<>> /\ pc[t] = l
Goto(t, l) == pc' = [pc EXCEPT ![t] = l]

AddLock ==
  /\ At(Kernel, "run") /\ Elems(tasks) # Tasks
  /\ schedLock = 0 /\ schedLock' = 1
  /\ Goto(Kernel, "adding")
  /\ UNCHANGED <<boot, tasks, current, hung, taskVars, mtx, mutexVars>>

\* Mutant: switchTo() does not give the scheduling lock back.
AddSwitchKeepsLock(t) ==
  /\ At(Kernel, "adding") /\ t \notin Elems(tasks)
  /\ tasks' = Append(tasks, t) /\ current' = t
  /\ taskValue' = [taskValue EXCEPT ![Kernel] = 0]
  /\ frames' = [frames EXCEPT ![Kernel] = <<[at |-> "sched", next |-> t]>>]
  /\ Goto(Kernel, "run")
  /\ UNCHANGED <<boot, schedLock, hung, status, slice, taskLocker, mtx, mutexVars>>

\* Interrupts are off from seizeInterrupts() to switchTo(); the new task starts
\* with no slice, the adding one is left inside save().
AddSwitch(t) ==
  /\ At(Kernel, "adding") /\ t \notin Elems(tasks)
  /\ tasks' = Append(tasks, t) /\ current' = t
  /\ schedLock' = 0
  /\ taskValue' = [taskValue EXCEPT ![Kernel] = 0]
  /\ frames' = [frames EXCEPT ![Kernel] = <<[at |-> "sched", next |-> t]>>]
  /\ Goto(Kernel, "run")
  /\ UNCHANGED <<boot, hung, status, slice, taskLocker, mtx, mutexVars>>

-----------------------------------------------------------------------------
(* BaseMutex::lock() and unlock() as MutexLocker calls them                  *)

CallLock(t, m) ==
  /\ t \notin Idle /\ At(t, "run")
  /\ (t = Kernel => Elems(tasks) = Tasks)
  /\ mtx' = [mtx EXCEPT ![t] = m] /\ Goto(t, "lock")
  /\ UNCHANGED <<procVars, taskVars, mutexVars>>

\* Mutant: the locker is stored to, not exchanged.
AcquireLockerBlindly(t) ==
  /\ At(t, "lock") \/ At(t, "unlock")
  /\ locker' = [locker EXCEPT ![mtx[t]] = 1]
  /\ Goto(t, IF pc[t] = "lock" THEN "test" ELSE "wake")
  /\ UNCHANGED <<procVars, taskVars, mtx, value, queue>>

AcquireLocker(t) ==
  /\ At(t, "lock") \/ At(t, "unlock")
  /\ locker[mtx[t]] = 0
  /\ locker' = [locker EXCEPT ![mtx[t]] = 1]
  /\ Goto(t, IF pc[t] = "lock" THEN "test" ELSE "wake")
  /\ UNCHANGED <<procVars, taskVars, mtx, value, queue>>

SpinLocker(t) ==
  /\ At(t, "lock") \/ At(t, "unlock")
  /\ locker[mtx[t]] = 1
  /\ slice' = [slice EXCEPT ![t] = 0]
  /\ UNCHANGED <<procVars, status, taskLocker, taskValue, frames, pc, mtx, mutexVars>>

TestValue(t) ==
  /\ At(t, "test")
  /\ Goto(t, IF value[mtx[t]] = 0 THEN "take" ELSE "enqueue")
  /\ UNCHANGED <<procVars, taskVars, mtx, mutexVars>>

TakeMutex(t) ==
  /\ At(t, "take")
  /\ value' = [value EXCEPT ![mtx[t]] = 1]
  /\ Goto(t, "took")
  /\ UNCHANGED <<procVars, taskVars, mtx, locker, queue>>

\* Waitlist::enqueue() links the task first and sets its status afterwards.
Link(t) ==
  /\ At(t, "enqueue")
  /\ queue' = [queue EXCEPT ![mtx[t]] = Append(@, t)]
  /\ Goto(t, "linked")
  /\ UNCHANGED <<procVars, taskVars, mtx, locker, value>>

\* From here schedule() passes over t, which still holds locker.
Block(t) ==
  /\ At(t, "linked")
  /\ status' = [status EXCEPT ![t] = "BLOCKED"]
  /\ Goto(t, "enqueued")
  /\ UNCHANGED <<procVars, slice, taskLocker, taskValue, frames, mtx, mutexVars>>

ReleaseLocker(t) ==
  /\ At(t, "took") \/ At(t, "enqueued") \/ At(t, "woke")
  /\ locker' = [locker EXCEPT ![mtx[t]] = 0]
  /\ Goto(t, CASE pc[t] = "took" -> "cs" [] pc[t] = "enqueued" -> "resched"
               [] pc[t] = "woke" -> "run")
  /\ UNCHANGED <<procVars, taskVars, mtx, value, queue>>

Reschedule(t) ==
  /\ At(t, "resched")
  /\ \/ ScheduleHangs
     \/ ScheduleReturns /\ Goto(t, "slept") /\ UNCHANGED mtx

\* reschedule() is over: lock() returns without looking at the mutex again.
ReturnFromLock(t) ==
  /\ At(t, "slept")
  /\ Goto(t, "cs")
  /\ UNCHANGED <<procVars, taskVars, mtx, mutexVars>>

\* ~MutexLocker() unlocks only a mutex that is locked.
LeaveSection(t) ==
  /\ At(t, "cs")
  /\ Goto(t, IF value[mtx[t]] = 1 THEN "unlock" ELSE "run")
  /\ UNCHANGED <<procVars, taskVars, mtx, mutexVars>>

\* Mutant: unlock() frees the mutex although somebody waits.
TestQueueIgnored(t) ==
  /\ At(t, "wake")
  /\ Goto(t, "free")
  /\ UNCHANGED <<procVars, taskVars, mtx, mutexVars>>

TestQueue(t) ==
  /\ At(t, "wake")
  /\ Goto(t, IF queue[mtx[t]] = <<>> THEN "free" ELSE "handoff")
  /\ UNCHANGED <<procVars, taskVars, mtx, mutexVars>>

FreeMutex(t) ==
  /\ At(t, "free")
  /\ value' = [value EXCEPT ![mtx[t]] = 0]
  /\ Goto(t, "woke")
  /\ UNCHANGED <<procVars, taskVars, mtx, locker, queue>>

\* Mutant: dequeue() forgets to make the waiter runnable.
HandOffAsleep(t) ==
  /\ At(t, "handoff") /\ queue[mtx[t]] # <<>>
  /\ queue' = [queue EXCEPT ![mtx[t]] = Tail(@)]
  /\ Goto(t, "woke")
  /\ UNCHANGED <<procVars, taskVars, mtx, locker, value>>

\* Waitlist::dequeue(): the mutex stays locked and passes to the first waiter.
HandOff(t) ==
  /\ At(t, "handoff") /\ queue[mtx[t]] # <<>>
  /\ queue' = [queue EXCEPT ![mtx[t]] = Tail(@)]
  /\ status' = [status EXCEPT ![Head(queue[mtx[t]])] = "WAITING"]
  /\ Goto(t, "woke")
  /\ UNCHANGED <<procVars, slice, taskLocker, taskValue, frames, mtx, locker, value>>

\* One step of the task's own code.
Code(t) ==
  \/ \E m \in Mutexes : CallLock(t, m)
  \/ AcquireLocker(t) \/ SpinLocker(t)
  \/ TestValue(t) \/ TakeMutex(t) \/ Link(t) \/ Block(t)
  \/ ReleaseLocker(t) \/ Reschedule(t) \/ ReturnFromLock(t)
  \/ LeaveSection(t) \/ TestQueue(t) \/ FreeMutex(t) \/ HandOff(t)

\* The CPU is lost: it spins with nobody left to end the spinning.
SpinForever == hung # "no" /\ UNCHANGED vars

Next ==
  \/ SetRunning \/ BootLock \/ BootSwitch
  \/ Tick \/ SpinForever
  \/ AddLock \/ \E t \in Tasks : AddSwitch(t)
  \/ \E t \in Tasks : Resume(t) \/ Code(t)

Spec == Init /\ [][Next]_vars

\* The timer keeps ticking and the CPU keeps executing: a task that is given the
\* CPU again and again gets to its own next instruction, for a slice is many ticks
\* long.  kernel_loop() adds its tasks.
Fairness ==
  /\ WF_vars(SetRunning) /\ WF_vars(BootLock) /\ WF_vars(BootSwitch)
  /\ WF_vars(Tick)
  /\ SF_vars(AddLock) /\ SF_vars(\E t \in Tasks : AddSwitch(t))
  /\ \A t \in Tasks : SF_vars(Resume(t)) /\ SF_vars(Code(t))

FairSpec == Spec /\ Fairness

-----------------------------------------------------------------------------
(* What the scheduler and the mutex promise                                  *)

\* Labels between lock() taking the mutex and unlock() giving it away, labels
\* where a task waits or has just been handed the mutex, and labels where it
\* holds the mutex's locker.
Inside   == {"took", "cs", "unlock", "wake", "free", "handoff"}
Sleeping == {"linked", "enqueued", "resched", "slept"}
Guarded  == {"test", "take", "took", "enqueue", "linked", "enqueued", "wake",
             "free", "handoff", "woke"}

\* The mutex belongs to the task that is past lock(), or to the waiter it was
\* handed to, which has not run yet.
Owns(t, m) ==
  /\ mtx[t] = m
  /\ \/ pc[t] \in Inside
     \/ pc[t] \in Sleeping /\ t \notin Elems(queue[m])

\* A mutex never belongs to two tasks, whatever instruction the timer
\* interrupted: lock() (inc/mutex.hh) returns to one caller until it unlocks.
MutualExclusion ==
  \A m \in Mutexes : \A t, u \in Tasks : Owns(t, m) /\ Owns(u, m) => t = u

\* No wakeup is lost and none is spurious: once a task is blocked it is in a wait
\* queue, and as long as it is there it is blocked; a mutex with waiters is owned
\* by a task that will hand it over, and only an owned mutex is locked
\* (Waitlist::enqueue() and dequeue(), BaseMutex::unlock()).
NoLostWakeup ==
  /\ \A t \in Tasks : status[t] = "BLOCKED" <=>
       pc[t] # "linked" /\ \E m \in Mutexes : t \in Elems(queue[m])
  /\ \A m \in Mutexes : value[m] = 1 <=> \E t \in Tasks : Owns(t, m)
  /\ \A m \in Mutexes : queue[m] # <<>> => value[m] = 1

\* The run list holds every added task once and the current task is at its end,
\* so that the next schedule() tries all the others before it (rotateFirstLast()
\* calls of src/processmanager.cpp).
RunListRotates ==
  /\ \A i, j \in DOMAIN tasks : tasks[i] = tasks[j] => i = j
  /\ tasks # <<>> => tasks[Len(tasks)] = current

\* The scheduling lock is free wherever the timer can interrupt, but for the
\* first instructions of addTask(): no other path can lose the CPU to it.  And
\* schedule() never meets its own error "NEXT ALREADY LOCKED": restore() and
\* switchTo() release the lock of the task they leave.
SchedulingLockDiscipline ==
  /\ TypeOK
  /\ hung # "next already locked"
  /\ schedLock = 1 => boot = "locked" \/ pc[Kernel] = "adding"
  /\ hung = "scheduling lock" => schedLock = 1
  /\ hung = "null task" => boot = "running"

\* Round robin: a task that may run gets the CPU, unless the CPU is lost.
RunnableRuns ==
  \A t \in Tasks : (t \in Elems(tasks) /\ status[t] = "WAITING")
                       ~> (current = t \/ hung # "no")

\* A task is blocked while it holds the locker of the mutex it waits for.
LockerStranded == \E t \in Tasks : pc[t] = "enqueued" /\ current # t /\ status[t] = "BLOCKED"

\* Every waiter of a mutex is woken, unless the CPU is lost or the timer came
\* between Waitlist::enqueue() and locker.unlock().
WaiterWakes ==
  \A t \in Tasks : status[t] = "BLOCKED"
                       ~> (status[t] # "BLOCKED" \/ hung # "no" \/ LockerStranded)

-----------------------------------------------------------------------------
(* The inductive invariant behind MutualExclusion and NoLostWakeup.          *)

CurrentListed ==
  /\ tasks # <<>> => current \in Elems(tasks)
  /\ tasks = <<>> => current = NoTask

ListInv ==
  /\ RunListRotates
  /\ tasks = <<>> <=> boot # "done"
  /\ tasks # <<>> => Kernel \in Elems(tasks)
  /\ \A t \in Tasks \ Elems(tasks) : pc[t] = "run"

KernelInv == pc[Kernel] \in {"run", "adding"}

QueueInv ==
  /\ \A m \in Mutexes :
       /\ \A i, j \in DOMAIN queue[m] : queue[m][i] = queue[m][j] => i = j
       /\ \A t \in Elems(queue[m]) : mtx[t] = m /\ pc[t] \in Sleeping
  /\ \A t \in Tasks : pc[t] = "linked" => t \in Elems(queue[mtx[t]])

LockerInv ==
  \A t \in Tasks : pc[t] \in Guarded =>
    /\ locker[mtx[t]] = 1
    /\ \A u \in Tasks : pc[u] \in Guarded /\ mtx[u] = mtx[t] => u = t

BranchInv ==
  \A t \in Tasks :
    /\ pc[t] = "take" => value[mtx[t]] = 0
    /\ pc[t] = "enqueue" => value[mtx[t]] = 1
    /\ pc[t] = "free" => queue[mtx[t]] = <<>>

AwakeInv ==
  \A t \in Tasks : current = t /\ pc[t] = "slept" => status[t] # "BLOCKED"

IInv ==
  /\ TypeOK /\ CurrentListed /\ ListInv /\ KernelInv /\ QueueInv /\ LockerInv
  /\ BranchInv /\ AwakeInv /\ MutualExclusion /\ NoLostWakeup
=============================================================================
