------------------------------- MODULE StartProofs -------------------------------
(***************************************************************************)
(* Proofs about the start of the kernel: of the part that Smp is, for any  *)
(* CPUs, tables, waiting times and allocations, under SmpAssumption, and   *)
(* of the part that Boot is, for any CPUs and keys, under BootAssumption,  *)
(* and of the part that Display is, for any bus, modes, screen and text,   *)
(* under PciAssumption and DisplayAssumption.                              *)
(*                                                                         *)
(* Handshake is not inductive: SmpInv adds where an answer that is not     *)
(* counted yet comes from (CountInv) and who is inside the page mutex when *)
(* it is taken or has a queue (MutexInv).                                  *)
(*                                                                         *)
(* ObjectsReady is not inductive either: BootInv adds which flags and      *)
(* objects there are at each place of the boot code (OrderInv, MadeInv),   *)
(* who can be inside a getter (GetterInv) and where the frame buffers are  *)
(* (FbInv).  BootTable spells the boot code out so that places have        *)
(* numbers; BootCode proves that it is the code of Boot.                   *)
(*                                                                         *)
(* TextKept needs to know which buffers there are (FrameInv) and that the  *)
(* area drawn on shows the rows of the text as Video has placed them, with *)
(* the cursor on a free cell (PaperInv).  DevicesFound needs how far the   *)
(* walk over the bus has come (WalkInv), that a walk finds the first of    *)
(* what it can come to (FindsFirst), and what the loop of Vesa::query()    *)
(* has chosen after each mode (PickRight).                                 *)
(***************************************************************************)
EXTENDS Start, FiniteSetTheorems, WellFoundedInduction, TLAPS

\* Where the kernel's start and the other CPUs can be.
Steps   == {"search", "copy", "next", "wait", "run", "pages", "stuck", "tasks"}
ApSteps == {"off", "init", "start", "spin", "main", "pages", "stuck", "up"}

\* Types of the variables that the hand-shake uses.
Types ==
  /\ bsp \in [at: Steps, i: Nat, cnt: Nat, tries: Nat]
  /\ lock \in {0, 1} /\ active \in Nat /\ prompt \in SUBSET Present
  /\ ap \in [Present -> ApSteps] /\ esp \in [Present -> Nat]
  /\ mutex \in [value: {0, 1}, queue: BOOLEAN]

\* Before the code is in place no CPU runs, and none before it is initialised.
Early ==
  bsp.at \in {"search", "copy"} =>
    /\ \A c \in Present : ap[c] \in {"off", "init"}
    /\ prompt = {} /\ active = 0

\* The part of the stack area of a CPU is the one of its id; who answered runs.
StackInv ==
  /\ \A c \in Present : S!Running(c) => esp[c] = c
  /\ \A c \in prompt : S!Running(c)

\* The CPUs that run.
Runners(a) == {c \in Present : a[c] \notin {"off", "init", "start"}}

\* An answer that has not been counted yet was given by a CPU that runs, and the answer of the
\* CPU that is waited for is counted next.
CountInv ==
  /\ active <= 1 + Cardinality(Runners(ap))
  /\ S!At("wait") /\ lock # 0 => active <= Cardinality(Runners(ap))
  /\ bsp.at \notin {"search", "copy"} =>
       \/ active >= 1 + Cardinality(prompt)
       \/ /\ S!At("wait") /\ lock # 0 /\ bsp.cnt < MaxCnt
          /\ S!Cpu \in prompt /\ active >= Cardinality(prompt)

\* The CPUs between lock() and unlock() of the page mutex, or stuck there.
Inside(place, a) ==
  {c \in Present : a[c] \in {"pages", "stuck"}} \cup (IF place \in {"pages", "stuck"} THEN {First} ELSE {})

\* A mutex that is taken has somebody inside, one with a queue has two.
MutexInv ==
  /\ mutex.value = 1 => Inside(bsp.at, ap) # {}
  /\ mutex.queue => mutex.value = 1 /\ \E c, d \in Inside(bsp.at, ap) : c # d

\* The inductive invariant.
SmpInv == Types /\ Early /\ StackInv /\ CountInv /\ MutexInv

-----------------------------------------------------------------------------
(* Sets of CPUs                                                              *)

\* There are at most 256 CPUs.
LEMMA FinitePresent ==
  ASSUME S!SmpAssumption
  PROVE  /\ IsFiniteSet(Present) /\ First \notin Present /\ Present \subseteq Nat
         /\ \A K \in SUBSET Present : IsFiniteSet(K) /\ Cardinality(K) \in Nat
<1>0. IsFiniteSet(0..255)
  <2>1. 0 \in Int /\ 255 \in Int
    OBVIOUS
  <2> QED BY <2>1, FS_Interval, Zenon
<1>1. IsFiniteSet(0..255) /\ Present \in SUBSET (0..255) /\ First \notin Present
  BY <1>0 DEF S!SmpAssumption
<1>2. IsFiniteSet(Present)
  BY <1>1, FS_Subset
<1>3. \A K \in SUBSET Present : IsFiniteSet(K) /\ Cardinality(K) \in Nat
  BY <1>2, FS_Subset, FS_CardinalityType
<1> QED BY <1>1, <1>2, <1>3

\* A CPU joins a set of CPUs.
LEMMA OneMore ==
  ASSUME S!SmpAssumption, NEW K \in SUBSET Present, NEW c \in Present, c \notin K
  PROVE  Cardinality(K \cup {c}) = Cardinality(K) + 1 /\ Cardinality(K) \in Nat
BY FinitePresent, FS_AddElement

-----------------------------------------------------------------------------
(* Steps                                                                     *)

\* Every step keeps the types.
LEMMA NextTypes ==
  ASSUME S!SmpAssumption, Types, [S!Next]_(S!vars)
  PROVE  Types'
<1> USE DEF Types
<1>1. Present \subseteq Nat /\ MaxCnt \in Nat
  BY FinitePresent DEF S!SmpAssumption
<1>2. CASE S!Search \/ S!Initialise \/ S!CopyCode
  BY <1>2 DEF S!Search, S!Initialise, S!CopyCode, S!Goto, S!At, S!words, Steps, ApSteps
<1>3. CASE S!SkipOwn \/ S!WaitRound \/ S!Answered \/ S!Failed \/ S!Release
  <2>0. "next" \in Steps /\ bsp.i + 1 \in Nat
    BY DEF Steps
  <2>1. bsp' \in [at: Steps, i: Nat, cnt: Nat, tries: Nat]
    <3>1. CASE S!SkipOwn
      BY <3>1 DEF S!SkipOwn
    <3>2. CASE S!WaitRound
      BY <3>2 DEF S!WaitRound
    <3>3. CASE S!Answered
      BY <3>3, <2>0 DEF S!Answered
    <3>4. CASE S!Failed
      BY <3>4, <2>0 DEF S!Failed
    <3>5. CASE S!Release
      BY <3>5 DEF S!Release, Steps
    <3> QED BY <1>3, <3>1, <3>2, <3>3, <3>4, <3>5
  <2>2. active' \in Nat /\ UNCHANGED <<lock, prompt, ap, esp, mutex>>
    BY <1>3 DEF S!SkipOwn, S!WaitRound, S!Answered, S!Failed, S!Release, S!words
  <2> QED BY <2>1, <2>2
<1>4. CASE S!StartCpu \/ S!Retry
  <2>1. S!Started(S!Cpu) \in [Present -> ApSteps]
    BY DEF S!Started, ApSteps
  <2>2. bsp' \in [at: Steps, i: Nat, cnt: Nat, tries: Nat]
    <3>1. CASE S!StartCpu
      BY <3>1 DEF S!StartCpu, Steps
    <3>2. CASE S!Retry
      BY <3>2 DEF S!Retry
    <3> QED BY <1>4, <3>1, <3>2
  <2>3. lock' \in {0, 1} /\ ap' = S!Started(S!Cpu) /\ UNCHANGED <<active, prompt, esp, mutex>>
    BY <1>4 DEF S!StartCpu, S!Retry, S!words
  <2> QED BY <2>1, <2>2, <2>3
<1>5. ASSUME S!Take \/ S!Enqueue \/ S!Give PROVE mutex' \in [value: {0, 1}, queue: BOOLEAN]
  BY <1>5 DEF S!Take, S!Enqueue, S!Give
<1>6. CASE S!Allocate \/ S!Allocated \/ S!StartTasks
  <2>1. bsp' \in [at: Steps, i: Nat, cnt: Nat, tries: Nat]
    <3>1. CASE S!Allocate \/ S!StartTasks
      BY <3>1 DEF S!Allocate, S!StartTasks, S!Goto, Steps
    <3>2. CASE S!Allocated
      <4>1. bsp' = [bsp EXCEPT !.at = "run", !.cnt = bsp.cnt + 1]
        BY <3>2 DEF S!Allocated
      <4>2. "run" \in Steps /\ bsp.cnt + 1 \in Nat
        BY DEF Steps
      <4> QED BY <4>1, <4>2
    <3> QED BY <1>6, <3>1, <3>2
  <2>2. mutex' \in [value: {0, 1}, queue: BOOLEAN]
    BY <1>5, <1>6 DEF S!Allocate, S!Allocated, S!StartTasks
  <2> QED BY <1>6, <2>1, <2>2 DEF S!Allocate, S!Allocated, S!StartTasks, S!words
<1>7. ASSUME NEW c \in Present, S!Other(c) PROVE Types'
  <2>1. ap' \in [Present -> ApSteps]
    BY <1>7 DEF S!Other, S!Answer, S!Go, S!LockPages, S!Enabled, S!Move, ApSteps
  <2>2. mutex' \in [value: {0, 1}, queue: BOOLEAN]
    BY <1>5, <1>7 DEF S!Other, S!Answer, S!Go, S!LockPages, S!Enabled
  <2>3. esp' \in [Present -> Nat]
    BY <1>1, <1>7 DEF S!Other, S!Answer, S!Go, S!LockPages, S!Enabled
  <2> QED BY <1>7, <2>1, <2>2, <2>3 DEF S!Other, S!Answer, S!Go, S!LockPages, S!Enabled, S!kernel, S!words
<1>8. CASE S!Over \/ UNCHANGED S!vars
  BY <1>8 DEF S!Over, S!vars, S!kernel, S!words
<1> QED BY <1>2, <1>3, <1>4, <1>6, <1>7, <1>8 DEF S!Next, S!Kernel

\* A CPU takes the stack of its id when it starts to run, and nothing takes it away.
LEMMA NextStacks ==
  ASSUME S!SmpAssumption, Types, Early, StackInv, [S!Next]_(S!vars)
  PROVE  Early' /\ StackInv'
<1> USE DEF Types, Early, StackInv, S!Running
<1>2. CASE S!Search \/ S!CopyCode
  BY <1>2 DEF S!Search, S!CopyCode, S!Goto, S!At, S!words, Steps
<1>9. CASE S!Initialise
  BY <1>9 DEF S!Initialise, S!Goto, S!At
<1>3. CASE S!SkipOwn \/ S!WaitRound \/ S!Answered \/ S!Failed \/ S!Release
  BY <1>3 DEF S!SkipOwn, S!WaitRound, S!Answered, S!Failed, S!Release, S!WaitOver, S!At, S!words
<1>4. CASE S!StartCpu \/ S!Retry
  <2>1. \A c \in Present : S!Running(c)' <=> S!Running(c)
    BY <1>4 DEF S!StartCpu, S!Retry, S!Started
  <2>2. bsp'.at \notin {"search", "copy"}
    BY <1>4 DEF S!StartCpu, S!Retry, S!WaitOver, S!At
  <2> QED BY <1>4, <2>1, <2>2 DEF S!StartCpu, S!Retry
<1>6. CASE S!Allocate \/ S!Allocated \/ S!StartTasks
  BY <1>6 DEF S!Allocate, S!Allocated, S!StartTasks, S!At, S!Goto
<1>7. ASSUME NEW c \in Present, S!Other(c) PROVE Early' /\ StackInv'
  <2>1. CASE S!Answer(c)
    BY <2>1 DEF S!Answer, S!Move, S!kernel, S!At, S!Cpu
  <2>2. CASE S!Go(c) \/ S!LockPages(c) \/ S!Enabled(c)
    BY <2>2 DEF S!Go, S!LockPages, S!Enabled, S!Move, S!kernel, S!words
  <2> QED BY <1>7, <2>1, <2>2 DEF S!Other
<1>8. CASE S!Over \/ UNCHANGED S!vars
  BY <1>8 DEF S!Over, S!vars, S!kernel, S!words
<1> QED BY <1>2, <1>3, <1>4, <1>6, <1>7, <1>8, <1>9 DEF S!Next, S!Kernel

\* The word of the answer is cleared before each CPU is started, so an answer is counted once.
LEMMA NextCount ==
  ASSUME S!SmpAssumption, Types, Types', Early, StackInv, CountInv, [S!Next]_(S!vars)
  PROVE  CountInv'
<1> DEFINE r == Cardinality(Runners(ap))
           p == Cardinality(prompt)
           rr == Cardinality(Runners(ap'))
<1>1. /\ r \in Nat /\ p \in Nat /\ rr \in Nat /\ active \in Nat /\ MaxCnt \in Nat /\ bsp.cnt \in Nat
      /\ lock \in {0, 1} /\ bsp \in [at: Steps, i: Nat, cnt: Nat, tries: Nat]
      /\ ap \in [Present -> ApSteps] /\ prompt \in SUBSET Present
  <2>1. Runners(ap) \in SUBSET Present /\ Runners(ap') \in SUBSET Present /\ prompt \in SUBSET Present
    BY DEF Runners, Types
  <2> QED BY <2>1, FinitePresent DEF Types, S!SmpAssumption
<1>2. /\ active <= 1 + r
      /\ bsp.at = "wait" /\ lock # 0 => active <= r
      /\ bsp.at \notin {"search", "copy"} =>
           \/ active >= 1 + p
           \/ bsp.at = "wait" /\ lock # 0 /\ bsp.cnt < MaxCnt /\ S!Cpu \in prompt /\ active >= p
  BY DEF CountInv, S!At
<1> DEFINE Goal == /\ active' <= 1 + rr
                   /\ bsp'.at = "wait" /\ lock' # 0 => active' <= rr
                   /\ bsp'.at \notin {"search", "copy"} =>
                        \/ active' >= 1 + Cardinality(prompt')
                        \/ /\ bsp'.at = "wait" /\ lock' # 0 /\ bsp'.cnt < MaxCnt /\ S!Cpu' \in prompt'
                           /\ active' >= Cardinality(prompt')
<1>3. SUFFICES Goal
  BY DEF CountInv, S!At
<1> HIDE DEF r, p, rr
<1>4. CASE S!Search \/ S!Initialise \/ S!CopyCode
  <2>1. active = 0 /\ prompt = {}
    BY <1>4 DEF S!Search, S!Initialise, S!CopyCode, S!At, Early
  <2>2. prompt' = {} /\ active' \in {0, 1} /\ bsp'.at # "wait"
        /\ (active' = 1 \/ bsp'.at \in {"search", "copy"})
    BY <1>1, <1>4, <2>1 DEF S!Search, S!Initialise, S!CopyCode, S!Goto, S!At, S!words, Steps
  <2>3. Cardinality(prompt') = 0
    BY <2>2, FS_EmptySet
  <2> QED BY <1>1, <2>2, <2>3
<1>5. ASSUME UNCHANGED ap \/ ap' = S!Started(S!Cpu) PROVE rr = r
  <2>1. Runners(ap') = Runners(ap)
    BY <1>5 DEF Runners, S!Started
  <2> QED BY <2>1 DEF rr, r
<1>6. ASSUME UNCHANGED prompt PROVE Cardinality(prompt') = p
  BY <1>6 DEF p
<1>7. CASE S!SkipOwn \/ S!Release
  <2>1. bsp.at = "next" /\ bsp'.at \in {"next", "run"} /\ UNCHANGED <<active, prompt, ap>>
    BY <1>1, <1>7 DEF S!SkipOwn, S!Release, S!At, S!words
  <2> QED BY <1>1, <1>2, <1>5, <1>6, <2>1
<1>8. CASE S!StartCpu
  <2>1. bsp.at = "next" /\ lock' = 0 /\ UNCHANGED <<active, prompt>> /\ ap' = S!Started(S!Cpu)
    BY <1>8 DEF S!StartCpu, S!At
  <2> QED BY <1>1, <1>2, <1>5, <1>6, <2>1
<1>9. CASE S!WaitRound
  <2>1. bsp.at = "wait" /\ lock = 0 /\ UNCHANGED <<active, prompt, ap, lock>>
    BY <1>9 DEF S!WaitRound, S!At, S!words
  <2> QED BY <1>1, <1>2, <1>5, <1>6, <2>1
<1>10. CASE S!Retry \/ S!Failed
  <2>1. /\ bsp.at = "wait" /\ ~(bsp.cnt < MaxCnt) /\ UNCHANGED <<active, prompt, lock>>
        /\ (UNCHANGED ap \/ ap' = S!Started(S!Cpu)) /\ bsp'.at \in {"wait", "next"}
    <3>1. CASE S!Retry
      BY <1>1, <3>1 DEF S!Retry, S!WaitOver, S!At, S!words
    <3>2. CASE S!Failed
      BY <1>1, <3>2 DEF S!Failed, S!WaitOver, S!At, S!words
    <3> QED BY <1>10, <3>1, <3>2
  <2> QED BY <1>1, <1>2, <1>5, <1>6, <2>1
<1>11. CASE S!Answered
  <2>1. bsp.at = "wait" /\ lock # 0 /\ active' = active + 1 /\ UNCHANGED <<ap, prompt>> /\ bsp'.at = "next"
    BY <1>1, <1>11 DEF S!Answered, S!WaitOver, S!At
  <2> QED BY <1>1, <1>2, <1>5, <1>6, <2>1
<1>12. CASE S!Allocate \/ S!Allocated \/ S!StartTasks
  <2>1. /\ bsp.at \in {"run", "pages"} /\ bsp'.at \in {"run", "pages", "stuck", "tasks"}
        /\ UNCHANGED <<active, prompt, ap>>
    BY <1>1, <1>12 DEF S!Allocate, S!Allocated, S!StartTasks, S!At, S!Goto, S!words
  <2> QED BY <1>1, <1>2, <1>5, <1>6, <2>1
<1>13. ASSUME NEW c \in Present, S!Go(c) \/ S!LockPages(c) \/ S!Enabled(c) PROVE Goal
  <2>1. UNCHANGED <<bsp, lock, active, prompt, cpu_ids>>
    BY <1>13 DEF S!Go, S!LockPages, S!Enabled, S!kernel, S!words
  <2>2. Runners(ap') = Runners(ap)
    BY <1>1, <1>13 DEF S!Go, S!LockPages, S!Enabled, S!Move, Runners
  <2> QED BY <1>2, <2>1, <2>2 DEF S!Cpu, r, rr, p
<1>14. ASSUME NEW c \in Present, S!Answer(c) PROVE Goal
  <2>1. /\ UNCHANGED <<bsp, active, cpu_ids>> /\ lock' = 1 /\ ap[c] = "start"
        /\ ap' = [ap EXCEPT ![c] = "spin"] /\ bsp' = bsp /\ S!Cpu' = S!Cpu
        /\ prompt' = IF bsp.at = "wait" /\ S!Cpu = c /\ bsp.cnt < MaxCnt THEN prompt \cup {c} ELSE prompt
    BY <1>14 DEF S!Answer, S!Move, S!kernel, S!At, S!Cpu
  <2>2. c \notin prompt /\ c \notin Runners(ap) /\ Runners(ap) \in SUBSET Present
    BY <2>1 DEF StackInv, S!Running, Runners
  <2>3. rr = r + 1
    <3>1. Runners(ap') = Runners(ap) \cup {c}
      BY <1>1, <2>1 DEF Runners
    <3> QED BY <2>2, <3>1, OneMore DEF r, rr
  <2>4. bsp.at \notin {"search", "copy"}
    BY <2>1 DEF Early
  <2>5. CASE bsp.at = "wait" /\ S!Cpu = c /\ bsp.cnt < MaxCnt
    <3>1. Cardinality(prompt') = p + 1
      BY <1>1, <2>1, <2>2, <2>5, OneMore DEF p
    <3>2. S!Cpu' \in prompt' /\ ~(S!Cpu \in prompt)
      BY <2>1, <2>2, <2>5
    <3>3. active >= 1 + p
      BY <1>2, <2>4, <3>2
    <3> QED BY <1>1, <1>2, <2>1, <2>3, <2>5, <3>1, <3>2, <3>3
  <2>6. CASE ~(bsp.at = "wait" /\ S!Cpu = c /\ bsp.cnt < MaxCnt)
    <3>1. prompt' = prompt
      BY <2>1, <2>6
    <3> QED BY <1>1, <1>2, <1>6, <2>1, <2>3, <2>4, <3>1
  <2> QED BY <2>5, <2>6
<1>15. CASE S!Over \/ UNCHANGED S!vars
  <2>1. UNCHANGED <<bsp, lock, active, prompt, cpu_ids, ap>>
    BY <1>15 DEF S!Over, S!vars, S!kernel, S!words
  <2> QED BY <1>2, <2>1 DEF S!Cpu, r, rr, p
<1> HIDE DEF Goal
<1> QED BY <1>4, <1>7, <1>8, <1>9, <1>10, <1>11, <1>12, <1>13, <1>14, <1>15
        DEF S!Next, S!Kernel, S!Other

\* Who enters without owning the mutex leaves it to be freed by whoever comes out last.
LEMMA NextMutex ==
  ASSUME S!SmpAssumption, Types, Early, MutexInv, [S!Next]_(S!vars)
  PROVE  MutexInv'
<1> DEFINE I == Inside(bsp.at, ap)
           J == Inside(bsp'.at, ap')
<1>1. /\ mutex \in [value: {0, 1}, queue: BOOLEAN] /\ ap \in [Present -> ApSteps]
      /\ bsp \in [at: Steps, i: Nat, cnt: Nat, tries: Nat] /\ First \notin Present
  BY FinitePresent DEF Types
<1>2. /\ mutex.value = 1 => I # {}
      /\ mutex.queue => mutex.value = 1 /\ \E c, d \in I : c # d
  BY DEF MutexInv
<1> DEFINE Goal == /\ mutex'.value = 1 => J # {}
                   /\ mutex'.queue => mutex'.value = 1 /\ \E c, d \in J : c # d
<1>3. SUFFICES Goal
  BY DEF MutexInv
<1>4. ASSUME UNCHANGED mutex, I \subseteq J PROVE Goal
  BY <1>2, <1>4
<1>5. ASSUME NEW x, x \notin I, J = I \cup {x}, S!Take \/ S!Enqueue PROVE Goal
  <2> HIDE DEF I, J
  <2>1. CASE S!Take
    BY <1>1, <1>2, <1>5, <2>1 DEF S!Take
  <2>2. CASE S!Enqueue
    BY <1>1, <1>2, <1>5, <2>2 DEF S!Enqueue
  <2> QED BY <1>5, <2>1, <2>2
<1>6. ASSUME NEW x, x \in I, J = I \ {x}, S!Give PROVE Goal
  <2> HIDE DEF I, J
  <2>1. CASE mutex.queue
    <3>1. PICK c \in I, d \in I : c # d
      BY <1>2, <2>1
    <3>2. c \in J \/ d \in J
      BY <1>6, <3>1
    <3> QED BY <1>1, <1>6, <2>1, <3>2 DEF S!Give
  <2>2. CASE ~mutex.queue
    BY <1>1, <1>6, <2>2 DEF S!Give
  <2> QED BY <2>1, <2>2
<1>7. CASE S!Search \/ S!Initialise \/ S!CopyCode \/ S!SkipOwn \/ S!StartCpu \/ S!WaitRound \/ S!Retry \/ S!Answered
           \/ S!Failed \/ S!Release \/ S!StartTasks
  <2>1. UNCHANGED mutex /\ bsp.at \notin {"pages", "stuck"}
    BY <1>7 DEF S!Search, S!Initialise, S!CopyCode, S!SkipOwn, S!StartCpu, S!WaitRound, S!Retry, S!Answered, S!Failed,
                S!Release, S!StartTasks, S!WaitOver, S!At
  <2>2. ASSUME NEW c \in Present, ap[c] \in {"pages", "stuck"} PROVE ap'[c] = ap[c]
    <3>1. ~S!Initialise
      BY <2>2 DEF S!Initialise, S!At, Early
    <3> QED BY <1>7, <2>2, <3>1 DEF S!Search, S!CopyCode, S!SkipOwn, S!StartCpu, S!WaitRound, S!Retry, S!Answered,
                S!Failed, S!Release, S!StartTasks, S!Started
  <2>3. I \subseteq J
    BY <2>1, <2>2 DEF Inside
  <2> QED BY <1>4, <2>1, <2>3
<1>8. CASE S!Allocate
  <2>1. bsp.at = "run" /\ bsp'.at \in {"pages", "stuck"} /\ UNCHANGED ap /\ (S!Take \/ S!Enqueue)
    BY <1>1, <1>8 DEF S!Allocate, S!At, S!Goto
  <2>2. First \notin I /\ J = I \cup {First}
    BY <1>1, <2>1 DEF Inside
  <2> QED BY <1>5, <2>1, <2>2
<1>9. CASE S!Allocated
  <2>1. bsp.at = "pages" /\ bsp'.at = "run" /\ UNCHANGED ap /\ S!Give
    BY <1>1, <1>9 DEF S!Allocated, S!At
  <2>2. First \in I /\ J = I \ {First}
    BY <1>1, <2>1 DEF Inside
  <2> QED BY <1>6, <2>1, <2>2
<1>10. ASSUME NEW c \in Present, S!Answer(c) \/ S!Go(c) PROVE Goal
  <2>1. UNCHANGED <<mutex, bsp>> /\ \A d \in Present : ap[d] \in {"pages", "stuck"} => ap'[d] = ap[d]
    BY <1>1, <1>10 DEF S!Answer, S!Go, S!Move, S!kernel
  <2>2. I \subseteq J
    BY <2>1 DEF Inside
  <2> QED BY <1>4, <2>1, <2>2
<1>11. ASSUME NEW c \in Present, S!LockPages(c) PROVE Goal
  <2>1. PICK step \in {"pages", "stuck"} : ap' = [ap EXCEPT ![c] = step]
    BY <1>11 DEF S!LockPages, S!Move
  <2>2. UNCHANGED bsp /\ ap[c] = "main" /\ (S!Take \/ S!Enqueue)
    BY <1>11 DEF S!LockPages, S!kernel
  <2>3. c \notin I /\ J = I \cup {c}
    BY <1>1, <2>1, <2>2 DEF Inside
  <2> QED BY <1>5, <2>2, <2>3
<1>12. ASSUME NEW c \in Present, S!Enabled(c) PROVE Goal
  <2>1. UNCHANGED bsp /\ ap[c] = "pages" /\ S!Give /\ ap' = [ap EXCEPT ![c] = "up"]
    BY <1>12 DEF S!Enabled, S!kernel, S!Move
  <2>2. c \in I /\ J = I \ {c}
    BY <1>1, <2>1 DEF Inside
  <2> QED BY <1>6, <2>1, <2>2
<1>13. CASE S!Over \/ UNCHANGED S!vars
  <2>1. UNCHANGED <<bsp, mutex, ap>>
    BY <1>13 DEF S!Over, S!vars, S!kernel
  <2> QED BY <1>4, <2>1
<1> HIDE DEF Goal
<1> QED BY <1>7, <1>8, <1>9, <1>10, <1>11, <1>12, <1>13 DEF S!Next, S!Kernel, S!Other

-----------------------------------------------------------------------------
(* Results                                                                   *)

\* The invariant holds at the start.
LEMMA InitSmp ==
  ASSUME S!SmpAssumption, S!Init
  PROVE  SmpInv
<1>1. Types
  BY DEF S!Init, Types, Steps, ApSteps
<1>2. Early /\ StackInv
  BY DEF S!Init, Early, StackInv, S!Running
<1>3. Cardinality(Runners(ap)) \in Nat
  <2>1. Runners(ap) \in SUBSET Present
    BY DEF Runners
  <2> QED BY <2>1, FinitePresent
<1>4. CountInv
  BY <1>3 DEF S!Init, CountInv, S!At
<1>5. MutexInv
  BY DEF S!Init, MutexInv
<1> QED BY <1>1, <1>2, <1>4, <1>5 DEF SmpInv

\* Smp counts as everybody does.
LEMMA SameCount == ASSUME NEW K PROVE S!Cardinality(K) = Cardinality(K)
BY DEF S!Cardinality, Cardinality, S!IsFiniteSet, IsFiniteSet

\* What is shared follows from it.
LEMMA SmpShared ==
  ASSUME S!SmpAssumption, SmpInv
  PROVE  S!Handshake
<1>1. Present \subseteq Nat /\ First \notin Present /\ MaxCpus \in Nat
  BY FinitePresent DEF S!SmpAssumption
<1>2. S!StacksApart
  BY <1>1 DEF SmpInv, StackInv, S!StacksApart
<1>3. {c \in Present : S!Running(c)} = Runners(ap)
  BY DEF S!Running, Runners
<1>4. S!CountRight
  <2>1. S!Cardinality({c \in Present : S!Running(c)}) = Cardinality(Runners(ap))
    BY <1>3, SameCount
  <2>2. S!Cardinality(prompt) = Cardinality(prompt)
    BY SameCount
  <2> QED BY <2>1, <2>2 DEF SmpInv, CountInv, S!CountRight, S!At
<1>5. S!MutexFreed
  <2> SUFFICES ASSUME bsp.at \notin {"pages", "stuck"},
                      \A c \in Present : ap[c] \notin {"pages", "stuck"}
               PROVE  mutex = [value |-> 0, queue |-> FALSE]
    BY DEF S!MutexFreed
  <2>1. Inside(bsp.at, ap) = {}
    BY DEF Inside
  <2> QED BY <2>1 DEF SmpInv, MutexInv, Types
<1> QED BY <1>2, <1>4, <1>5 DEF S!Handshake

\* For any CPUs, tables and waiting times, and however late a CPU answers, the CPUs that run have
\* stacks of their own, initSMP_CPUS() counts those that answered in time and none that does not
\* run, and the page mutex is free again when no CPU is inside.
THEOREM StartIsShared == StartSpec => []Handshake
<1> USE StartAssumption DEF StartAssumption
<1>1. S!Init => SmpInv
  BY InitSmp
<1>2. SmpInv /\ [S!Next]_(S!vars) => SmpInv'
  <2> SUFFICES ASSUME SmpInv, [S!Next]_(S!vars) PROVE SmpInv'
    OBVIOUS
  <2>1. Types'
    BY NextTypes DEF SmpInv
  <2>2. Early' /\ StackInv'
    BY NextStacks DEF SmpInv
  <2>3. CountInv' /\ MutexInv'
    BY <2>1, NextCount, NextMutex DEF SmpInv
  <2> QED BY <2>1, <2>2, <2>3 DEF SmpInv
<1>3. SmpInv => S!Handshake
  BY SmpShared
<1>4. StartInit => S!Init
  BY DEF StartInit
<1>5. [StartNext]_all => [S!Next]_(S!vars)
  BY DEF StartNext, Devices, Others, Objects, all, cpus, S!vars, S!kernel, S!words
<1> QED BY <1>1, <1>2, <1>3, <1>4, <1>5, PTL DEF StartSpec, Handshake

-----------------------------------------------------------------------------
(* The code of the first CPU, operation by operation                         *)

\* The boot code as one sequence.
BootTable ==
  << Get("video"), Global("video"), Get("idt"), Global("idt"), Do("gates"),
     Get("timer"), Global("timer"), Do("serial"), Do("paging"), Get("kb"), Global("kb"),
     Do("frequency"), Do("sti"), Get("cpu"),
     Get("video"), Do("serial"), Get("fb"), Do("use"),
     Do("sleep"), Do("release"), Do("settle"),
     Get("video"), Do("serial"), Get("fb"), Do("use"),
     Get("fb"), Do("use"), Get("fb"), Do("initialize"), Do("delete"), Do("vesa"),
     Get("video"), Do("serial"), Get("fb"), Do("use"),
     Get("vfs"), Get("pci"),
     Get("video"), Do("serial"), Get("fb"), Do("use"),
     Get("ata"), Get("pci"),
     Get("video"), Do("serial"), Get("fb"), Do("use"),
     Do("syscall"), Get("pm"), Get("task"), Do("run") >>

Operations == {BootTable[n] : n \in 1..51}

\* The sequence s of length l stands behind place k of the boot code.
Fits(s, k, l) ==
  s \in Seq(Operations) /\ Len(s) = l /\ \A i \in 1..l : s[i] = BootTable[k + i]

\* What stands behind each other in the table can be put together.
LEMMA Joined ==
  ASSUME NEW s, NEW t, NEW k \in Nat, NEW m \in Nat, NEW i \in Nat, NEW j \in Nat, NEW n \in Nat,
         Fits(s, k, i), Fits(t, m, j), m = k + i, n = i + j
  PROVE  Fits(s \o t, k, n)
<1>1. /\ s \in Seq(Operations) /\ Len(s) = i /\ \A x \in 1..i : s[x] = BootTable[k + x]
      /\ t \in Seq(Operations) /\ Len(t) = j /\ \A x \in 1..j : t[x] = BootTable[m + x]
  BY DEF Fits
<1>2. s \o t \in Seq(Operations) /\ Len(s \o t) = n
  BY <1>1
<1>3. /\ \A x \in 1..n : x <= i => (s \o t)[x] = s[x]
      /\ \A x \in 1..n : x > i => (s \o t)[x] = t[x - i]
  BY <1>1
<1>4. ASSUME NEW x \in 1..n PROVE (s \o t)[x] = BootTable[k + x]
  <2>1. CASE x <= i
    BY <2>1, <1>1, <1>3
  <2>2. CASE x > i
    <3> DEFINE y == x - i
    <3>1. y \in 1..j /\ m + y = k + x
      BY <2>2
    <3>2. (s \o t)[x] = t[y]
      BY <2>2, <1>3
    <3> HIDE DEF y
    <3>3. t[y] = BootTable[m + y]
      BY <3>1, <1>1
    <3>4. BootTable[m + y] = BootTable[k + x]
      BY <3>1
    <3> QED BY <3>2, <3>3, <3>4
  <2>3. x <= i \/ x > i
    OBVIOUS
  <2> QED BY <2>1, <2>2, <2>3, Zenon
<1> QED BY <1>2, <1>4 DEF Fits

\* The operation a stands at place n.
Entry(n, a) == n \in 1..51 /\ BootTable[n] = a

\* Single operations, and pieces of two, three and four of them.
LEMMA One ==
  ASSUME NEW k \in Nat, NEW m, m = k + 1, NEW a, Entry(m, a)
  PROVE  Fits(<<a>>, k, 1)
<1>1. a \in Operations /\ BootTable[k + 1] = a
  BY DEF Entry, Operations
<1>2. <<a>> \in Seq(Operations) /\ Len(<<a>>) = 1 /\ <<a>>[1] = a
  BY <1>1
<1>3. \A i \in 1..1 : i = 1
  OBVIOUS
<1> QED BY <1>1, <1>2, <1>3 DEF Fits

\* Two operations that stand behind each other.
LEMMA Two ==
  ASSUME NEW k \in Nat, NEW m, m = k + 1, NEW n, n = k + 2, NEW a, NEW b, Entry(m, a), Entry(n, b)
  PROVE  Fits(<<a, b>>, k, 2)
<1>1. a \in Operations /\ BootTable[k + 1] = a
  BY DEF Entry, Operations
<1>2. b \in Operations /\ BootTable[k + 2] = b
  BY DEF Entry, Operations
<1>3. <<a, b>> \in Seq(Operations) /\ Len(<<a, b>>) = 2 /\ <<a, b>>[1] = a /\ <<a, b>>[2] = b
  BY <1>1, <1>2
<1>4. \A i \in 1..2 : i = 1 \/ i = 2
  OBVIOUS
<1> QED BY <1>1, <1>2, <1>3, <1>4 DEF Fits

\* Three of them.
LEMMA Three ==
  ASSUME NEW k \in Nat, NEW m, m = k + 1, NEW n, n = k + 2, NEW o, o = k + 3,
         NEW a, NEW b, NEW c, Entry(m, a), Entry(n, b), Entry(o, c)
  PROVE  Fits(<<a, b, c>>, k, 3)
<1>1. /\ a \in Operations /\ BootTable[k + 1] = a
      /\ b \in Operations /\ BootTable[k + 2] = b
      /\ c \in Operations /\ BootTable[k + 3] = c
  BY DEF Entry, Operations
<1>2. /\ <<a, b, c>> \in Seq(Operations) /\ Len(<<a, b, c>>) = 3
      /\ <<a, b, c>>[1] = a /\ <<a, b, c>>[2] = b /\ <<a, b, c>>[3] = c
  BY <1>1
<1>3. \A i \in 1..3 : i = 1 \/ i = 2 \/ i = 3
  OBVIOUS
<1> QED BY <1>1, <1>2, <1>3 DEF Fits

\* Four of them.
LEMMA Four ==
  ASSUME NEW k \in Nat, NEW m, m = k + 1, NEW n, n = k + 2, NEW o, o = k + 3, NEW p, p = k + 4,
         NEW a, NEW b, NEW c, NEW d, Entry(m, a), Entry(n, b), Entry(o, c), Entry(p, d)
  PROVE  Fits(<<a, b, c, d>>, k, 4)
<1>1. /\ a \in Operations /\ BootTable[k + 1] = a
      /\ b \in Operations /\ BootTable[k + 2] = b
      /\ c \in Operations /\ BootTable[k + 3] = c
      /\ d \in Operations /\ BootTable[k + 4] = d
  BY DEF Entry, Operations
<1>2. /\ <<a, b, c, d>> \in Seq(Operations) /\ Len(<<a, b, c, d>>) = 4
      /\ <<a, b, c, d>>[1] = a /\ <<a, b, c, d>>[2] = b
      /\ <<a, b, c, d>>[3] = c /\ <<a, b, c, d>>[4] = d
  BY <1>1
<1>3. \A i \in 1..4 : i = 1 \/ i = 2 \/ i = 3 \/ i = 4
  OBVIOUS
<1> QED BY <1>1, <1>2, <1>3 DEF Fits

\* The operations one by one.
LEMMA Entries ==
  /\ Entry(1, Get("video")) /\ Entry(2, Global("video")) /\ Entry(3, Get("idt"))
  /\ Entry(4, Global("idt")) /\ Entry(5, Do("gates")) /\ Entry(6, Get("timer"))
  /\ Entry(7, Global("timer")) /\ Entry(8, Do("serial")) /\ Entry(9, Do("paging"))
  /\ Entry(10, Get("kb")) /\ Entry(11, Global("kb")) /\ Entry(12, Do("frequency"))
  /\ Entry(13, Do("sti")) /\ Entry(14, Get("cpu")) /\ Entry(15, Get("video"))
  /\ Entry(16, Do("serial")) /\ Entry(17, Get("fb")) /\ Entry(18, Do("use"))
  /\ Entry(19, Do("sleep")) /\ Entry(20, Do("release")) /\ Entry(21, Do("settle"))
  /\ Entry(22, Get("video")) /\ Entry(23, Do("serial")) /\ Entry(24, Get("fb"))
  /\ Entry(25, Do("use")) /\ Entry(26, Get("fb")) /\ Entry(27, Do("use"))
  /\ Entry(28, Get("fb")) /\ Entry(29, Do("initialize")) /\ Entry(30, Do("delete"))
  /\ Entry(31, Do("vesa")) /\ Entry(32, Get("video")) /\ Entry(33, Do("serial"))
  /\ Entry(34, Get("fb")) /\ Entry(35, Do("use")) /\ Entry(36, Get("vfs"))
  /\ Entry(37, Get("pci")) /\ Entry(38, Get("video")) /\ Entry(39, Do("serial"))
  /\ Entry(40, Get("fb")) /\ Entry(41, Do("use")) /\ Entry(42, Get("ata"))
  /\ Entry(43, Get("pci")) /\ Entry(44, Get("video")) /\ Entry(45, Do("serial"))
  /\ Entry(46, Get("fb")) /\ Entry(47, Do("use")) /\ Entry(48, Do("syscall"))
  /\ Entry(49, Get("pm")) /\ Entry(50, Get("task")) /\ Entry(51, Do("run"))
<1>1. Entry(1, Get("video")) /\ Entry(2, Global("video")) /\ Entry(3, Get("idt"))
  BY DEF Entry, BootTable
<1>2. Entry(4, Global("idt")) /\ Entry(5, Do("gates")) /\ Entry(6, Get("timer"))
  BY DEF Entry, BootTable
<1>3. Entry(7, Global("timer")) /\ Entry(8, Do("serial")) /\ Entry(9, Do("paging"))
  BY DEF Entry, BootTable
<1>4. Entry(10, Get("kb")) /\ Entry(11, Global("kb")) /\ Entry(12, Do("frequency"))
  BY DEF Entry, BootTable
<1>5. Entry(13, Do("sti")) /\ Entry(14, Get("cpu")) /\ Entry(15, Get("video"))
  BY DEF Entry, BootTable
<1>6. Entry(16, Do("serial")) /\ Entry(17, Get("fb")) /\ Entry(18, Do("use"))
  BY DEF Entry, BootTable
<1>7. Entry(19, Do("sleep")) /\ Entry(20, Do("release")) /\ Entry(21, Do("settle"))
  BY DEF Entry, BootTable
<1>8. Entry(22, Get("video")) /\ Entry(23, Do("serial")) /\ Entry(24, Get("fb"))
  BY DEF Entry, BootTable
<1>9. Entry(25, Do("use")) /\ Entry(26, Get("fb")) /\ Entry(27, Do("use"))
  BY DEF Entry, BootTable
<1>10. Entry(28, Get("fb")) /\ Entry(29, Do("initialize")) /\ Entry(30, Do("delete"))
  BY DEF Entry, BootTable
<1>11. Entry(31, Do("vesa")) /\ Entry(32, Get("video")) /\ Entry(33, Do("serial"))
  BY DEF Entry, BootTable
<1>12. Entry(34, Get("fb")) /\ Entry(35, Do("use")) /\ Entry(36, Get("vfs"))
  BY DEF Entry, BootTable
<1>13. Entry(37, Get("pci")) /\ Entry(38, Get("video")) /\ Entry(39, Do("serial"))
  BY DEF Entry, BootTable
<1>14. Entry(40, Get("fb")) /\ Entry(41, Do("use")) /\ Entry(42, Get("ata"))
  BY DEF Entry, BootTable
<1>15. Entry(43, Get("pci")) /\ Entry(44, Get("video")) /\ Entry(45, Do("serial"))
  BY DEF Entry, BootTable
<1>16. Entry(46, Get("fb")) /\ Entry(47, Do("use")) /\ Entry(48, Do("syscall"))
  BY DEF Entry, BootTable
<1>17. Entry(49, Get("pm")) /\ Entry(50, Get("task")) /\ Entry(51, Do("run"))
  BY DEF Entry, BootTable
<1> QED BY <1>1, <1>2, <1>3, <1>4, <1>5, <1>6, <1>7, <1>8, <1>9, <1>10, <1>11, <1>12, <1>13, <1>14, <1>15, <1>16, <1>17

\* The pieces of the boot code that return a pointer or print a line.
LEMMA Pieces ==
  /\ Fits(VideoGet, 0, 2)
  /\ Fits(IdtGet, 2, 2)
  /\ Fits(TimerGet, 5, 2)
  /\ Fits(PagingInit, 7, 2)
  /\ Fits(KbGet, 9, 2)
  /\ Fits(PrintLine, 14, 4) /\ Fits(PrintLine, 21, 4) /\ Fits(PrintLine, 31, 4)
  /\ Fits(PrintLine, 37, 4) /\ Fits(PrintLine, 43, 4)
<1>1. Fits(VideoGet, 0, 2)
  <2>1. Entry(1, Get("video")) /\ Entry(2, Global("video"))
    BY Entries
  <2>2. Fits(<<Get("video"), Global("video")>>, 0, 2)
    BY <2>1, Two
  <2> QED BY <2>2 DEF VideoGet, PlatformVideo
<1>2. Fits(IdtGet, 2, 2)
  <2>1. Entry(3, Get("idt")) /\ Entry(4, Global("idt"))
    BY Entries
  <2>2. Fits(<<Get("idt"), Global("idt")>>, 2, 2)
    BY <2>1, Two
  <2> QED BY <2>2 DEF IdtGet, PlatformIdt
<1>3. Fits(TimerGet, 5, 2)
  <2>1. Entry(6, Get("timer")) /\ Entry(7, Global("timer"))
    BY Entries
  <2>2. Fits(<<Get("timer"), Global("timer")>>, 5, 2)
    BY <2>1, Two
  <2> QED BY <2>2 DEF TimerGet, PlatformTimer
<1>4. Fits(PagingInit, 7, 2)
  <2>1. Entry(8, Do("serial")) /\ Entry(9, Do("paging"))
    BY Entries
  <2>2. Fits(<<Do("serial"), Do("paging")>>, 7, 2)
    BY <2>1, Two
  <2> QED BY <2>2 DEF PagingInit
<1>5. Fits(KbGet, 9, 2)
  <2>1. Entry(10, Get("kb")) /\ Entry(11, Global("kb"))
    BY Entries
  <2>2. Fits(<<Get("kb"), Global("kb")>>, 9, 2)
    BY <2>1, Two
  <2> QED BY <2>2 DEF KbGet, PlatformKb
<1>6. Fits(PrintLine, 14, 4)
  <2>1. Entry(15, Get("video")) /\ Entry(16, Do("serial")) /\ Entry(17, Get("fb")) /\ Entry(18, Do("use"))
    BY Entries
  <2>2. Fits(<<Get("video"), Do("serial"), Get("fb"), Do("use")>>, 14, 4)
    BY <2>1, Four
  <2> QED BY <2>2 DEF PrintLine, PlatformVideo, PlatformFb
<1>7. Fits(PrintLine, 21, 4)
  <2>1. Entry(22, Get("video")) /\ Entry(23, Do("serial")) /\ Entry(24, Get("fb")) /\ Entry(25, Do("use"))
    BY Entries
  <2>2. Fits(<<Get("video"), Do("serial"), Get("fb"), Do("use")>>, 21, 4)
    BY <2>1, Four
  <2> QED BY <2>2 DEF PrintLine, PlatformVideo, PlatformFb
<1>8. Fits(PrintLine, 31, 4)
  <2>1. Entry(32, Get("video")) /\ Entry(33, Do("serial")) /\ Entry(34, Get("fb")) /\ Entry(35, Do("use"))
    BY Entries
  <2>2. Fits(<<Get("video"), Do("serial"), Get("fb"), Do("use")>>, 31, 4)
    BY <2>1, Four
  <2> QED BY <2>2 DEF PrintLine, PlatformVideo, PlatformFb
<1>9. Fits(PrintLine, 37, 4)
  <2>1. Entry(38, Get("video")) /\ Entry(39, Do("serial")) /\ Entry(40, Get("fb")) /\ Entry(41, Do("use"))
    BY Entries
  <2>2. Fits(<<Get("video"), Do("serial"), Get("fb"), Do("use")>>, 37, 4)
    BY <2>1, Four
  <2> QED BY <2>2 DEF PrintLine, PlatformVideo, PlatformFb
<1>10. Fits(PrintLine, 43, 4)
  <2>1. Entry(44, Get("video")) /\ Entry(45, Do("serial")) /\ Entry(46, Get("fb")) /\ Entry(47, Do("use"))
    BY Entries
  <2>2. Fits(<<Get("video"), Do("serial"), Get("fb"), Do("use")>>, 43, 4)
    BY <2>1, Four
  <2> QED BY <2>2 DEF PrintLine, PlatformVideo, PlatformFb
<1> QED BY <1>1, <1>2, <1>3, <1>4, <1>5, <1>6, <1>7, <1>8, <1>9, <1>10

\* The constructor of Kernel is the first part of the table.
LEMMA KernelPiece == Fits(Kernel, 0, 25)
<1> USE Pieces
<1>1. Fits(<<Do("gates")>>, 4, 1)
  <2>1. Entry(5, Do("gates"))
    BY Entries
  <2>2. Fits(<<Do("gates")>>, 4, 1)
    BY <2>1, One
  <2> QED BY <2>2
<1>2. Fits(<<Do("frequency"), Do("sti")>>, 11, 2)
  <2>1. Entry(12, Do("frequency")) /\ Entry(13, Do("sti"))
    BY Entries
  <2>2. Fits(<<Do("frequency"), Do("sti")>>, 11, 2)
    BY <2>1, Two
  <2> QED BY <2>2
<1>3. Fits(<<PlatformCpu>>, 13, 1)
  <2>1. Entry(14, Get("cpu"))
    BY Entries
  <2>2. Fits(<<Get("cpu")>>, 13, 1)
    BY <2>1, One
  <2> QED BY <2>2 DEF PlatformCpu
<1>4. Fits(<<Do("sleep"), Do("release"), Do("settle")>>, 18, 3)
  <2>1. Entry(19, Do("sleep")) /\ Entry(20, Do("release")) /\ Entry(21, Do("settle"))
    BY Entries
  <2>2. Fits(<<Do("sleep"), Do("release"), Do("settle")>>, 18, 3)
    BY <2>1, Three
  <2> QED BY <2>2
<1> DEFINE i1 == <<PlatformCpu>> \o PrintLine
           i2 == i1 \o <<Do("sleep"), Do("release"), Do("settle")>>
           i3 == i2 \o PrintLine
           k1 == VideoGet \o IdtGet
           k2 == k1 \o <<Do("gates")>>
           k3 == k2 \o TimerGet
           k4 == k3 \o PagingInit
           k5 == k4 \o KbGet
           k6 == k5 \o <<Do("frequency"), Do("sti")>>
           k7 == k6 \o InitSMP
<1>5. Fits(i1, 13, 5)
  BY <1>3, Joined
<1>6. Fits(i2, 13, 8)
  <2> HIDE DEF i1
  <2> QED BY <1>4, <1>5, Joined
<1>7. Fits(i3, 13, 12)
  <2> HIDE DEF i2
  <2> QED BY <1>6, Joined
<1>8. InitSMP = i3
  BY DEF InitSMP
<1>9. Fits(k1, 0, 4)
  BY Joined
<1>10. Fits(k2, 0, 5)
  <2> HIDE DEF k1
  <2> QED BY <1>1, <1>9, Joined
<1>11. Fits(k3, 0, 7)
  <2> HIDE DEF k2
  <2> QED BY <1>10, Joined
<1>12. Fits(k4, 0, 9)
  <2> HIDE DEF k3
  <2> QED BY <1>11, Joined
<1>13. Fits(k5, 0, 11)
  <2> HIDE DEF k4
  <2> QED BY <1>12, Joined
<1>14. Fits(k6, 0, 13)
  <2> HIDE DEF k5
  <2> QED BY <1>2, <1>13, Joined
<1>15. Fits(k7, 0, 25)
  <2> HIDE DEF k6, i3
  <2> QED BY <1>14, <1>8, <1>7, Joined
<1> QED BY <1>15 DEF Kernel

\* Kernel::run() is the rest.
LEMMA RunPiece == Fits(KernelRun, 25, 26)
<1> USE Pieces
<1>1. Fits(<<PlatformFb, Do("use")>>, 25, 2)
  <2>1. Entry(26, Get("fb")) /\ Entry(27, Do("use"))
    BY Entries
  <2>2. Fits(<<Get("fb"), Do("use")>>, 25, 2)
    BY <2>1, Two
  <2> QED BY <2>2 DEF PlatformFb
<1>2. Fits(InitFrameBuffer, 27, 4)
  <2>1. Entry(28, Get("fb")) /\ Entry(29, Do("initialize")) /\ Entry(30, Do("delete")) /\ Entry(31, Do("vesa"))
    BY Entries
  <2>2. Fits(<<Get("fb"), Do("initialize"), Do("delete"), Do("vesa")>>, 27, 4)
    BY <2>1, Four
  <2> QED BY <2>2 DEF InitFrameBuffer, PlatformFb
<1>3. Fits(InitFileSystem, 35, 1)
  <2>1. Entry(36, Get("vfs"))
    BY Entries
  <2>2. Fits(<<Get("vfs")>>, 35, 1)
    BY <2>1, One
  <2> QED BY <2>2 DEF InitFileSystem, PlatformVfs
<1>4. Fits(<<PlatformPci>>, 36, 1)
  <2>1. Entry(37, Get("pci"))
    BY Entries
  <2>2. Fits(<<Get("pci")>>, 36, 1)
    BY <2>1, One
  <2> QED BY <2>2 DEF PlatformPci
<1>5. Fits(<<PlatformAta, PlatformPci>>, 41, 2)
  <2>1. Entry(42, Get("ata")) /\ Entry(43, Get("pci"))
    BY Entries
  <2>2. Fits(<<Get("ata"), Get("pci")>>, 41, 2)
    BY <2>1, Two
  <2> QED BY <2>2 DEF PlatformPci, PlatformAta
<1>6. Fits(InitSysCall, 47, 1)
  <2>1. Entry(48, Do("syscall"))
    BY Entries
  <2>2. Fits(<<Do("syscall")>>, 47, 1)
    BY <2>1, One
  <2> QED BY <2>2 DEF InitSysCall
<1>7. Fits(StartProcessManager, 48, 3)
  <2>1. Entry(49, Get("pm")) /\ Entry(50, Get("task")) /\ Entry(51, Do("run"))
    BY Entries
  <2>2. Fits(<<Get("pm"), Get("task"), Do("run")>>, 48, 3)
    BY <2>1, Three
  <2> QED BY <2>2 DEF StartProcessManager, ProcessManager, PlatformTask
<1> DEFINE v1 == <<PlatformFb, Do("use")>> \o InitFrameBuffer
           v2 == v1 \o PrintLine
           p1 == <<PlatformPci>> \o PrintLine
           a1 == <<PlatformAta, PlatformPci>> \o PrintLine
           r1 == InitVideo \o InitFileSystem
           r2 == r1 \o InitPCI
           r3 == r2 \o InitATA
           r4 == r3 \o InitSysCall
           r5 == r4 \o StartProcessManager
<1>8. Fits(v1, 25, 6)
  BY <1>1, <1>2, Joined
<1>9. Fits(v2, 25, 10)
  <2> HIDE DEF v1
  <2> QED BY <1>8, Joined
<1>10. Fits(InitVideo, 25, 10)
  BY <1>9 DEF InitVideo
<1>11. Fits(p1, 36, 5)
  BY <1>4, Joined
<1>12. Fits(a1, 41, 6)
  BY <1>5, Joined
<1>13. Fits(r1, 25, 11)
  BY <1>3, <1>10, Joined
<1>14. Fits(r2, 25, 16)
  <2> HIDE DEF r1
  <2> QED BY <1>13, <1>11, Joined DEF InitPCI
<1>15. Fits(r3, 25, 22)
  <2> HIDE DEF r2
  <2> QED BY <1>14, <1>12, Joined DEF InitATA
<1>16. Fits(r4, 25, 23)
  <2> HIDE DEF r3
  <2> QED BY <1>15, <1>6, Joined
<1>17. Fits(r5, 25, 26)
  <2> HIDE DEF r4
  <2> QED BY <1>16, <1>7, Joined
<1> QED BY <1>17 DEF KernelRun

\* The boot code is what the table says.
LEMMA BootCode ==
  /\ Len(Code("boot")) = 51
  /\ \A n \in 1..51 : Code("boot")[n] = BootTable[n]
<1>1. Code("boot") = Kernel \o KernelRun
  BY DEF Code
<1>2. Fits(Kernel \o KernelRun, 0, 51)
  BY KernelPiece, RunPiece, Joined

<1>3. \A n \in 1..51 : 0 + n = n
  OBVIOUS
<1> QED BY <1>1, <1>2, <1>3 DEF Fits

\* Where the boot code does what, as far as it matters.
Shape(n, o, d) ==
  /\ o = "get" => d \in Devs
  /\ o = "get" /\ d = "video" => n = 1 \/ n >= 15
  /\ o = "get" /\ d = "idt" => n = 3
  /\ o = "get" /\ d = "timer" => n = 6
  /\ o = "get" /\ d = "kb" => n = 10
  /\ o = "get" /\ d = "fb" => n >= 17
  /\ o = "get" /\ d = "pci" => n > 17
  /\ o = "global" => <<n, d>> \in {<<2, "video">>, <<4, "idt">>, <<7, "timer">>, <<11, "kb">>}
  /\ n \in {1, 3, 6, 10, 17, 36, 50} => o = "get"
  /\ n = 1 => d = "video"
  /\ n = 3 => d = "idt"
  /\ n = 6 => d = "timer"
  /\ n = 10 => d = "kb"
  /\ n = 17 => d = "fb"
  /\ n = 36 => d = "vfs"
  /\ n = 50 => d = "task"
  /\ n = 11 => o = "global"
  /\ n = 9 => o = "paging"
  /\ n = 21 => o = "settle"
  /\ n \in {30, 31} => o \in {"delete", "vesa"}
  /\ o = "sti" => n = 13
  /\ o = "release" => n = 20
  /\ o = "settle" => n = 21
  /\ o = "initialize" => n = 29
  /\ o = "delete" => n = 30
  /\ o = "vesa" => n = 31
  /\ o = "run" => n = 51
  /\ o # "addapp"
  /\ d \notin {"random", "realtime"}

\* What the boot code does at a place has the shape that its place asks for.
LEMMA BootPlace ==
  ASSUME NEW n \in 1..51
  PROVE  Shape(n, Code("boot")[n].op, Code("boot")[n].dev)
<1> DEFINE o == BootTable[n].op
           d == BootTable[n].dev
<1>1. Code("boot")[n].op = o /\ Code("boot")[n].dev = d
  BY BootCode
<1>2.
  \/ n = 1 /\ o = "get" /\ d = "video"
  \/ n = 2 /\ o = "global" /\ d = "video"
  \/ n = 3 /\ o = "get" /\ d = "idt"
  \/ n = 4 /\ o = "global" /\ d = "idt"
  \/ n = 5 /\ o = "gates" /\ d = "none"
  \/ n = 6 /\ o = "get" /\ d = "timer"
  \/ n = 7 /\ o = "global" /\ d = "timer"
  \/ n = 8 /\ o = "serial" /\ d = "none"
  \/ n = 9 /\ o = "paging" /\ d = "none"
  \/ n = 10 /\ o = "get" /\ d = "kb"
  \/ n = 11 /\ o = "global" /\ d = "kb"
  \/ n = 12 /\ o = "frequency" /\ d = "none"
  \/ n = 13 /\ o = "sti" /\ d = "none"
  \/ n = 14 /\ o = "get" /\ d = "cpu"
  \/ n = 15 /\ o = "get" /\ d = "video"
  \/ n = 16 /\ o = "serial" /\ d = "none"
  \/ n = 17 /\ o = "get" /\ d = "fb"
  \/ n = 18 /\ o = "use" /\ d = "none"
  \/ n = 19 /\ o = "sleep" /\ d = "none"
  \/ n = 20 /\ o = "release" /\ d = "none"
  \/ n = 21 /\ o = "settle" /\ d = "none"
  \/ n = 22 /\ o = "get" /\ d = "video"
  \/ n = 23 /\ o = "serial" /\ d = "none"
  \/ n = 24 /\ o = "get" /\ d = "fb"
  \/ n = 25 /\ o = "use" /\ d = "none"
  \/ n = 26 /\ o = "get" /\ d = "fb"
  \/ n = 27 /\ o = "use" /\ d = "none"
  \/ n = 28 /\ o = "get" /\ d = "fb"
  \/ n = 29 /\ o = "initialize" /\ d = "none"
  \/ n = 30 /\ o = "delete" /\ d = "none"
  \/ n = 31 /\ o = "vesa" /\ d = "none"
  \/ n = 32 /\ o = "get" /\ d = "video"
  \/ n = 33 /\ o = "serial" /\ d = "none"
  \/ n = 34 /\ o = "get" /\ d = "fb"
  \/ n = 35 /\ o = "use" /\ d = "none"
  \/ n = 36 /\ o = "get" /\ d = "vfs"
  \/ n = 37 /\ o = "get" /\ d = "pci"
  \/ n = 38 /\ o = "get" /\ d = "video"
  \/ n = 39 /\ o = "serial" /\ d = "none"
  \/ n = 40 /\ o = "get" /\ d = "fb"
  \/ n = 41 /\ o = "use" /\ d = "none"
  \/ n = 42 /\ o = "get" /\ d = "ata"
  \/ n = 43 /\ o = "get" /\ d = "pci"
  \/ n = 44 /\ o = "get" /\ d = "video"
  \/ n = 45 /\ o = "serial" /\ d = "none"
  \/ n = 46 /\ o = "get" /\ d = "fb"
  \/ n = 47 /\ o = "use" /\ d = "none"
  \/ n = 48 /\ o = "syscall" /\ d = "none"
  \/ n = 49 /\ o = "get" /\ d = "pm"
  \/ n = 50 /\ o = "get" /\ d = "task"
  \/ n = 51 /\ o = "run" /\ d = "none"
  BY Entries DEF Entry, Get, Global, Do
<1> HIDE DEF o, d
<1>3. o = "get" => d \in Devs
  BY <1>2 DEF Devs
<1>4. o = "get" /\ d = "video" => n = 1 \/ n >= 15
  BY <1>2
<1>5. o = "get" /\ d = "idt" => n = 3
  BY <1>2
<1>6. o = "get" /\ d = "timer" => n = 6
  BY <1>2
<1>7. o = "get" /\ d = "kb" => n = 10
  BY <1>2
<1>8. o = "get" /\ d = "fb" => n >= 17
  BY <1>2
<1>9. o = "get" /\ d = "pci" => n > 17
  BY <1>2
<1>10. o = "global" => <<n, d>> \in {<<2, "video">>, <<4, "idt">>, <<7, "timer">>, <<11, "kb">>}
  BY <1>2
<1>11. n \in {1, 3, 6, 10, 17, 36, 50} => o = "get"
  BY <1>2
<1>12. n = 1 => d = "video"
  BY <1>2
<1>13. n = 3 => d = "idt"
  BY <1>2
<1>14. n = 6 => d = "timer"
  BY <1>2
<1>15. n = 10 => d = "kb"
  BY <1>2
<1>16. n = 17 => d = "fb"
  BY <1>2
<1>17. n = 36 => d = "vfs"
  BY <1>2
<1>18. n = 50 => d = "task"
  BY <1>2
<1>19. n = 11 => o = "global"
  BY <1>2
<1>20. n = 9 => o = "paging"
  BY <1>2
<1>21. n = 21 => o = "settle"
  BY <1>2
<1>22. n \in {30, 31} => o \in {"delete", "vesa"}
  BY <1>2
<1>23. o = "sti" => n = 13
  BY <1>2
<1>24. o = "release" => n = 20
  BY <1>2
<1>25. o = "settle" => n = 21
  BY <1>2
<1>26. o = "initialize" => n = 29
  BY <1>2
<1>27. o = "delete" => n = 30
  BY <1>2
<1>28. o = "vesa" => n = 31
  BY <1>2
<1>29. o = "run" => n = 51
  BY <1>2
<1>30. o # "addapp"
  BY <1>2
<1>31. d \notin {"random", "realtime"}
  BY <1>2
<1>50. Shape(n, o, d)
  BY <1>3, <1>4, <1>5, <1>6, <1>7, <1>8, <1>9, <1>10, <1>11, <1>12, <1>13, <1>14, <1>15, <1>16, <1>17, <1>18, <1>19, <1>20, <1>21, <1>22, <1>23, <1>24, <1>25, <1>26, <1>27, <1>28, <1>29, <1>30, <1>31 DEF Shape
<1> QED BY <1>1, <1>50

-----------------------------------------------------------------------------
(* What always holds                                                         *)

ObjectTypes == [dev: Devs, place: {"static", "heap"}, bus: Nat]
Globals == {"video", "idt", "timer", "kb"}

\* Types of the variables.
BootTypes ==
  /\ pc \in [Actors -> Nat \ {0}] /\ pc["boot"] \in 1..52
  /\ stage \in [Actors -> {"look", "bus", "makebus", "make", "wait"}]
  /\ bus \in [Actors -> Nat]
  /\ objs \in Seq(ObjectTypes) /\ ptr \in [Devs -> 0..Len(objs)]
  /\ glob \in [Globals -> Nat] /\ freed \subseteq 1..Len(objs)
  /\ paging \in BOOLEAN /\ iflag \in BOOLEAN /\ released \in BOOLEAN
  /\ running \in {"no", "set", "tasks"}

\* What the boot code has switched on by now.
OrderInv ==
  /\ pc["boot"] > 9 => paging
  /\ iflag => pc["boot"] > 13
  /\ released => pc["boot"] > 20
  /\ running # "no" => pc["boot"] = 52
  /\ pc["boot"] > 21 => \A c \in Cpus \ Late : Ended(c)

\* The objects that the boot code has asked for are there.
MadeInv ==
  /\ pc["boot"] > 1 => ptr["video"] # 0
  /\ pc["boot"] > 3 => ptr["idt"] # 0
  /\ pc["boot"] > 6 => ptr["timer"] # 0 /\ ptr["pm"] # 0
  /\ pc["boot"] > 10 => ptr["kb"] # 0
  /\ pc["boot"] > 17 => ptr["fb"] # 0
  /\ pc["boot"] > 36 => ptr["vfs"] # 0
  /\ pc["boot"] > 50 => ptr["task"] # 0
  /\ ptr["timer"] # 0 => ptr["pm"] # 0
  /\ ptr["fb"] # 0 => ptr["pci"] # 0
  /\ ptr["kb"] # 0 => 33 \in routines
  /\ pc["boot"] > 11 => glob["kb"] # 0
  /\ \A d \in Globals : glob[d] \in {0, ptr[d]}

\* An actor that is inside a getter.
Making(a) == stage[a] \in {"bus", "makebus", "make"}

\* The boot code makes a frame buffer out of the PCI object it has got.
MakesFb == stage["boot"] = "make" /\ Dev("boot") = "fb"

\* Only the boot code makes what others use, too.
GetterInv ==
  /\ \A a \in Actors : Making(a) => ~Ended(a) /\ Code(a)[pc[a]].op = "get"
  /\ \A a \in Actors \ {"boot"} :
       Making(a) => stage[a] = "make" /\ Dev(a) \in {"random", "realtime"}
  /\ stage["boot"] \in {"bus", "makebus"} => Dev("boot") = "fb"
  /\ stage["boot"] = "make" /\ Dev("boot") # "fb" =>
       Dev("boot") # "pci" /\ ptr[Dev("boot")] = 0
  /\ MakesFb => ptr["pci"] # 0 /\ bus["boot"] = ptr["pci"]
  /\ stage["boot"] = "wait" => ~Ended("boot") /\ Code("boot")[pc["boot"]].op \in {"serial", "sleep", "settle"}

\* The frame buffer's object.
FbInv ==
  /\ ptr["fb"] # 0 /\ objs[ptr["fb"]].bus # 0 /\ ~MakesFb => objs[ptr["fb"]].bus = ptr["pci"]
  /\ ptr["fb"] # 0 => objs[ptr["fb"]].place = "heap"
  /\ \A n \in freed : objs[n].place = "heap"
  /\ ptr["fb"] \in freed => pc["boot"] = 31

\* The inductive invariant.
BootInv == BootTypes /\ OrderInv /\ MadeInv /\ GetterInv /\ FbInv /\ KeyboardAlive /\ StaleOnlyInSwitch

\* What the other CPUs and the tasks do.
LEMMA OtherPlace ==
  ASSUME BootAssumption, NEW a \in Actors \ {"boot"}, NEW n \in 1..Len(Code(a))
  PROVE  LET o == Code(a)[n].op
             d == Code(a)[n].dev
         IN  /\ o \in {"get", "serial", "use", "addapp", "sleep"}
             /\ o = "get" => \/ d \in {"video", "fb"}
                             \/ /\ a \in {"kernel", "app"}
                                /\ d \in {"pm", "task", "vfs", "kb", "random", "realtime"}
<1>1. CASE a = "kernel"
  <2>1. Code(a) = <<Get("pm"), Get("task"), Do("addapp"), Get("fb"), Do("use"), Do("sleep")>>
    BY <1>1 DEF Code, KernelLoop, ProcessManager, PlatformTask, PlatformFb
  <2>2. /\ Len(Code(a)) = 6 /\ Code(a)[1] = Get("pm") /\ Code(a)[2] = Get("task")
        /\ Code(a)[3] = Do("addapp") /\ Code(a)[4] = Get("fb") /\ Code(a)[5] = Do("use")
        /\ Code(a)[6] = Do("sleep")
    BY <2>1
  <2>3. n = 1 \/ n = 2 \/ n = 3 \/ n = 4 \/ n = 5 \/ n = 6
    BY <2>2
  <2> QED BY <1>1, <2>2, <2>3 DEF Get, Do
<1>2. CASE a = "app"
  <2> DEFINE s == <<Get("vfs"), Get("random"), Get("realtime"), Get("kb")>>
             t == <<Get("video"), Do("serial"), Get("fb"), Do("use")>>
  <2>1. Code(a) = s \o t
    BY <1>2 DEF Code, AppProc, PlatformVfs, PlatformRandom, PlatformRealtime, PlatformKb,
                PrintLine, PlatformVideo, PlatformFb
  <2>2. /\ Len(s \o t) = 8 /\ (s \o t)[1] = Get("vfs") /\ (s \o t)[2] = Get("random")
        /\ (s \o t)[3] = Get("realtime") /\ (s \o t)[4] = Get("kb")
        /\ (s \o t)[5] = Get("video") /\ (s \o t)[6] = Do("serial")
        /\ (s \o t)[7] = Get("fb") /\ (s \o t)[8] = Do("use")
    OBVIOUS
  <2>3. /\ Len(Code(a)) = 8 /\ Code(a)[1] = Get("vfs") /\ Code(a)[2] = Get("random")
        /\ Code(a)[3] = Get("realtime") /\ Code(a)[4] = Get("kb")
        /\ Code(a)[5] = Get("video") /\ Code(a)[6] = Do("serial")
        /\ Code(a)[7] = Get("fb") /\ Code(a)[8] = Do("use")
    BY <2>1, <2>2
  <2> HIDE DEF s, t
  <2>4. n = 1 \/ n = 2 \/ n = 3 \/ n = 4 \/ n = 5 \/ n = 6 \/ n = 7 \/ n = 8
    BY <2>3
  <2> QED BY <1>2, <2>3, <2>4 DEF Get, Do
<1>3. CASE a \in Cpus
  <2>1. a \notin {"boot", "kernel", "app"}
    BY <1>3 DEF BootAssumption
  <2>2. Code(a) = <<Get("video"), Do("serial"), Get("fb"), Do("use")>>
    BY <2>1 DEF Code, SmpMain, PrintLine, PlatformVideo, PlatformFb
  <2>3. /\ Len(Code(a)) = 4 /\ Code(a)[1] = Get("video") /\ Code(a)[2] = Do("serial")
        /\ Code(a)[3] = Get("fb") /\ Code(a)[4] = Do("use")
    BY <2>2
  <2>4. n = 1 \/ n = 2 \/ n = 3 \/ n = 4
    BY <2>3
  <2> QED BY <2>3, <2>4 DEF Get, Do
<1> QED BY <1>1, <1>2, <1>3 DEF Actors

\* Every code is a sequence.
LEMMA CodeLength ==
  ASSUME BootAssumption, NEW a \in Actors
  PROVE  Len(Code(a)) \in Nat /\ Again(a) \in Nat \ {0}
<1>1. CASE a = "boot"
  <2>1. Len(Code("boot")) = 51
    BY BootCode
  <2>2. Again("boot") = Len(Code("boot")) + 1
    BY DEF Again
  <2> QED BY <1>1, <2>1, <2>2
<1>2. CASE a = "kernel"
  BY <1>2 DEF Again, Code, KernelLoop
<1>3. CASE a = "app"
  BY <1>3 DEF Again, Code, AppProc, PrintLine
<1>4. CASE a \in Cpus
  BY <1>4 DEF Again, Code, SmpMain, PrintLine, BootAssumption
<1> QED BY <1>1, <1>2, <1>3, <1>4 DEF Actors

-----------------------------------------------------------------------------
(* Steps                                                                     *)

\* An actor is at place x of its code and in a stage, the others are where they were.
Moves(a, x, s) ==
  pc' = [pc EXCEPT ![a] = x] /\ stage' = [stage EXCEPT ![a] = s]

\* An object of a device is made on a bus, and the process manager's with the timer's.
Adds(d, b) ==
  /\ objs' \in Seq(ObjectTypes) /\ Len(objs') > Len(objs)
  /\ \A n \in 1..Len(objs) : objs'[n] = objs[n]
  /\ objs'[Len(objs) + 1] = Object(d, b)
  /\ ptr' \in [Devs -> 0..Len(objs')] /\ ptr'[d] = Len(objs) + 1
  /\ \A e \in Devs \ {d} : ptr'[e] = ptr[e] \/ (d = "timer" /\ e = "pm" /\ ptr[e] = 0)
  /\ d = "timer" => ptr'["pm"] # 0

\* The objects and pointers m are os and p with an object of d more.
IsMade(m, os, p, d, b) ==
  /\ m.objs \in Seq(ObjectTypes) /\ Len(m.objs) = Len(os) + 1
  /\ \A n \in 1..Len(os) : m.objs[n] = os[n]
  /\ m.objs[Len(os) + 1] = Object(d, b)
  /\ m.ptr \in [Devs -> 0..Len(m.objs)] /\ m.ptr[d] = Len(os) + 1
  /\ \A e \in Devs \ {d} : m.ptr[e] = p[e]

\* Made() appends an object and sets its pointer.
LEMMA MadeIs ==
  ASSUME NEW os \in Seq(ObjectTypes), NEW p \in [Devs -> 0..Len(os)], NEW d \in Devs, NEW b \in Nat
  PROVE  IsMade(Made(os, p, d, b), os, p, d, b)
<1>1. Object(d, b) \in ObjectTypes
  BY DEF Object, ObjectTypes
<1> DEFINE n == Append(os, Object(d, b))
           m == Made(os, p, d, b)
<1>2. m.objs = n /\ m.ptr = [p EXCEPT ![d] = Len(n)]
  BY DEF Made
<1>3. /\ n \in Seq(ObjectTypes) /\ Len(n) = Len(os) + 1 /\ Len(os) \in Nat
      /\ \A i \in 1..Len(os) : n[i] = os[i]
      /\ n[Len(os) + 1] = Object(d, b)
  BY <1>1
<1> HIDE DEF n, m
<1>4. [p EXCEPT ![d] = Len(n)] \in [Devs -> 0..Len(n)]
  BY <1>3
<1>5. IsMade(m, os, p, d, b)
  BY <1>2, <1>3, <1>4 DEF IsMade
<1> QED BY <1>5 DEF m

\* An object other than the timer is made.
LEMMA AddsOne ==
  ASSUME BootTypes, NEW d \in Devs \ {"timer"}, NEW b \in Nat, SetObjects(Made(objs, ptr, d, b))
  PROVE  Adds(d, b)
<1> DEFINE m == Made(objs, ptr, d, b)
<1>1. objs' = m.objs /\ ptr' = m.ptr
  BY DEF SetObjects
<1>2. objs \in Seq(ObjectTypes) /\ ptr \in [Devs -> 0..Len(objs)] /\ Len(objs) \in Nat
  BY DEF BootTypes
<1>3. IsMade(m, objs, ptr, d, b)
  BY <1>2, MadeIs
<1> HIDE DEF m
<1> QED BY <1>1, <1>2, <1>3 DEF Adds, IsMade

\* The timer's object, and the process manager's if it was not there.
LEMMA AddsTimer ==
  ASSUME BootTypes, NEW b \in Nat, NEW m, m = Made(objs, ptr, "timer", b),
         SetObjects(IF m.ptr["pm"] = 0 THEN Made(m.objs, m.ptr, "pm", 0) ELSE m)
  PROVE  Adds("timer", b)
<1>1. objs \in Seq(ObjectTypes) /\ ptr \in [Devs -> 0..Len(objs)] /\ Len(objs) \in Nat
  BY DEF BootTypes
<1>0. "timer" \in Devs /\ "pm" \in Devs /\ 0 \in Nat
  BY DEF Devs
<1>2. IsMade(m, objs, ptr, "timer", b)
  BY <1>0, <1>1, MadeIs
<1>3. CASE m.ptr["pm"] # 0
  <2>1. objs' = m.objs /\ ptr' = m.ptr
    BY <1>3 DEF SetObjects
  <2> QED BY <2>1, <1>1, <1>2, <1>3 DEF Adds, IsMade
<1>4. CASE m.ptr["pm"] = 0
  <2> DEFINE k == Made(m.objs, m.ptr, "pm", 0)
  <2>1. objs' = k.objs /\ ptr' = k.ptr
    BY <1>4 DEF SetObjects
  <2>0. m.objs \in Seq(ObjectTypes) /\ m.ptr \in [Devs -> 0..Len(m.objs)]
    BY <1>2 DEF IsMade
  <2>2. IsMade(k, m.objs, m.ptr, "pm", 0)
    BY <1>0, <2>0, MadeIs
  <2> HIDE DEF k
  <2>3. \A e \in Devs \ {"timer"} : k.ptr[e] = ptr[e] \/ (e = "pm" /\ ptr[e] = 0)
    BY <1>0, <1>2, <1>4, <2>2 DEF IsMade
  <2>4. k.ptr["timer"] = Len(objs) + 1
    BY <1>0, <1>2, <2>2 DEF IsMade
  <2>5. /\ objs' \in Seq(ObjectTypes) /\ Len(objs') > Len(objs)
        /\ ptr' \in [Devs -> 0..Len(objs')] /\ ptr'["pm"] # 0
    BY <2>1, <2>2, <1>1, <1>2 DEF IsMade
  <2>6. \A n \in 1..Len(objs) : m.objs[n] = objs[n] /\ n \in 1..Len(m.objs)
    BY <1>1, <1>2 DEF IsMade
  <2>7. m.objs[Len(objs) + 1] = Object("timer", b) /\ Len(objs) + 1 \in 1..Len(m.objs)
    BY <1>1, <1>2 DEF IsMade
  <2>8. \A n \in 1..Len(m.objs) : objs'[n] = m.objs[n]
    BY <2>1, <2>2 DEF IsMade
  <2> QED BY <2>1, <2>3, <2>4, <2>5, <2>6, <2>7, <2>8 DEF Adds
<1> QED BY <1>3, <1>4

\* A step of another CPU or of a task: where it goes, what it makes, and the rest.
Goes(a) ==
  /\ bus' \in [Actors -> Nat] /\ bus'["boot"] = bus["boot"]
  /\ \E x \in Nat \ {0}, s \in {"look", "make", "wait"} :
       /\ Moves(a, x, s)
       /\ s = "make" => x = pc[a] /\ Code(a)[x].op = "get"
                        /\ Code(a)[x].dev \in {"random", "realtime"}

MakesOwn(a) ==
  \/ objs' = objs /\ ptr' = ptr
  \/ \E d \in {"random", "realtime"} : Adds(d, bus[a])

Leaves(a) ==
  /\ UNCHANGED <<glob, freed, routines, keyboard, paging, iflag, released, running>>
  /\ stale' = stale \/ (stale' = stale \cup {a} /\ ptr["fb"] \in freed)

OtherEffect(a) == ~Ended(a) /\ Runs(a) /\ Goes(a) /\ MakesOwn(a) /\ Leaves(a)

\* A jump leads to a place of the code, and the PCI object in the hand of the boot code stays.
LEMMA Jumps ==
  ASSUME BootAssumption, BootTypes, NEW a \in Actors, NEW n \in Nat \ {0}, Jump(a, n)
  PROVE  /\ \E x \in Nat \ {0} : Moves(a, x, "look")
         /\ bus' \in [Actors -> Nat]
         /\ a # "boot" => bus'["boot"] = bus["boot"]
<1>1. (IF n > Len(Code(a)) THEN Again(a) ELSE n) \in Nat \ {0}
  BY CodeLength
<1>2. "boot" \in Actors
  BY DEF Actors
<1> QED BY <1>1, <1>2 DEF Jump, Moves, BootTypes

\* Another CPU or a task finds what it asks for, but for the two devices that it makes.
LEMMA OtherStep ==
  ASSUME BootAssumption, BootInv, NEW a \in Actors \ {"boot"}, Step(a)
  PROVE  OtherEffect(a)
<1> USE DEF BootInv
<1>0. /\ pc[a] \in Nat \ {0} /\ bus[a] \in Nat /\ "boot" \in Actors
      /\ stage \in [Actors -> {"look", "bus", "makebus", "make", "wait"}]
      /\ pc \in [Actors -> Nat \ {0}] /\ bus \in [Actors -> Nat]
  BY DEF BootTypes, Actors
<1>1. ~Ended(a) /\ Runs(a) /\ Code(a)[pc[a]].op \in {"get", "serial", "use", "addapp", "sleep"}
  <2>1. ~Ended(a) /\ Runs(a)
    BY DEF Step, Look, LookBus, MakeBus, Make, SetGlobal, Serial, Sleep, Use, Set, SysCallInit,
           Initialize, Delete, Vesa, At
  <2>2. pc[a] \in 1..Len(Code(a))
    BY <2>1, <1>0, CodeLength DEF Ended
  <2> QED BY <2>1, <2>2, OtherPlace
<1>2. /\ pc[a] \in 1..Len(Code(a))
      /\ Code(a)[pc[a]].op = "get" =>
           \/ Dev(a) \in {"video", "fb"}
           \/ a \in {"kernel", "app"} /\ Dev(a) \in {"pm", "task", "vfs", "kb", "random", "realtime"}
  <2>1. pc[a] \in 1..Len(Code(a))
    BY <1>1, <1>0, CodeLength DEF Ended
  <2> QED BY <2>1, OtherPlace DEF Dev
<1>3. Done(a) => Goes(a)
  <2> SUFFICES ASSUME Done(a) PROVE Goes(a)
    OBVIOUS
  <2>1. pc[a] + 1 \in Nat \ {0}
    BY <1>0
  <2>2. /\ \E x \in Nat \ {0} : Moves(a, x, "look")
        /\ bus' \in [Actors -> Nat] /\ bus'["boot"] = bus["boot"]
    BY <2>1, Jumps DEF Done
  <2> QED BY <2>2 DEF Goes
<1>4. /\ Stage(a, "wait") => Goes(a)
      /\ Stage(a, "make") /\ Code(a)[pc[a]].op = "get" /\ Dev(a) \in {"random", "realtime"}
           => Goes(a)
  <2>1. ASSUME NEW s, Stage(a, s)
        PROVE  Moves(a, pc[a], s) /\ bus' = bus
    BY <2>1, <1>0 DEF Stage, Moves
  <2> QED BY <2>1, <1>0 DEF Goes, Dev
<1>5. CASE Look(a)
  <2>1. /\ At(a, "get", "look")
        /\ IF ptr[Dev(a)] # 0 THEN Done(a) ELSE Stage(a, IF Dev(a) = "fb" THEN "bus" ELSE "make")
        /\ UNCHANGED <<objects, keyboard, flags, stale>>
    BY <1>5 DEF Look
  <2>2. ptr[Dev(a)] = 0 => Dev(a) \in {"random", "realtime"}
    <3>1. CASE a \in Cpus
      <4>1. released /\ a \notin {"kernel", "app", "boot"}
        BY <1>1, <3>1 DEF Runs, BootAssumption
      <4>2. ptr["video"] # 0 /\ ptr["fb"] # 0
        <5>1. pc["boot"] \in 1..52 /\ pc["boot"] > 20
          BY <4>1 DEF OrderInv, BootTypes
        <5>2. pc["boot"] > 1 /\ pc["boot"] > 17
          BY <5>1
        <5> QED BY <5>2 DEF MadeInv
      <4> QED BY <4>1, <4>2, <1>2, <2>1 DEF At
    <3>2. CASE a \in {"kernel", "app"}
      <4>1. running = "tasks"
        BY <1>1, <3>2 DEF Runs
      <4>2. \A d \in {"video", "fb", "pm", "task", "vfs", "kb"} : ptr[d] # 0
        BY <4>1 DEF OrderInv, MadeInv
      <4> QED BY <4>2, <1>2, <2>1 DEF At
    <3> QED BY <3>1, <3>2 DEF Actors
  <2>3. CASE ptr[Dev(a)] # 0
    BY <2>1, <2>3, <1>1, <1>3 DEF OtherEffect, MakesOwn, Leaves, objects, keyboard, flags
  <2>4. CASE ptr[Dev(a)] = 0
    <3>1. Stage(a, "make")
      BY <2>1, <2>2, <2>4
    <3>2. Goes(a)
      BY <2>1, <2>2, <2>4, <3>1, <1>4 DEF At
    <3> QED BY <2>1, <3>2, <1>1 DEF OtherEffect, MakesOwn, Leaves, objects, keyboard, flags
  <2> QED BY <2>3, <2>4
<1>6. CASE LookBus(a) \/ MakeBus(a)
  BY <1>6, <1>0 DEF LookBus, MakeBus, At, GetterInv, Making
<1>7. CASE Make(a)
  <2>1. At(a, "get", "make") /\ Dev(a) \in {"random", "realtime"}
    BY <1>7 DEF Make, At, GetterInv, Making
  <2>2. SetObjects(Made(objs, ptr, Dev(a), bus[a])) /\ routines' = routines /\ Done(a)
    BY <1>7, <2>1 DEF Make, Installed
  <2>3. Adds(Dev(a), bus[a])
    BY <2>1, <2>2, <1>0, AddsOne DEF Devs
  <2>4. UNCHANGED <<glob, freed, keyboard, flags, stale>>
    BY <1>7 DEF Make
  <2> QED BY <2>1, <2>2, <2>3, <2>4, <1>1, <1>3 DEF OtherEffect, MakesOwn, Leaves, keyboard, flags
<1>8. CASE SetGlobal(a) \/ SysCallInit(a) \/ Initialize(a) \/ Delete(a) \/ Vesa(a)
  BY <1>8, <1>1 DEF SetGlobal, SysCallInit, Initialize, Delete, Vesa, At
<1>9. CASE Serial(a)
  <2>1. (Done(a) \/ Stage(a, "wait")) /\ UNCHANGED <<objects, keyboard, flags, stale>>
    BY <1>9 DEF Serial
  <2> QED BY <2>1, <1>1, <1>3, <1>4 DEF OtherEffect, MakesOwn, Leaves, objects, keyboard, flags
<1>10. CASE Sleep(a)
  <2>1. Stage(a, "wait") /\ UNCHANGED <<objects, keyboard, flags, stale>>
    BY <1>10 DEF Sleep
  <2> QED BY <2>1, <1>1, <1>4 DEF OtherEffect, MakesOwn, Leaves, objects, keyboard, flags
<1>11. CASE Use(a)
  <2>1. /\ Done(a) /\ UNCHANGED <<objects, keyboard, flags>>
        /\ stale' = IF ptr["fb"] \in freed THEN stale \cup {a} ELSE stale
    BY <1>11 DEF Use
  <2> QED BY <2>1, <1>1, <1>3 DEF OtherEffect, MakesOwn, Leaves, objects, keyboard, flags
<1>12. CASE Set(a)
  <2>1. /\ At(a, "addapp", "look") /\ Done(a) /\ UNCHANGED <<objects, keyboard, stale>>
    BY <1>12, <1>1 DEF Set, At
  <2>2. paging' = paging /\ iflag' = iflag /\ released' = released /\ running' = running
    BY <1>12, <2>1 DEF Set, At, BootTypes
  <2> QED BY <2>1, <2>2, <1>1, <1>3 DEF OtherEffect, MakesOwn, Leaves, objects, keyboard
<1> QED BY <1>5, <1>6, <1>7, <1>8, <1>9, <1>10, <1>11, <1>12 DEF Step

\* The boot code in a getter.
LEMMA BootAt ==
  ASSUME BootTypes, ~Ended("boot")
  PROVE  /\ pc["boot"] \in 1..51
         /\ Shape(pc["boot"], Code("boot")[pc["boot"]].op, Dev("boot"))
         /\ Code("boot")[pc["boot"]].op = "get" => Dev("boot") \in Devs \ {"random", "realtime"}
<1>1. pc["boot"] \in 1..51
  <2>1. Len(Code("boot")) = 51
    BY BootCode
  <2>2. ~(pc["boot"] > 51)
    BY <2>1 DEF Ended
  <2>3. pc["boot"] \in 1..52
    BY DEF BootTypes
  <2> QED BY <2>2, <2>3
<1>2. Shape(pc["boot"], Code("boot")[pc["boot"]].op, Dev("boot"))
  BY <1>1, BootPlace DEF Dev
<1> QED BY <1>1, <1>2 DEF Shape

\* A step of another CPU or of a task keeps the invariant.
LEMMA OtherKeeps ==
  ASSUME BootAssumption, BootInv, NEW a \in Actors \ {"boot"}, OtherEffect(a)
  PROVE  BootInv'
<1> USE DEF BootInv
<1>1. PICK x \in Nat \ {0}, s \in {"look", "make", "wait"} :
        /\ Moves(a, x, s)
        /\ s = "make" => x = pc[a] /\ Code(a)[x].op = "get"
                         /\ Code(a)[x].dev \in {"random", "realtime"}
  BY DEF OtherEffect, Goes
<1>2. /\ bus' \in [Actors -> Nat] /\ bus'["boot"] = bus["boot"]
      /\ UNCHANGED <<glob, freed, routines, irq, kbfull, paging, iflag, released, running>>
      /\ ~Ended(a) /\ Runs(a)
  BY DEF OtherEffect, Goes, Leaves, keyboard
<1>3. /\ pc' = [pc EXCEPT ![a] = x] /\ stage' = [stage EXCEPT ![a] = s]
      /\ pc \in [Actors -> Nat \ {0}]
      /\ stage \in [Actors -> {"look", "bus", "makebus", "make", "wait"}]
      /\ "boot" \in Actors /\ Len(objs) \in Nat
  BY <1>1 DEF Moves, BootTypes, Actors
<1>4. /\ pc'["boot"] = pc["boot"] /\ stage'["boot"] = stage["boot"] /\ pc'[a] = x /\ stage'[a] = s
      /\ \A b \in Actors \ {a} : pc'[b] = pc[b] /\ stage'[b] = stage[b]
  BY <1>3
<1> DEFINE Kept ==
      /\ objs' \in Seq(ObjectTypes) /\ ptr' \in [Devs -> 0..Len(objs')]
      /\ Len(objs') >= Len(objs) /\ \A n \in 1..Len(objs) : objs'[n] = objs[n]
      /\ \A d \in Devs \ {"random", "realtime"} : ptr'[d] = ptr[d]
<1>5. Kept
  <2>1. CASE objs' = objs /\ ptr' = ptr
    BY <2>1, <1>3 DEF BootTypes
  <2>2. ASSUME NEW d \in {"random", "realtime"}, Adds(d, bus[a])
        PROVE  Kept
    BY <2>2, <1>3 DEF Adds
  <2> QED BY <2>1, <2>2 DEF OtherEffect, MakesOwn
<1> USE <1>5
<1>6. BootTypes'
  BY <1>2, <1>3, <1>4, <1>5 DEF BootTypes
<1>7. OrderInv'
  <2>1. \A c \in Cpus \ Late : Ended(c) => Ended(c)'
    BY <1>2, <1>4 DEF Ended, Actors
  <2> QED BY <2>1, <1>2, <1>4 DEF OrderInv
<1>8. MadeInv'
  BY <1>2, <1>4, <1>5 DEF MadeInv, Globals, Devs
<1>9. GetterInv'
  <2>1. \A b \in Actors \ {a} : /\ Making(b)' = Making(b) /\ Ended(b)' = Ended(b)
                                /\ Dev(b)' = Dev(b) /\ Code(b)[pc[b]]' = Code(b)[pc[b]]
    BY <1>4 DEF Making, Ended, Dev
  <2>2. Making(a)' => s = "make" /\ x = pc[a] /\ ~Ended(a)' /\ Dev(a)' = Code(a)[x].dev
    BY <1>1, <1>2, <1>4 DEF Making, Ended, Dev
  <2>3. \A b \in Actors : Making(b)' => ~Ended(b)' /\ Code(b)[pc[b]].op' = "get"
    BY <1>1, <1>4, <2>1, <2>2 DEF GetterInv
  <2>4. \A b \in Actors \ {"boot"} :
          Making(b)' => stage'[b] = "make" /\ Dev(b)' \in {"random", "realtime"}
    BY <1>1, <1>4, <2>1, <2>2 DEF GetterInv
  <2>5. /\ (stage'["boot"] \in {"bus", "makebus"} => Dev("boot")' = "fb")
        /\ (stage'["boot"] = "wait" =>
             ~Ended("boot")' /\ Code("boot")[pc'["boot"]].op \in {"serial", "sleep", "settle"})
    BY <1>3, <1>4, <2>1 DEF GetterInv
  <2>6. MakesFb' = MakesFb
    BY <1>4 DEF MakesFb, Dev
  <2>7. /\ MakesFb' => ptr'["pci"] # 0 /\ bus'["boot"] = ptr'["pci"]
        /\ (stage'["boot"] = "make" /\ Dev("boot")' # "fb" =>
              Dev("boot")' # "pci" /\ ptr'[Dev("boot")'] = 0)
    <3>1. stage["boot"] = "make" => Dev("boot") \in Devs \ {"random", "realtime"}
      BY <1>3, BootAt DEF GetterInv, Making
    <3>2. ptr'["pci"] = ptr["pci"]
      BY <1>5 DEF Devs
    <3> QED BY <1>2, <1>3, <1>4, <1>5, <2>1, <2>6, <3>1, <3>2 DEF GetterInv
  <2> QED BY <2>3, <2>4, <2>5, <2>6, <2>7 DEF GetterInv
<1>10. FbInv'
  <2>1. MakesFb' = MakesFb /\ ptr'["fb"] = ptr["fb"] /\ ptr'["pci"] = ptr["pci"]
    BY <1>4, <1>5 DEF MakesFb, Dev, Devs
  <2>2. ptr["fb"] # 0 => ptr["fb"] \in 1..Len(objs)
    <3>1. "fb" \in Devs
      BY DEF Devs
    <3>2. ptr["fb"] \in 0..Len(objs)
      BY <3>1 DEF BootTypes
    <3> QED BY <3>2, <1>3
  <2>3. \A n \in freed : objs'[n] = objs[n]
    BY <1>5 DEF BootTypes
  <2> QED BY <1>2, <1>4, <1>5, <2>1, <2>2, <2>3 DEF FbInv
<1>11. KeyboardAlive' /\ StaleOnlyInSwitch'
  <2>1. KeyboardAlive'
    BY <1>2 DEF KeyboardAlive
  <2>2. ptr["fb"] \in freed => a \in Late
    <3> SUFFICES ASSUME ptr["fb"] \in freed PROVE a \in Late
      OBVIOUS
    <3>1. pc["boot"] = 31
      BY DEF FbInv
    <3>2. a \in Cpus
      BY <1>2, <3>1 DEF OrderInv, Runs, Actors
    <3> QED BY <1>2, <3>1, <3>2 DEF OrderInv
  <2> QED BY <2>1, <2>2 DEF OtherEffect, Leaves, StaleOnlyInSwitch
<1> QED BY <1>6, <1>7, <1>8, <1>9, <1>10, <1>11

-----------------------------------------------------------------------------
(* Steps of the boot code                                                    *)

\* Where the boot code goes: on, over the exchange of the frame buffer, or to a stage of
\* the same operation.
Walked(x, s) ==
  /\ Moves("boot", x, s) /\ bus' \in [Actors -> Nat]
  /\ x \in 1..52 /\ s \in {"look", "bus", "makebus", "make", "wait"}
  /\ \/ x = pc["boot"]
     \/ s = "look" /\ x = pc["boot"] + 1 
     \/ s = "look" /\ pc["boot"] = 29 /\ x = 32

\* Each way on in an action is one of those.
LEMMA BootWalks ==
  ASSUME BootAssumption, BootTypes, ~Ended("boot")
  PROVE  /\ Done("boot") => Walked(pc["boot"] + 1, "look")
         /\ pc["boot"] = 29 /\ Jump("boot", pc["boot"] + 3) => Walked(32, "look")
         /\ \A s \in {"look", "bus", "makebus", "make", "wait"} : Stage("boot", s) => Walked(pc["boot"], s)
<1>1. pc["boot"] \in 1..51
  BY BootAt
<1>0. Len(Code("boot")) = 51
  BY BootCode
<1>2. "boot" \in Actors /\ bus \in [Actors -> Nat]
  BY DEF Actors, BootTypes
<1> DEFINE l == Len(Code("boot"))
<1>3. Again("boot") = l + 1 /\ l = 51
  BY <1>0 DEF Again
<1>4. ASSUME NEW n \in 1..52, Jump("boot", n)
      PROVE  Moves("boot", n, "look") /\ bus' \in [Actors -> Nat]
  <2>1. /\ pc' = [pc EXCEPT !["boot"] = IF n > l THEN Again("boot") ELSE n]
        /\ stage' = [stage EXCEPT !["boot"] = "look"] /\ bus' = [bus EXCEPT !["boot"] = 0]
    BY <1>4 DEF Jump
  <2> HIDE DEF l
  <2>2. (IF n > l THEN Again("boot") ELSE n) = n
    BY <1>3
  <2> QED BY <1>2, <2>1, <2>2 DEF Moves
<1>5. Done("boot") => Walked(pc["boot"] + 1, "look")
  <2>1. pc["boot"] + 1 \in 1..52
    BY <1>1
  <2> QED BY <2>1, <1>4 DEF Done, Walked
<1>6. pc["boot"] = 29 /\ Jump("boot", pc["boot"] + 3) => Walked(32, "look")
  <2> SUFFICES ASSUME pc["boot"] = 29, Jump("boot", pc["boot"] + 3) PROVE Walked(32, "look")
    OBVIOUS
  <2>1. Jump("boot", 32)
    BY DEF Jump
  <2> QED BY <2>1, <1>4 DEF Walked
<1>7. ASSUME NEW s \in {"look", "bus", "makebus", "make", "wait"}, Stage("boot", s)
      PROVE  Walked(pc["boot"], s)
  <2>1. pc' = pc /\ bus' = bus /\ stage' = [stage EXCEPT !["boot"] = s]
    BY <1>7 DEF Stage
  <2>2. pc' = [pc EXCEPT !["boot"] = pc["boot"]]
    BY <2>1 DEF BootTypes
  <2>3. pc["boot"] \in 1..52
    BY <1>1
  <2>4. Moves("boot", pc["boot"], s)
    BY <2>1, <2>2 DEF Moves
  <2> QED BY <2>3, <2>4, <2>1, <1>2, <1>7 DEF Walked
<1> QED BY <1>5, <1>6, <1>7

\* What the boot code switches on when it goes to x.
Switches(x) ==
  /\ paging' \in BOOLEAN /\ iflag' \in BOOLEAN /\ released' \in BOOLEAN
  /\ running' \in {"no", "set", "tasks"}
  /\ paging => paging'
  /\ pc["boot"] = 9 /\ x # 9 => paging'
  /\ iflag' => iflag \/ x > 13
  /\ released' => released \/ x > 20
  /\ running' = "no" \/ x = 52
  /\ pc["boot"] = 21 => x = 21

\* Objects and pointers are added; only those of the frame buffer and of its bus are replaced.
Grows ==
  /\ objs' \in Seq(ObjectTypes) /\ ptr' \in [Devs -> 0..Len(objs')] /\ Len(objs') >= Len(objs)
  /\ \A n \in 1..Len(objs) : objs'[n] = objs[n]
  /\ \A d \in Devs : ptr'[d] = ptr[d] \/ (ptr'[d] # 0 /\ (ptr[d] = 0 \/ d \in {"fb", "pci"}))
  /\ ptr'["timer"] # 0 => ptr'["pm"] # 0
  /\ ptr'["fb"] # 0 => ptr'["pci"] # 0

\* What the boot code has got when it goes to x.
Gets(x) ==
  /\ routines \subseteq routines' /\ (ptr'["kb"] # 0 => 33 \in routines')
  /\ glob' \in [Globals -> Nat]
  /\ \A d \in Globals : glob'[d] = glob[d] \/ (glob[d] = 0 /\ glob'[d] = ptr'[d])
  /\ x # pc["boot"] =>
       /\ Code("boot")[pc["boot"]].op = "get" => ptr'[Dev("boot")] # 0
       /\ pc["boot"] = 11 => glob'["kb"] # 0

\* Where the boot code stands in a getter.
Stands(x, s) ==
  /\ s \in {"bus", "makebus", "make"} => x = pc["boot"] /\ Code("boot")[x].op = "get"
  /\ s \in {"bus", "makebus"} => Dev("boot") = "fb"
  /\ s = "make" /\ Dev("boot") # "fb" => Dev("boot") # "pci" /\ ptr'[Dev("boot")] = 0
  /\ s = "make" /\ Dev("boot") = "fb" => ptr'["pci"] # 0 /\ bus'["boot"] = ptr'["pci"]
  /\ s = "wait" => x = pc["boot"] /\ Code("boot")[x].op \in {"serial", "sleep", "settle"}

\* The step keeps the places of the frame buffers, the keyboard and the deleted object.
Spares == FbInv' /\ freed' \subseteq 1..Len(objs') /\ UNCHANGED <<irq, kbfull, stale>>

BootEffect(x, s) == Walked(x, s) /\ Switches(x) /\ Grows /\ Gets(x) /\ Stands(x, s) /\ Spares

\* The flags are switched on in the order of the code.
LEMMA OrderKept ==
  ASSUME BootAssumption, BootInv, ~Ended("boot"), NEW x, NEW s, Walked(x, s), Switches(x)
  PROVE  OrderInv'
<1> USE DEF BootInv
<1>1. pc["boot"] \in 1..51 /\ pc["boot"] \in Int
  BY BootAt
<1>2. pc \in [Actors -> Nat \ {0}] /\ "boot" \in Actors
  BY DEF BootTypes, Actors
<1>3. pc'["boot"] = x /\ x \in 1..52 /\ x \in Int
  BY <1>2 DEF Walked, Moves
<1>4. x = pc["boot"] \/ x = pc["boot"] + 1 \/ (pc["boot"] = 29 /\ x = 32)
  BY DEF Walked
<1>5. \A c \in Cpus \ Late : Ended(c)' = Ended(c)
  BY <1>2 DEF Walked, Moves, Ended, BootAssumption, Actors
<1>6. x > 9 => paging'
  BY <1>1, <1>3, <1>4 DEF OrderInv, Switches
<1>7. (iflag' => x > 13) /\ (released' => x > 20) /\ (running' # "no" => x = 52)
  BY <1>1, <1>3, <1>4 DEF OrderInv, Switches
<1>8. x > 21 => pc["boot"] > 21
  BY <1>1, <1>3, <1>4 DEF Switches
<1> QED BY <1>3, <1>5, <1>6, <1>7, <1>8 DEF OrderInv

\* What the boot code has passed is there and stays there.
LEMMA MadeKept ==
  ASSUME BootInv, ~Ended("boot"), NEW x, NEW s, Walked(x, s), Grows, Gets(x)
  PROVE  MadeInv'
<1> USE DEF BootInv
<1> DEFINE n == pc["boot"]
           o == Code("boot")[pc["boot"]].op
           d == Dev("boot")
<1>1. n \in 1..51 /\ Shape(n, o, d)
  BY BootAt
<1>2. pc \in [Actors -> Nat \ {0}] /\ "boot" \in Actors
  BY DEF BootTypes, Actors
<1>3. pc'["boot"] = x /\ x \in 1..52
  BY <1>2 DEF Walked, Moves
<1>4. x = n \/ x = n + 1 \/ (n = 29 /\ x = 32)
  BY DEF Walked
<1>5. x # n /\ o = "get" => ptr'[d] # 0
  BY DEF Gets
<1>6. \A e \in Devs : ptr[e] # 0 => ptr'[e] # 0
  BY DEF Grows
<1>7. /\ n > 1 => ptr["video"] # 0
      /\ n > 3 => ptr["idt"] # 0
      /\ n > 6 => ptr["timer"] # 0
      /\ n > 10 => ptr["kb"] # 0
      /\ n > 17 => ptr["fb"] # 0
      /\ n > 36 => ptr["vfs"] # 0
      /\ n > 50 => ptr["task"] # 0
  BY DEF MadeInv
<1>8. (n > 11 => glob["kb"] # 0) /\ (x # n /\ n = 11 => glob'["kb"] # 0)
      /\ (glob["kb"] # 0 => glob'["kb"] # 0) /\ \A e \in Globals : glob'[e] \in {0, ptr'[e]}
  BY DEF MadeInv, Gets, Globals, Grows, Devs
<1>9. (ptr'["timer"] # 0 => ptr'["pm"] # 0) /\ (ptr'["fb"] # 0 => ptr'["pci"] # 0)
      /\ (ptr'["kb"] # 0 => 33 \in routines')
  BY DEF Grows, Gets
<1> HIDE DEF n, o, d
<1>10. /\ x > 1 => ptr'["video"] # 0
       /\ x > 3 => ptr'["idt"] # 0
       /\ x > 6 => ptr'["timer"] # 0
       /\ x > 10 => ptr'["kb"] # 0
       /\ x > 17 => ptr'["fb"] # 0
       /\ x > 36 => ptr'["vfs"] # 0
       /\ x > 50 => ptr'["task"] # 0
  BY <1>1, <1>3, <1>4, <1>5, <1>6, <1>7 DEF Shape, Devs
<1>11. x > 11 => glob'["kb"] # 0
  BY <1>1, <1>3, <1>4, <1>8
<1> QED BY <1>3, <1>8, <1>9, <1>10, <1>11 DEF MadeInv

\* Whoever is inside a getter is where it should be.
LEMMA GetterKept ==
  ASSUME BootInv, ~Ended("boot"), NEW x, NEW s, Walked(x, s), Stands(x, s)
  PROVE  GetterInv'
<1> USE DEF BootInv
<1>1. /\ pc' = [pc EXCEPT !["boot"] = x] /\ stage' = [stage EXCEPT !["boot"] = s]
      /\ pc \in [Actors -> Nat \ {0}] /\ "boot" \in Actors
      /\ stage \in [Actors -> {"look", "bus", "makebus", "make", "wait"}]
  BY DEF BootTypes, Actors, Walked, Moves
<1>2. /\ pc'["boot"] = x /\ stage'["boot"] = s
      /\ \A b \in Actors \ {"boot"} : pc'[b] = pc[b] /\ stage'[b] = stage[b]
  BY <1>1
<1>3. \A b \in Actors \ {"boot"} : /\ Making(b)' = Making(b) /\ Ended(b)' = Ended(b)
                                   /\ Dev(b)' = Dev(b) /\ Code(b)[pc[b]]' = Code(b)[pc[b]]
  BY <1>2 DEF Making, Ended, Dev
<1>4. x = pc["boot"] => ~Ended("boot")' /\ Dev("boot")' = Dev("boot")
  BY <1>2 DEF Ended, Dev
<1>5. Making("boot")' => ~Ended("boot")' /\ Code("boot")[pc["boot"]].op' = "get"
  BY <1>2, <1>4 DEF Making, Stands
<1>6. /\ \A b \in Actors : Making(b)' => ~Ended(b)' /\ Code(b)[pc[b]].op' = "get"
      /\ \A b \in Actors \ {"boot"} :
           Making(b)' => stage'[b] = "make" /\ Dev(b)' \in {"random", "realtime"}
  BY <1>2, <1>3, <1>5 DEF GetterInv
<1>7. /\ stage'["boot"] \in {"bus", "makebus"} => Dev("boot")' = "fb"
      /\ stage'["boot"] = "make" /\ Dev("boot")' # "fb" =>
           Dev("boot")' # "pci" /\ ptr'[Dev("boot")'] = 0
      /\ MakesFb' => ptr'["pci"] # 0 /\ bus'["boot"] = ptr'["pci"]
      /\ stage'["boot"] = "wait" =>
           ~Ended("boot")' /\ Code("boot")[pc'["boot"]].op \in {"serial", "sleep", "settle"}
  BY <1>2, <1>4 DEF MakesFb, Stands
<1> QED BY <1>6, <1>7 DEF GetterInv

\* A step of the boot code with such an effect keeps the invariant.
LEMMA BootKeeps ==
  ASSUME BootAssumption, BootInv, ~Ended("boot"), NEW x, NEW s, BootEffect(x, s)
  PROVE  BootInv'
<1> USE DEF BootEffect
<1>1. BootTypes'
  <2>1. "boot" \in Actors
    BY DEF Actors
  <2> QED BY <2>1 DEF BootInv, BootTypes, Walked, Moves, Switches, Grows, Gets, Spares
<1>2. OrderInv' /\ MadeInv' /\ GetterInv' /\ FbInv'
  BY OrderKept, MadeKept, GetterKept DEF Spares
<1>3. KeyboardAlive' /\ StaleOnlyInSwitch'
  BY DEF BootInv, Spares, KeyboardAlive, StaleOnlyInSwitch
<1> QED BY <1>1, <1>2, <1>3 DEF BootInv

\* Nothing is made.
LEMMA GrowsNot ==
  ASSUME BootInv, UNCHANGED <<objs, ptr>>
  PROVE  Grows
<1>1. objs' = objs /\ ptr' = ptr
  OBVIOUS
<1>2. objs \in Seq(ObjectTypes) /\ Len(objs) \in Nat /\ ptr \in [Devs -> 0..Len(objs)]
  BY DEF BootInv, BootTypes
<1>3. (ptr["timer"] # 0 => ptr["pm"] # 0) /\ (ptr["fb"] # 0 => ptr["pci"] # 0)
  BY DEF BootInv, MadeInv
<1> QED BY <1>1, <1>2, <1>3 DEF Grows

\* One object is made for a device that had none, or that is replaced.
LEMMA GrowsOne ==
  ASSUME BootInv, NEW d \in Devs, NEW b \in Nat, Adds(d, b), ptr[d] = 0 \/ d \in {"fb", "pci"},
         d = "fb" => ptr["pci"] # 0
  PROVE  Grows
<1>1. objs \in Seq(ObjectTypes) /\ Len(objs) \in Nat /\ ptr \in [Devs -> 0..Len(objs)]
  BY DEF BootInv, BootTypes
<1>2. (ptr["timer"] # 0 => ptr["pm"] # 0) /\ (ptr["fb"] # 0 => ptr["pci"] # 0)
  BY DEF BootInv, MadeInv
<1>3. "timer" \in Devs /\ "pm" \in Devs /\ "fb" \in Devs /\ "pci" \in Devs
  BY DEF Devs
<1>4. /\ objs' \in Seq(ObjectTypes) /\ Len(objs') \in Nat /\ Len(objs') > Len(objs)
      /\ \A n \in 1..Len(objs) : objs'[n] = objs[n]
      /\ ptr' \in [Devs -> 0..Len(objs')] /\ ptr'[d] = Len(objs) + 1
      /\ \A e \in Devs \ {d} : ptr'[e] = ptr[e] \/ (d = "timer" /\ e = "pm" /\ ptr[e] = 0)
      /\ d = "timer" => ptr'["pm"] # 0
  BY DEF Adds
<1>5. \A e \in Devs : ptr'[e] = ptr[e] \/ (ptr'[e] # 0 /\ (ptr[e] = 0 \/ e \in {"fb", "pci"}))
  BY <1>1, <1>3, <1>4
<1>6. ptr'["timer"] # 0 => ptr'["pm"] # 0
  BY <1>1, <1>2, <1>3, <1>4
<1>7. ptr'["fb"] # 0 => ptr'["pci"] # 0
  BY <1>1, <1>2, <1>3, <1>4
<1> QED BY <1>1, <1>4, <1>5, <1>6, <1>7 DEF Grows

\* A step of the boot code that makes and deletes nothing.
LEMMA QuietFits ==
  ASSUME BootInv, ~Ended("boot"), stage["boot"] # "make", pc["boot"] \notin {30, 31},
         UNCHANGED <<objs, ptr, freed, irq, kbfull, stale>>
  PROVE  Grows /\ Spares
<1> USE DEF BootInv
<1>1. objs' = objs /\ ptr' = ptr /\ freed' = freed
  OBVIOUS
<1>2. ~MakesFb /\ pc["boot"] # 31
  BY DEF MakesFb
<1>3. FbInv'
  BY <1>1, <1>2 DEF FbInv
<1>4. freed' \subseteq 1..Len(objs')
  BY <1>1 DEF BootTypes
<1> QED BY <1>3, <1>4, GrowsNot DEF Spares

\* Nothing is switched on by the operations other than those of Set.
LEMMA SwitchesNot ==
  ASSUME BootInv, ~Ended("boot"), NEW x, NEW s, Walked(x, s), UNCHANGED flags,
         pc["boot"] = 9 => x = 9, pc["boot"] = 21 => x = 21
  PROVE  Switches(x)
<1> USE DEF BootInv
<1>1. UNCHANGED <<paging, iflag, released, running>>
  BY DEF flags
<1>2. pc["boot"] # 52
  BY BootAt
<1> QED BY <1>1, <1>2 DEF Switches, OrderInv, BootTypes

\* No routine and no global pointer is set.
LEMMA GetsNot ==
  ASSUME BootInv, NEW x, UNCHANGED <<ptr, glob, routines>>,
         x # pc["boot"] /\ Code("boot")[pc["boot"]].op = "get" => ptr[Dev("boot")] # 0,
         x # pc["boot"] => pc["boot"] # 11
  PROVE  Gets(x)
<1> USE DEF BootInv
<1>1. ptr' = ptr /\ glob' = glob /\ routines' = routines
  OBVIOUS
<1> QED BY <1>1 DEF Gets, BootTypes, MadeInv

\* The boot code's steps that make nothing.
LEMMA BootQuiet ==
  ASSUME BootAssumption, BootInv,
         \/ Look("boot") \/ LookBus("boot") \/ SetGlobal("boot") \/ Serial("boot") \/ Sleep("boot")
         \/ Use("boot") \/ Set("boot") \/ SysCallInit("boot") \/ Initialize("boot")
  PROVE  \E x, s : BootEffect(x, s)
<1> USE DEF BootInv
<1> DEFINE o == Code("boot")[pc["boot"]].op
<1>1. ~Ended("boot") /\ stage["boot"] # "make" /\ o \notin {"delete", "vesa"}
  BY DEF Look, LookBus, SetGlobal, Serial, Sleep, Use, Set, SysCallInit, Initialize, At
<1>2. /\ pc["boot"] \in 1..51 /\ Shape(pc["boot"], o, Dev("boot"))
      /\ o = "get" => Dev("boot") \in Devs
  BY <1>1, BootAt
<1>3. pc["boot"] \notin {30, 31}
  BY <1>1, <1>2 DEF Shape
<1>4. ptr["fb"] \notin freed
  BY <1>3 DEF FbInv
<1>5. UNCHANGED <<objs, ptr, freed, irq, kbfull, stale>>
  BY <1>4 DEF Look, LookBus, SetGlobal, Serial, Sleep, Use, Set, SysCallInit, Initialize,
              objects, keyboard
<1>6. Grows /\ Spares
  BY <1>1, <1>3, <1>5, QuietFits
<1>7. /\ Done("boot") => Walked(pc["boot"] + 1, "look")
      /\ pc["boot"] = 29 /\ Jump("boot", pc["boot"] + 3) => Walked(32, "look")
      /\ \A s \in {"look", "bus", "makebus", "make", "wait"} : Stage("boot", s) => Walked(pc["boot"], s)
  BY <1>1, BootWalks
<1>8. \A x : Stands(x, "look")
  BY DEF Stands
<1>9. CASE Look("boot")
  <2>1. /\ At("boot", "get", "look") /\ UNCHANGED <<objects, keyboard, flags, stale>>
        /\ IF ptr[Dev("boot")] # 0 THEN Done("boot")
           ELSE Stage("boot", IF Dev("boot") = "fb" THEN "bus" ELSE "make")
    BY <1>9 DEF Look
  <2>2. o = "get" /\ UNCHANGED <<ptr, glob, routines>> /\ UNCHANGED flags
    BY <2>1 DEF At, objects
  <2>3. pc["boot"] # 9 /\ pc["boot"] # 21 /\ pc["boot"] # 11
    BY <2>2, <1>2 DEF Shape
  <2>4. CASE ptr[Dev("boot")] # 0
    <3>1. Walked(pc["boot"] + 1, "look")
      BY <2>1, <2>4, <1>7
    <3>2. Switches(pc["boot"] + 1)
      BY <3>1, <2>2, <2>3, <1>1, SwitchesNot
    <3>3. Gets(pc["boot"] + 1)
      BY <2>2, <2>3, <2>4, GetsNot
    <3> QED BY <3>1, <3>2, <3>3, <1>6, <1>8 DEF BootEffect
  <2>5. CASE ptr[Dev("boot")] = 0
    <3> DEFINE s == IF Dev("boot") = "fb" THEN "bus" ELSE "make"
    <3>1. Walked(pc["boot"], s)
      BY <2>1, <2>5, <1>7
    <3>2. Switches(pc["boot"])
      BY <3>1, <2>2, <1>1, SwitchesNot
    <3>3. Gets(pc["boot"])
      BY <2>2, GetsNot
    <3>4. Dev("boot") # "pci"
      <4> SUFFICES ASSUME Dev("boot") = "pci" PROVE FALSE
        OBVIOUS
      <4>1. pc["boot"] > 17
        BY <2>2, <1>2 DEF Shape
      <4>2. ptr["pci"] # 0
        BY <4>1 DEF MadeInv
      <4> QED BY <4>2, <2>5
    <3>5. Stands(pc["boot"], s)
      BY <2>2, <2>5, <3>4 DEF Stands
    <3> QED BY <3>1, <3>2, <3>3, <3>5, <1>6 DEF BootEffect
  <2> QED BY <2>4, <2>5
<1>10. CASE LookBus("boot")
  <2>1. /\ At("boot", "get", "bus") /\ UNCHANGED <<objects, keyboard, flags, stale>>
        /\ IF ptr["pci"] # 0
           THEN /\ stage' = [stage EXCEPT !["boot"] = "make"]
                /\ bus' = [bus EXCEPT !["boot"] = ptr["pci"]]
                /\ UNCHANGED pc
           ELSE Stage("boot", "makebus")
    BY <1>10 DEF LookBus
  <2>2. o = "get" /\ UNCHANGED <<ptr, glob, routines>> /\ UNCHANGED flags /\ Dev("boot") = "fb"
    BY <2>1 DEF At, objects, GetterInv
  <2>3. CASE ptr["pci"] # 0
    <3>1. Walked(pc["boot"], "make") /\ bus'["boot"] = ptr["pci"]
      <4>1. "pci" \in Devs /\ "boot" \in Actors /\ Len(objs) \in Nat
        BY DEF Devs, Actors, BootTypes
      <4>2. ptr["pci"] \in Nat
        BY <4>1 DEF BootTypes
      <4>3. pc' = [pc EXCEPT !["boot"] = pc["boot"]]
        BY <2>1, <2>3 DEF BootTypes
      <4>4. bus' = [bus EXCEPT !["boot"] = ptr["pci"]] /\ bus \in [Actors -> Nat]
        BY <2>1, <2>3 DEF BootTypes
      <4>5. bus' \in [Actors -> Nat] /\ bus'["boot"] = ptr["pci"]
        BY <4>1, <4>2, <4>4
      <4>6. Moves("boot", pc["boot"], "make")
        BY <2>1, <2>3, <4>3 DEF Moves
      <4> QED BY <4>5, <4>6, <1>2 DEF Walked
    <3>2. Switches(pc["boot"])
      BY <3>1, <2>2, <1>1, SwitchesNot
    <3>3. Gets(pc["boot"])
      BY <2>2, GetsNot
    <3>4. Stands(pc["boot"], "make")
      BY <2>2, <2>3, <3>1 DEF Stands
    <3> QED BY <3>1, <3>2, <3>3, <3>4, <1>6 DEF BootEffect
  <2>4. CASE ptr["pci"] = 0
    <3>1. Walked(pc["boot"], "makebus")
      BY <2>1, <2>4, <1>7
    <3>2. Switches(pc["boot"])
      BY <3>1, <2>2, <1>1, SwitchesNot
    <3>3. Gets(pc["boot"])
      BY <2>2, GetsNot
    <3>4. Stands(pc["boot"], "makebus")
      BY <2>2 DEF Stands
    <3> QED BY <3>1, <3>2, <3>3, <3>4, <1>6 DEF BootEffect
  <2> QED BY <2>3, <2>4
<1>11. CASE SetGlobal("boot")
  <2>1. /\ o = "global" /\ Done("boot") /\ UNCHANGED <<ptr, routines>> /\ UNCHANGED flags
        /\ glob' = IF glob[Dev("boot")] = 0
                   THEN [glob EXCEPT ![Dev("boot")] = ptr[Dev("boot")]] ELSE glob
    BY <1>11 DEF SetGlobal, At
  <2>2. /\ pc["boot"] # 9 /\ pc["boot"] # 21
        /\ Dev("boot") \in Globals /\ (pc["boot"] = 11 => Dev("boot") = "kb")
    BY <2>1, <1>2 DEF Shape, Globals
  <2>3. Walked(pc["boot"] + 1, "look")
    BY <2>1, <1>7
  <2>4. Switches(pc["boot"] + 1)
    BY <2>1, <2>2, <2>3, <1>1, SwitchesNot
  <2>5. Gets(pc["boot"] + 1)
    <3>1. Globals \subseteq Devs /\ glob \in [Globals -> Nat] /\ ptr \in [Devs -> Nat]
      BY DEF Globals, Devs, BootTypes
    <3>2. pc["boot"] = 11 => ptr["kb"] # 0
      BY DEF MadeInv
    <3>3. /\ routines \subseteq routines'
          /\ (ptr'["kb"] # 0 => 33 \in routines')
      BY <2>1 DEF MadeInv
    <3> QED BY <3>1, <3>2, <3>3, <2>1, <2>2 DEF Gets
  <2> QED BY <2>3, <2>4, <2>5, <1>6, <1>8 DEF BootEffect
<1>12. CASE Serial("boot") \/ Sleep("boot")
  <2>1. /\ o \in {"serial", "sleep", "settle"} /\ (o = "settle" => Stage("boot", "wait"))
        /\ Done("boot") \/ Stage("boot", "wait")
        /\ UNCHANGED <<ptr, glob, routines>> /\ UNCHANGED flags
    BY <1>12 DEF Serial, Sleep, At, objects
  <2>2. pc["boot"] # 9 /\ pc["boot"] # 11 /\ (pc["boot"] = 21 => o = "settle")
    BY <2>1, <1>2 DEF Shape
  <2>3. CASE Done("boot") /\ o # "settle"
    <3>1. Walked(pc["boot"] + 1, "look")
      BY <2>3, <1>7
    <3>2. Switches(pc["boot"] + 1)
      BY <3>1, <2>1, <2>2, <2>3, <1>1, SwitchesNot
    <3>3. Gets(pc["boot"] + 1)
      BY <2>1, <2>2, GetsNot
    <3> QED BY <3>1, <3>2, <3>3, <1>6, <1>8 DEF BootEffect
  <2>4. CASE Stage("boot", "wait")
    <3>1. Walked(pc["boot"], "wait")
      BY <2>4, <1>7
    <3>2. Switches(pc["boot"])
      BY <3>1, <2>1, <1>1, SwitchesNot
    <3>3. Gets(pc["boot"])
      BY <2>1, GetsNot
    <3>4. Stands(pc["boot"], "wait")
      BY <2>1 DEF Stands
    <3> QED BY <3>1, <3>2, <3>3, <3>4, <1>6 DEF BootEffect
  <2> QED BY <2>1, <2>3, <2>4
<1>13. CASE Use("boot") \/ Initialize("boot")
  <2>1. /\ o \in {"use", "initialize"}
        /\ Done("boot") \/ (o = "initialize" /\ Jump("boot", pc["boot"] + 3))
        /\ UNCHANGED <<ptr, glob, routines>> /\ UNCHANGED flags
    BY <1>13 DEF Use, Initialize, At, objects
  <2>2. pc["boot"] # 9 /\ pc["boot"] # 11 /\ pc["boot"] # 21 /\ (o = "initialize" => pc["boot"] = 29)
    BY <2>1, <1>2 DEF Shape
  <2>3. \E x : Walked(x, "look")
    BY <2>1, <2>2, <1>7
  <2>4. ASSUME NEW x, Walked(x, "look")
        PROVE  BootEffect(x, "look")
    <3>1. Switches(x)
      BY <2>1, <2>2, <2>4, <1>1, SwitchesNot
    <3>2. Gets(x)
      BY <2>1, <2>2, GetsNot
    <3> QED BY <3>1, <3>2, <2>4, <1>6, <1>8 DEF BootEffect
  <2> QED BY <2>3, <2>4
<1>14. CASE SysCallInit("boot")
  <2>1. /\ o = "syscall" /\ Done("boot") /\ routines' = routines \cup {153}
        /\ UNCHANGED <<ptr, glob>> /\ UNCHANGED flags
    BY <1>14 DEF SysCallInit, At
  <2>2. pc["boot"] # 9 /\ pc["boot"] # 11 /\ pc["boot"] # 21
    BY <2>1, <1>2 DEF Shape
  <2>3. Walked(pc["boot"] + 1, "look")
    BY <2>1, <1>7
  <2>4. Switches(pc["boot"] + 1)
    BY <2>1, <2>2, <2>3, <1>1, SwitchesNot
  <2>5. Gets(pc["boot"] + 1)
    BY <2>1, <2>2 DEF Gets, BootTypes, MadeInv
  <2> QED BY <2>3, <2>4, <2>5, <1>6, <1>8 DEF BootEffect
<1>15. CASE Set("boot")
  <2>1. /\ Done("boot") /\ UNCHANGED <<ptr, glob, routines>>
        /\ o \in {"gates", "paging", "frequency", "sti", "release", "run", "addapp"}
        /\ paging' = (paging \/ o = "paging") /\ iflag' = (iflag \/ o = "sti")
        /\ released' = (released \/ o = "release")
        /\ running' = IF o = "run" THEN "set" ELSE running
    BY <1>15 DEF Set, At, objects
  <2>2. /\ pc["boot"] # 11 /\ pc["boot"] # 21
        /\ (pc["boot"] = 9 => o = "paging") /\ (o = "sti" => pc["boot"] = 13)
        /\ (o = "release" => pc["boot"] = 20) /\ (o = "run" => pc["boot"] = 51)
    BY <2>1, <1>2 DEF Shape
  <2>3. Walked(pc["boot"] + 1, "look")
    BY <2>1, <1>7
  <2>4. Switches(pc["boot"] + 1)
    <3>1. paging' \in BOOLEAN /\ iflag' \in BOOLEAN /\ released' \in BOOLEAN
      BY <2>1
    <3>2. running' \in {"no", "set", "tasks"}
      BY <2>1 DEF BootTypes
    <3>3. (paging => paging') /\ (pc["boot"] = 9 => paging')
      BY <2>1, <2>2
    <3>4. (iflag' => iflag \/ pc["boot"] = 13) /\ (released' => released \/ pc["boot"] = 20)
      BY <2>1, <2>2
    <3>5. running' = "no" \/ pc["boot"] + 1 = 52
      BY <2>1, <2>2, <1>2 DEF OrderInv
    <3> QED BY <3>1, <3>2, <3>3, <3>4, <3>5, <2>2 DEF Switches
  <2>5. Gets(pc["boot"] + 1)
    <3>1. o # "get"
      BY <2>1
    <3> QED BY <3>1, <2>1, <2>2, GetsNot
  <2> QED BY <2>3, <2>4, <2>5, <1>6, <1>8 DEF BootEffect
<1> QED BY <1>9, <1>10, <1>11, <1>12, <1>13, <1>14, <1>15

\* The boot code's steps that make or delete an object.
LEMMA BootMakes ==
  ASSUME BootAssumption, BootInv,
         MakeBus("boot") \/ Make("boot") \/ Delete("boot") \/ Vesa("boot")
  PROVE  \E x, s : BootEffect(x, s)
<1> USE DEF BootInv
<1> DEFINE o == Code("boot")[pc["boot"]].op
<1>1. ~Ended("boot") /\ o \in {"get", "delete", "vesa"}
  BY DEF MakeBus, Make, Delete, Vesa, At
<1>2. /\ pc["boot"] \in 1..51 /\ Shape(pc["boot"], o, Dev("boot"))
      /\ o = "get" => Dev("boot") \in Devs
  BY <1>1, BootAt
<1>3. /\ pc["boot"] # 9 /\ pc["boot"] # 21 /\ pc["boot"] # 11
      /\ (o = "get" => pc["boot"] \notin {30, 31})
      /\ (o = "delete" => pc["boot"] = 30) /\ (o = "vesa" => pc["boot"] = 31)
  BY <1>1, <1>2 DEF Shape
<1>4. Done("boot") => Walked(pc["boot"] + 1, "look")
  BY <1>1, BootWalks
<1>5. \A x : Stands(x, "look")
  BY DEF Stands
<1>6. /\ objs \in Seq(ObjectTypes) /\ Len(objs) \in Nat /\ ptr \in [Devs -> 0..Len(objs)]
      /\ freed \subseteq 1..Len(objs) /\ "boot" \in Actors /\ bus \in [Actors -> Nat]
      /\ "fb" \in Devs /\ "pci" \in Devs /\ "kb" \in Devs
  BY DEF BootTypes, Actors, Devs
<1>7. \A d \in Devs : ptr[d] # 0 => ptr[d] \in 1..Len(objs)
  BY <1>6
<1>8. CASE MakeBus("boot")
  <2>1. /\ o = "get" /\ Dev("boot") = "fb" /\ SetObjects(Made(objs, ptr, "pci", 0))
        /\ stage' = [stage EXCEPT !["boot"] = "make"]
        /\ bus' = [bus EXCEPT !["boot"] = Len(objs) + 1]
        /\ UNCHANGED <<pc, glob, freed, routines, irq, kbfull, stale>> /\ UNCHANGED flags
    BY <1>8 DEF MakeBus, At, GetterInv, keyboard
  <2>2. Adds("pci", 0)
    BY <2>1, <1>6, AddsOne
  <2>3. /\ objs' \in Seq(ObjectTypes) /\ Len(objs') > Len(objs) /\ Len(objs') \in Nat
        /\ \A n \in 1..Len(objs) : objs'[n] = objs[n]
        /\ ptr'["pci"] = Len(objs) + 1 /\ \A e \in Devs \ {"pci"} : ptr'[e] = ptr[e]
    BY <2>2 DEF Adds
  <2>4. Grows
    BY <2>2, <1>6, GrowsOne
  <2>5. Walked(pc["boot"], "make") /\ bus'["boot"] = ptr'["pci"] /\ stage'["boot"] = "make"
    <3>1. pc' = [pc EXCEPT !["boot"] = pc["boot"]]
      BY <2>1 DEF BootTypes
    <3>2. bus' \in [Actors -> Nat] /\ bus'["boot"] = ptr'["pci"]
      BY <2>1, <2>3, <1>6
    <3>3. Moves("boot", pc["boot"], "make")
      BY <2>1, <3>1 DEF Moves
    <3>4. stage'["boot"] = "make"
      BY <2>1, <1>6 DEF BootTypes
    <3> QED BY <3>2, <3>3, <3>4, <1>2 DEF Walked
  <2>6. Switches(pc["boot"])
    BY <2>1, <2>5, <1>1, SwitchesNot
  <2>7. Gets(pc["boot"])
    BY <2>1, <2>3, <1>6 DEF Gets, BootTypes, MadeInv
  <2>8. Stands(pc["boot"], "make")
    BY <2>1, <2>3, <2>5, <1>6 DEF Stands
  <2>9. FbInv'
    <3>1. MakesFb'
      BY <2>1, <2>5 DEF MakesFb, Dev
    <3>2. ptr'["fb"] = ptr["fb"] /\ freed' = freed /\ pc["boot"] # 31
      BY <2>1, <2>3, <1>3, <1>6
    <3>3. (ptr'["fb"] # 0 => objs'[ptr'["fb"]].place = "heap")
          /\ \A n \in freed' : objs'[n].place = "heap"
      BY <3>2, <2>3, <1>6, <1>7 DEF FbInv
    <3> QED BY <3>1, <3>2, <3>3 DEF FbInv
  <2>10. freed' \subseteq 1..Len(objs')
    BY <2>1, <2>3, <1>6
  <2> QED BY <2>1, <2>4, <2>5, <2>6, <2>7, <2>8, <2>9, <2>10 DEF BootEffect, Spares
<1>9. CASE Make("boot")
  <2> DEFINE d == Dev("boot")
             b == bus["boot"]
  <2>1. /\ o = "get" /\ stage["boot"] = "make" /\ Done("boot")
        /\ routines' = routines \cup Installed(d)
        /\ UNCHANGED <<glob, freed, irq, kbfull, stale>> /\ UNCHANGED flags
    BY <1>9 DEF Make, At, keyboard
  <2>2. /\ d \in Devs /\ b \in Nat
        /\ d # "fb" => d # "pci" /\ ptr[d] = 0
        /\ d = "fb" => ptr["pci"] # 0 /\ b = ptr["pci"]
    BY <2>1, <1>2, <1>6 DEF GetterInv, MakesFb
  <2>3. Adds(d, b)
    <3> DEFINE m == Made(objs, ptr, d, b)
    <3>1. SetObjects(IF d = "timer" /\ m.ptr["pm"] = 0 THEN Made(m.objs, m.ptr, "pm", 0) ELSE m)
      BY <1>9 DEF Make
    <3>2. CASE d = "timer"
      <4>1. m = Made(objs, ptr, "timer", b)
        BY <3>2
      <4>2. SetObjects(IF m.ptr["pm"] = 0 THEN Made(m.objs, m.ptr, "pm", 0) ELSE m)
        BY <3>1, <3>2
      <4> HIDE DEF m
      <4>3. Adds("timer", b)
        BY <4>1, <4>2, <2>2, AddsTimer
      <4> QED BY <4>3, <3>2
    <3>3. CASE d # "timer"
      <4>1. SetObjects(Made(objs, ptr, d, b))
        BY <3>1, <3>3
      <4> QED BY <4>1, <3>3, <2>2, AddsOne
    <3> QED BY <3>2, <3>3
  <2> HIDE DEF d, b
  <2>4. /\ objs' \in Seq(ObjectTypes) /\ Len(objs') > Len(objs) /\ Len(objs') \in Nat
        /\ \A n \in 1..Len(objs) : objs'[n] = objs[n]
        /\ objs'[Len(objs) + 1] = Object(d, b) /\ ptr'[d] = Len(objs) + 1
        /\ \A e \in Devs \ {d} : ptr'[e] = ptr[e] \/ (d = "timer" /\ e = "pm" /\ ptr[e] = 0)
    BY <2>3 DEF Adds
  <2>5. Grows
    BY <2>2, <2>3, <1>6, GrowsOne
  <2>6. Walked(pc["boot"] + 1, "look")
    BY <2>1, <1>4
  <2>7. Switches(pc["boot"] + 1)
    BY <2>1, <2>6, <1>1, <1>3, SwitchesNot
  <2>8. Gets(pc["boot"] + 1)
    <3>1. routines \subseteq routines'
      BY <2>1
    <3>2. ptr'["kb"] # 0 => 33 \in routines'
      <4>1. CASE d = "kb"
        BY <4>1, <2>1 DEF Installed
      <4>2. CASE d # "kb"
        <5>1. ptr'["kb"] = ptr["kb"]
          BY <4>2, <2>4, <1>6
        <5> QED BY <5>1, <3>1 DEF MadeInv
      <4> QED BY <4>1, <4>2
    <3>3. glob' = glob /\ glob \in [Globals -> Nat]
      BY <2>1 DEF BootTypes
    <3>4. ptr'[Dev("boot")] # 0
      BY <2>4, <1>6 DEF d
    <3> QED BY <3>1, <3>2, <3>3, <3>4, <1>3 DEF Gets
  <2>9. FbInv'
    <3>1. \A n \in freed' : objs'[n] = objs[n]
      BY <2>1, <2>4, <1>6
    <3>2. freed' = freed /\ pc["boot"] # 31
      BY <2>1, <1>3
    <3>3. CASE d = "fb"
      <4>1. /\ ptr'["fb"] = Len(objs) + 1 /\ ptr'["pci"] = ptr["pci"]
            /\ objs'[ptr'["fb"]] = Object("fb", b)
        BY <3>3, <2>4, <1>6
      <4>2. paging
        <5>1. pc["boot"] > 9
          BY <3>3, <2>1, <1>2 DEF Shape, d
        <5> QED BY <5>1 DEF OrderInv
      <4>3. objs'[ptr'["fb"]].bus = ptr'["pci"] /\ objs'[ptr'["fb"]].place = "heap"
        BY <4>1, <4>2, <2>2, <3>3 DEF Object
      <4>4. ptr'["fb"] \notin freed
        BY <4>1, <1>6
      <4> QED BY <3>1, <3>2, <4>3, <4>4 DEF FbInv
    <3>4. CASE d # "fb"
      <4>1. ptr'["fb"] = ptr["fb"] /\ ptr'["pci"] = ptr["pci"] /\ ~MakesFb
        BY <3>4, <2>2, <2>4, <1>6 DEF MakesFb, d
      <4>2. ptr["fb"] # 0 => objs'[ptr["fb"]] = objs[ptr["fb"]]
        BY <2>4, <1>6, <1>7
      <4> QED BY <3>1, <3>2, <4>1, <4>2 DEF FbInv
    <3> QED BY <3>3, <3>4
  <2>10. freed' \subseteq 1..Len(objs')
    BY <2>1, <2>4, <1>6
  <2> QED BY <2>1, <2>5, <2>6, <2>7, <2>8, <2>9, <2>10, <1>5 DEF BootEffect, Spares
<1>10. CASE Delete("boot")
  <2>1. /\ o = "delete" /\ freed' = freed \cup {ptr["fb"]} /\ Done("boot") /\ stage["boot"] = "look"
        /\ UNCHANGED <<ptr, glob, objs, routines, irq, kbfull, stale>> /\ UNCHANGED flags
    BY <1>10 DEF Delete, At, keyboard
  <2>2. pc["boot"] = 30
    BY <2>1, <1>3
  <2>3. Grows
    BY <2>1, GrowsNot
  <2>4. Walked(pc["boot"] + 1, "look")
    BY <2>1, <1>4
  <2>5. Switches(pc["boot"] + 1)
    BY <2>1, <2>4, <1>1, <1>3, SwitchesNot
  <2>6. Gets(pc["boot"] + 1)
    BY <2>1, <2>2, GetsNot
  <2>7. ptr["fb"] # 0
    BY <2>2 DEF MadeInv
  <2>8. pc'["boot"] = 31 /\ ~MakesFb
    BY <2>1, <2>2, <2>4, <1>6 DEF Walked, Moves, BootTypes, MakesFb
  <2>9. FbInv' /\ freed' \subseteq 1..Len(objs')
    BY <2>1, <2>7, <2>8, <1>6, <1>7 DEF FbInv
  <2> QED BY <2>1, <2>3, <2>4, <2>5, <2>6, <2>9, <1>5 DEF BootEffect, Spares
<1>11. CASE Vesa("boot")
  <2>1. /\ o = "vesa" /\ SetObjects(Made(objs, ptr, "fb", 0)) /\ Done("boot")
        /\ UNCHANGED <<glob, freed, routines, irq, kbfull, stale>> /\ UNCHANGED flags
    BY <1>11 DEF Vesa, At, keyboard
  <2>2. pc["boot"] = 31
    BY <2>1, <1>3
  <2>3. Adds("fb", 0)
    BY <2>1, <1>6, AddsOne
  <2>4. /\ objs' \in Seq(ObjectTypes) /\ Len(objs') > Len(objs) /\ Len(objs') \in Nat
        /\ \A n \in 1..Len(objs) : objs'[n] = objs[n]
        /\ objs'[Len(objs) + 1] = Object("fb", 0)
        /\ ptr'["fb"] = Len(objs) + 1 /\ \A e \in Devs \ {"fb"} : ptr'[e] = ptr[e]
    BY <2>3 DEF Adds
  <2>5. Grows
    <3>1. ptr["pci"] # 0
      BY <2>2 DEF MadeInv
    <3> QED BY <2>3, <3>1, <1>6, GrowsOne
  <2>6. Walked(pc["boot"] + 1, "look")
    BY <2>1, <1>4
  <2>7. Switches(pc["boot"] + 1)
    BY <2>1, <2>6, <1>1, <1>3, SwitchesNot
  <2>8. Gets(pc["boot"] + 1)
    BY <2>1, <2>2, <2>4, <1>6 DEF Gets, BootTypes, MadeInv
  <2>9. FbInv'
    <3>1. paging
      BY <2>2 DEF OrderInv
    <3>2. objs'[ptr'["fb"]].bus = 0 /\ objs'[ptr'["fb"]].place = "heap"
      BY <3>1, <2>4 DEF Object
    <3>3. ptr'["fb"] \notin freed' /\ \A n \in freed' : objs'[n] = objs[n]
      BY <2>1, <2>4, <1>6
    <3> QED BY <2>1, <3>2, <3>3 DEF FbInv
  <2>10. freed' \subseteq 1..Len(objs')
    BY <2>1, <2>4, <1>6
  <2> QED BY <2>1, <2>5, <2>6, <2>7, <2>8, <2>9, <2>10, <1>5 DEF BootEffect, Spares
<1> QED BY <1>8, <1>9, <1>10, <1>11

\* A step of the boot code keeps the invariant.
LEMMA BootStep ==
  ASSUME BootAssumption, BootInv, Step("boot")
  PROVE  BootInv'
<1>1. ~Ended("boot")
  BY DEF Step, Look, LookBus, MakeBus, Make, SetGlobal, Serial, Sleep, Use, Set, SysCallInit,
         Initialize, Delete, Vesa, At
<1>2. PICK x, s : BootEffect(x, s)
  BY BootQuiet, BootMakes DEF Step
<1> QED BY <1>1, <1>2, BootKeeps

-----------------------------------------------------------------------------
(* Interrupts                                                                *)

\* A tick wakes those that wait, outside the getters, and nobody else moves.
LEMMA TickKeeps ==
  ASSUME BootAssumption, BootInv, Tick
  PROVE  BootInv'
<1> USE DEF BootInv
<1> DEFINE W == {a \in Actors : Wakes(a)}
           end(a) == IF pc[a] = Len(Code(a)) THEN Again(a) ELSE pc[a] + 1
<1>1. /\ pc' = [a \in Actors |-> IF a \in W THEN end(a) ELSE pc[a]]
      /\ stage' = [a \in Actors |-> IF a \in W THEN "look" ELSE stage[a]]
      /\ running' = IF running = "set" THEN "tasks" ELSE running
      /\ UNCHANGED <<bus, ptr, glob, objs, freed, routines, irq, kbfull, paging, iflag, released, stale>>
  BY DEF Tick, objects, keyboard
<1>2. /\ pc \in [Actors -> Nat \ {0}] /\ stage \in [Actors -> {"look", "bus", "makebus", "make", "wait"}]
      /\ "boot" \in Actors
  BY DEF BootTypes, Actors
<1>3. \A a \in W : stage[a] = "wait" /\ ~Ended(a) /\ end(a) \in Nat \ {0}
  BY <1>2, CodeLength DEF Wakes
<1>4. "boot" \in W =>
        /\ pc["boot"] \in 1..51 /\ end("boot") = pc["boot"] + 1
        /\ pc["boot"] \notin {1, 3, 6, 9, 10, 11, 17, 30, 31, 36, 50, 51}
        /\ pc["boot"] = 21 => \A c \in Cpus \ Late : Ended(c)
  <2> SUFFICES ASSUME "boot" \in W
               PROVE  /\ pc["boot"] \in 1..51 /\ end("boot") = pc["boot"] + 1
                      /\ pc["boot"] \notin {1, 3, 6, 9, 10, 11, 17, 30, 31, 36, 50, 51}
                      /\ pc["boot"] = 21 => \A c \in Cpus \ Late : Ended(c)
    BY Zenon
  <2> DEFINE o == Code("boot")[pc["boot"]].op
             l == Len(Code("boot"))
  <2>1. o \in {"serial", "sleep", "settle"} /\ ~Ended("boot")
    BY <1>3 DEF GetterInv
  <2>2. pc["boot"] \in 1..51 /\ Shape(pc["boot"], o, Dev("boot"))
    BY <2>1, BootAt
  <2>3. l = 51 /\ Again("boot") = l + 1
    BY BootCode DEF Again
  <2>4. end("boot") = IF pc["boot"] = l THEN Again("boot") ELSE pc["boot"] + 1
    OBVIOUS
  <2> HIDE DEF l, end
  <2>5. end("boot") = pc["boot"] + 1
    BY <2>2, <2>3, <2>4
  <2>6. pc["boot"] \notin {1, 3, 6, 9, 10, 11, 17, 30, 31, 36, 50, 51}
    <3>1. pc["boot"] # 51
      <4>1. Code("boot")[51] = Do("run")
        BY BootCode, Entries DEF Entry
      <4> QED BY <4>1, <2>1 DEF Do
    <3> QED BY <3>1, <2>1, <2>2 DEF Shape
  <2>7. pc["boot"] = 21 => o = "settle"
    BY <2>2 DEF Shape
  <2>8. o = "settle" => \A c \in Cpus \ Late : Ended(c)
    BY DEF Wakes
  <2> QED BY <2>2, <2>5, <2>6, <2>7, <2>8
<1> HIDE DEF W, end
<1>5. /\ \A a \in Actors \ W : pc'[a] = pc[a] /\ stage'[a] = stage[a]
      /\ \A a \in Actors \cap W : pc'[a] = end(a) /\ stage'[a] = "look"
  BY <1>1
<1>6. \A a \in Actors : Ended(a) => Ended(a)'
  BY <1>3, <1>5 DEF Ended
<1>7. /\ pc'["boot"] \in 1..52
      /\ \/ pc'["boot"] = pc["boot"] /\ (Making("boot") <=> Making("boot")')
         \/ /\ pc'["boot"] = pc["boot"] + 1 /\ ~Making("boot") /\ ~Making("boot")'
            /\ stage["boot"] = "wait" /\ stage'["boot"] = "look"
            /\ pc["boot"] \in 1..51
            /\ pc["boot"] \notin {1, 3, 6, 9, 10, 11, 17, 30, 31, 36, 50, 51}
            /\ pc["boot"] = 21 => \A c \in Cpus \ Late : Ended(c)
  <2>1. pc["boot"] \in 1..52
    BY DEF BootTypes
  <2>2. CASE "boot" \in W
    BY <2>2, <1>2, <1>3, <1>4, <1>5 DEF Making
  <2>3. CASE "boot" \notin W
    BY <2>1, <2>3, <1>2, <1>5 DEF Making
  <2> QED BY <2>2, <2>3
<1>8. BootTypes'
  <2>1. pc' \in [Actors -> Nat \ {0}]
    BY <1>1, <1>2, <1>3
  <2>2. stage' \in [Actors -> {"look", "bus", "makebus", "make", "wait"}]
    BY <1>1, <1>2
  <2> QED BY <2>1, <2>2, <1>1, <1>7 DEF BootTypes
<1>9. OrderInv'
  <2>1. (running' # "no" => running # "no") /\ (running # "no" => pc["boot"] = 52)
    BY <1>1 DEF OrderInv
  <2>2. running' # "no" => pc'["boot"] = 52
    BY <2>1, <1>7
  <2>0. pc["boot"] \in 1..52
    BY DEF BootTypes
  <2>7. /\ pc'["boot"] \in 1..52 /\ (pc'["boot"] = pc["boot"] \/ pc'["boot"] = pc["boot"] + 1)
        /\ pc["boot"] = 9 => pc'["boot"] = 9
    BY <1>7
  <2>8. /\ pc'["boot"] > 9 => pc["boot"] > 9
        /\ pc["boot"] > 13 => pc'["boot"] > 13
        /\ pc["boot"] > 20 => pc'["boot"] > 20
        /\ pc'["boot"] > 21 => pc["boot"] > 21 \/ (pc["boot"] = 21 /\ pc'["boot"] = 22)
    BY <2>0, <2>7
  <2>3. pc'["boot"] > 9 => paging'
    BY <1>1, <2>8 DEF OrderInv
  <2>4. (iflag' => pc'["boot"] > 13) /\ (released' => pc'["boot"] > 20)
    BY <1>1, <2>8 DEF OrderInv
  <2>9. pc["boot"] = 21 /\ pc'["boot"] = 22 => \A c \in Cpus \ Late : Ended(c)
    BY <1>7
  <2>5. pc'["boot"] > 21 => \A c \in Cpus \ Late : Ended(c)
    BY <2>8, <2>9 DEF OrderInv
  <2>6. \A c \in Cpus \ Late : Ended(c) => Ended(c)'
    BY <1>6 DEF Actors
  <2> QED BY <2>2, <2>3, <2>4, <2>5, <2>6 DEF OrderInv
<1>10. MadeInv'
  <2>1. /\ pc'["boot"] > 1 => pc["boot"] > 1
        /\ pc'["boot"] > 3 => pc["boot"] > 3
        /\ pc'["boot"] > 6 => pc["boot"] > 6
        /\ pc'["boot"] > 10 => pc["boot"] > 10
        /\ pc'["boot"] > 11 => pc["boot"] > 11
        /\ pc'["boot"] > 17 => pc["boot"] > 17
        /\ pc'["boot"] > 36 => pc["boot"] > 36
        /\ pc'["boot"] > 50 => pc["boot"] > 50
    <3>1. pc["boot"] \in 1..52
      BY DEF BootTypes
    <3>2. \/ pc'["boot"] = pc["boot"]
          \/ /\ pc'["boot"] = pc["boot"] + 1
             /\ pc["boot"] \notin {1, 3, 6, 10, 11, 17, 36, 50}
      BY <1>7
    <3> QED BY <3>1, <3>2
  <2> QED BY <2>1, <1>1 DEF MadeInv
<1>11. GetterInv'
  <2>1. \A a \in Actors : Making(a)' => pc'[a] = pc[a] /\ stage'[a] = stage[a]
    BY <1>5 DEF Making
  <2>2. \A a \in Actors : Making(a)' => /\ Making(a) /\ Ended(a)' = Ended(a) /\ Dev(a)' = Dev(a)
                                        /\ Code(a)[pc[a]]' = Code(a)[pc[a]]
    BY <2>1 DEF Making, Ended, Dev
  <2>3. \A a \in Actors : Making(a)' => ~Ended(a)' /\ Code(a)[pc[a]].op' = "get"
    BY <2>2 DEF GetterInv
  <2>4. \A a \in Actors \ {"boot"} :
          Making(a)' => stage'[a] = "make" /\ Dev(a)' \in {"random", "realtime"}
    BY <2>1, <2>2 DEF GetterInv
  <2>5. /\ stage'["boot"] \in {"bus", "makebus"} => Dev("boot")' = "fb"
        /\ stage'["boot"] = "make" /\ Dev("boot")' # "fb" =>
             Dev("boot")' # "pci" /\ ptr'[Dev("boot")'] = 0
    BY <2>1, <2>2, <1>1, <1>2 DEF GetterInv, Making
  <2>6. MakesFb' => ptr'["pci"] # 0 /\ bus'["boot"] = ptr'["pci"]
    BY <2>1, <2>2, <1>1, <1>2 DEF GetterInv, Making, MakesFb
  <2>7. stage'["boot"] = "wait" =>
          ~Ended("boot")' /\ Code("boot")[pc'["boot"]].op \in {"serial", "sleep", "settle"}
    BY <1>2, <1>5 DEF GetterInv, Ended
  <2> QED BY <2>3, <2>4, <2>5, <2>6, <2>7 DEF GetterInv
<1>12. FbInv'
  <2>1. ~MakesFb' => ~MakesFb
    BY <1>2, <1>3, <1>5 DEF MakesFb, Dev
  <2>2. pc["boot"] = 31 => pc'["boot"] = 31
    BY <1>7
  <2> QED BY <2>1, <2>2, <1>1 DEF FbInv
<1>13. KeyboardAlive' /\ StaleOnlyInSwitch'
  BY <1>1 DEF KeyboardAlive, StaleOnlyInSwitch
<1> QED BY <1>8, <1>9, <1>10, <1>11, <1>12, <1>13

\* A step that leaves places, flags and what is made alone keeps what is said of them.
LEMMA SameKeeps ==
  ASSUME BootInv,
         UNCHANGED <<pc, stage, bus, ptr, objs, freed, glob, routines, paging, iflag, released, running>>
  PROVE  BootTypes' /\ OrderInv' /\ MadeInv' /\ GetterInv' /\ FbInv'
<1> USE DEF BootInv
<1>1. BootTypes' /\ OrderInv' /\ MadeInv'
  BY DEF BootTypes, OrderInv, MadeInv, Ended
<1>2. GetterInv'
  BY DEF GetterInv, Making, MakesFb, Ended, Dev
<1>3. FbInv'
  BY DEF FbInv, MakesFb, Dev
<1> QED BY <1>1, <1>2, <1>3

\* The keyboard's routine is installed before interrupts are on.
LEMMA KeyHandled ==
  ASSUME BootInv, KeyIrq
  PROVE  Handled /\ paging /\ kbfull' = FALSE
<1> USE DEF BootInv
<1>1. pc["boot"] > 13 /\ pc["boot"] \in 1..52
  BY DEF KeyIrq, OrderInv, BootTypes
<1>2. pc["boot"] > 9 /\ pc["boot"] > 10 /\ pc["boot"] > 11
  BY <1>1
<1>3. Handled /\ paging
  BY <1>2 DEF MadeInv, OrderInv, Handled
<1> QED BY <1>3 DEF KeyIrq

\* A key, and an interrupt that prints nothing, keep the invariant.
LEMMA KeysKeep ==
  ASSUME BootInv, Press \/ KeySilent
  PROVE  BootInv'
<1>1. UNCHANGED <<pc, stage, bus, ptr, objs, freed, glob, routines, paging, iflag, released, running, stale>>
  BY DEF Press, KeySilent, actors, objects, flags
<1>2. KeyboardAlive'
  BY KeyHandled DEF Press, KeySilent, KeyboardAlive
<1>3. StaleOnlyInSwitch'
  BY <1>1 DEF BootInv, StaleOnlyInSwitch
<1> QED BY <1>1, <1>2, <1>3, SameKeeps DEF BootInv

\* A character printed inside the interrupt may make the frame buffer and its bus.
LEMMA PrintedKeeps ==
  ASSUME BootAssumption, BootInv, KeyPrinted
  PROVE  BootInv'
<1> USE DEF BootInv
<1> DEFINE b == IF ptr["pci"] = 0 THEN Made(objs, ptr, "pci", 0) ELSE [objs |-> objs, ptr |-> ptr]
           f == IF ptr["fb"] = 0 THEN Made(b.objs, b.ptr, "fb", b.ptr["pci"])
                ELSE [objs |-> objs, ptr |-> ptr]
<1>1. /\ paging /\ kbfull' = FALSE
      /\ UNCHANGED <<pc, stage, bus, freed, glob, routines, paging, iflag, released, running>>
  BY KeyHandled DEF KeyPrinted, actors, flags
<1>2. /\ (objs' = objs /\ ptr' = ptr) \/ (objs' = f.objs /\ ptr' = f.ptr)
      /\ stale' \subseteq stale \cup {"key"}
  BY DEF KeyPrinted, SetObjects
<1>3. KeyboardAlive' /\ StaleOnlyInSwitch'
  BY <1>1, <1>2 DEF KeyboardAlive, StaleOnlyInSwitch
<1>4. /\ objs \in Seq(ObjectTypes) /\ Len(objs) \in Nat /\ ptr \in [Devs -> 0..Len(objs)]
      /\ "pci" \in Devs /\ "fb" \in Devs /\ 0 \in Nat
  BY DEF BootTypes, Devs
<1>5. CASE objs' = objs /\ ptr' = ptr
  BY <1>1, <1>3, <1>5, SameKeeps
<1>6. CASE ptr["fb"] # 0 /\ objs' = f.objs /\ ptr' = f.ptr
  <2>1. objs' = objs /\ ptr' = ptr
    BY <1>6
  <2> QED BY <2>1, <1>1, <1>3, SameKeeps
<1>7. CASE ptr["fb"] = 0 /\ objs' = f.objs /\ ptr' = f.ptr
  <2>1. /\ b.objs \in Seq(ObjectTypes) /\ Len(b.objs) \in Nat /\ Len(b.objs) >= Len(objs)
        /\ \A n \in 1..Len(objs) : b.objs[n] = objs[n]
        /\ b.ptr \in [Devs -> 0..Len(b.objs)] /\ b.ptr["pci"] # 0
        /\ \A d \in Devs : b.ptr[d] = ptr[d] \/ (d = "pci" /\ ptr[d] = 0)
    <3>1. CASE ptr["pci"] = 0
      <4> DEFINE m == Made(objs, ptr, "pci", 0)
      <4>1. IsMade(m, objs, ptr, "pci", 0)
        BY <1>4, MadeIs
      <4>2. b = m
        BY <3>1
      <4> HIDE DEF m, b
      <4> QED BY <4>1, <4>2, <3>1, <1>4 DEF IsMade
    <3>2. CASE ptr["pci"] # 0
      BY <3>2, <1>4
    <3> QED BY <3>1, <3>2
  <2>2. f = Made(b.objs, b.ptr, "fb", b.ptr["pci"])
    BY <1>7
  <2> HIDE DEF b, f
  <2>3. b.ptr["pci"] \in Nat
    BY <2>1, <1>4
  <2>4. IsMade(f, b.objs, b.ptr, "fb", b.ptr["pci"])
    BY <2>1, <2>2, <2>3, <1>4, MadeIs
  <2>5. /\ objs' \in Seq(ObjectTypes) /\ Len(objs') \in Nat /\ Len(objs') > Len(objs)
        /\ \A n \in 1..Len(objs) : objs'[n] = objs[n]
        /\ ptr' \in [Devs -> 0..Len(objs')]
        /\ ptr'["fb"] = Len(b.objs) + 1 /\ ptr'["pci"] = b.ptr["pci"]
        /\ objs'[ptr'["fb"]] = Object("fb", ptr'["pci"])
        /\ \A d \in Devs : ptr'[d] = ptr[d] \/ (d \in {"pci", "fb"} /\ ptr[d] = 0)
    BY <2>1, <2>4, <1>4, <1>7 DEF IsMade
  <2>6. ptr'["pci"] # 0 /\ ptr'["fb"] # 0 /\ ptr'["fb"] > Len(objs)
    BY <2>1, <2>5
  <2>7. BootTypes'
    BY <1>1, <2>5 DEF BootTypes
  <2>8. OrderInv'
    BY <1>1 DEF OrderInv, Ended
  <2>9. MadeInv'
    BY <1>1, <2>5, <2>6 DEF MadeInv, Globals, Devs
  <2>10. GetterInv'
    <3>1. \A a \in Actors : /\ Making(a)' = Making(a) /\ Ended(a)' = Ended(a) /\ Dev(a)' = Dev(a)
                            /\ Code(a)[pc[a]]' = Code(a)[pc[a]] /\ stage'[a] = stage[a]
      BY <1>1 DEF Making, Ended, Dev
    <3>2. MakesFb' = MakesFb /\ Dev("boot")' = Dev("boot") /\ stage'["boot"] = stage["boot"]
          /\ bus' = bus /\ pc' = pc /\ Ended("boot")' = Ended("boot")
      BY <1>1 DEF MakesFb, Dev, Ended
    <3>3. stage["boot"] = "make" /\ Dev("boot") # "fb" => ptr'[Dev("boot")] = 0
      <4> SUFFICES ASSUME stage["boot"] = "make", Dev("boot") # "fb" PROVE ptr'[Dev("boot")] = 0
        OBVIOUS
      <4>1. "boot" \in Actors /\ Making("boot")
        BY DEF Actors, Making
      <4>2. ~Ended("boot") /\ Code("boot")[pc["boot"]].op = "get"
        BY <4>1 DEF GetterInv
      <4>3. Dev("boot") \in Devs /\ Dev("boot") # "pci" /\ ptr[Dev("boot")] = 0
        BY <4>2, BootAt DEF GetterInv
      <4> QED BY <4>3, <2>5
    <3>4. MakesFb => ptr'["pci"] = ptr["pci"]
      BY <2>5, <1>4 DEF GetterInv
    <3> QED BY <3>1, <3>2, <3>3, <3>4, <2>6 DEF GetterInv
  <2>11. FbInv'
    <3>1. objs'[ptr'["fb"]].bus = ptr'["pci"] /\ objs'[ptr'["fb"]].place = "heap"
      BY <2>5, <1>1 DEF Object
    <3>2. freed' = freed /\ freed \subseteq 1..Len(objs)
      BY <1>1 DEF BootTypes
    <3>3. \A n \in freed' : objs'[n].place = "heap"
      BY <3>2, <2>5 DEF FbInv
    <3>4. ptr'["fb"] \notin freed'
      <4>1. ptr'["fb"] \in Nat
        BY <2>5, <2>1
      <4> QED BY <4>1, <3>2, <2>6, <1>4
    <3> QED BY <3>1, <3>3, <3>4 DEF FbInv
  <2> QED BY <2>7, <2>8, <2>9, <2>10, <2>11, <1>3
<1> QED BY <1>2, <1>5, <1>6, <1>7

-----------------------------------------------------------------------------
(* The theorem                                                               *)

\* Before the constructor of Kernel nothing is made and nothing is on.
LEMMA BootInits == ASSUME BootAssumption, Init PROVE BootInv
<1>1. /\ pc = [a \in Actors |-> 1] /\ stage = [a \in Actors |-> "look"] /\ bus = [a \in Actors |-> 0]
      /\ ptr = [d \in Devs |-> 0] /\ glob = [d \in {"video", "idt", "timer", "kb"} |-> 0]
      /\ objs = <<>> /\ freed = {} /\ routines = {} /\ kbfull = FALSE
      /\ paging = FALSE /\ iflag = FALSE /\ released = FALSE /\ running = "no" /\ stale = {}
  BY DEF Init
<1>2. "boot" \in Actors /\ "fb" \in Devs /\ "timer" \in Devs /\ "kb" \in Devs /\ Globals \subseteq Devs
  BY DEF Actors, Devs, Globals
<1>3. pc["boot"] = 1 /\ \A a \in Actors : stage[a] = "look"
  BY <1>1, <1>2
<1>4. BootTypes
  <2>1. objs \in Seq(ObjectTypes) /\ Len(objs) = 0
    BY <1>1
  <2>2. glob \in [Globals -> Nat]
    BY <1>1 DEF Globals
  <2>3. pc \in [Actors -> Nat \ {0}] /\ bus \in [Actors -> Nat]
        /\ stage \in [Actors -> {"look", "bus", "makebus", "make", "wait"}]
    BY <1>1
  <2>4. ptr \in [Devs -> 0..Len(objs)]
    BY <1>1, <2>1
  <2>5. paging \in BOOLEAN /\ iflag \in BOOLEAN /\ released \in BOOLEAN
    BY <1>1, Zenon
  <2>6. pc["boot"] \in 1..52
    BY <1>3
  <2>7. freed \subseteq 1..Len(objs) /\ running \in {"no", "set", "tasks"}
    BY <1>1, Zenon
  <2> QED BY <2>1, <2>2, <2>3, <2>4, <2>5, <2>6, <2>7, Zenon DEF BootTypes
<1>5. OrderInv
  BY <1>1, <1>3 DEF OrderInv
<1>6. MadeInv
  <2>1. \A d \in Devs : ptr[d] = 0
    BY <1>1
  <2>2. \A d \in Globals : glob[d] = 0
    BY <1>1 DEF Globals
  <2> QED BY <1>2, <1>3, <2>1, <2>2 DEF MadeInv
<1>7. GetterInv
  BY <1>2, <1>3 DEF GetterInv, Making, MakesFb
<1>8. FbInv /\ KeyboardAlive /\ StaleOnlyInSwitch
  BY <1>1, <1>2 DEF FbInv, KeyboardAlive, StaleOnlyInSwitch
<1> QED BY <1>4, <1>5, <1>6, <1>7, <1>8 DEF BootInv

\* Every step keeps the invariant.
LEMMA BootSteps == ASSUME BootAssumption, BootInv, [Next]_vars PROVE BootInv'
<1>1. CASE UNCHANGED vars
  <2>1. UNCHANGED <<pc, stage, bus, ptr, objs, freed, glob, routines, paging, iflag, released,
                    running, irq, kbfull, stale>>
    BY <1>1 DEF vars, actors, objects, keyboard, flags
  <2>2. KeyboardAlive' /\ StaleOnlyInSwitch'
    BY <2>1 DEF BootInv, KeyboardAlive, StaleOnlyInSwitch
  <2> QED BY <2>1, <2>2, SameKeeps DEF BootInv
<1>2. ASSUME NEW a \in Actors, Step(a)
      PROVE  BootInv'
  <2>1. CASE a = "boot"
    BY <1>2, <2>1, BootStep
  <2>2. CASE a # "boot"
    <3>1. OtherEffect(a)
      BY <1>2, <2>2, OtherStep
    <3> QED BY <2>2, <3>1, OtherKeeps
  <2> QED BY <2>1, <2>2
<1>3. CASE Tick
  BY <1>3, TickKeeps
<1>4. CASE Press \/ KeySilent
  BY <1>4, KeysKeep
<1>5. CASE KeyPrinted
  BY <1>5, PrintedKeeps
<1> QED BY <1>1, <1>2, <1>3, <1>4, <1>5 DEF Next, Stopped

\* The invariant says what the run checks.
LEMMA BootReady == ASSUME BootInv PROVE ObjectsReady
<1> USE DEF BootInv
<1>1. OneOfEach
  <2> SUFFICES ASSUME \A a \in Actors : stage[a] \in {"look", "wait"}
               PROVE  /\ ptr["fb"] # 0 /\ objs[ptr["fb"]].bus # 0 => objs[ptr["fb"]].bus = ptr["pci"]
                      /\ \A d \in DOMAIN glob : glob[d] \in {0, ptr[d]}
    BY DEF OneOfEach
  <2>1. ~MakesFb
    BY DEF MakesFb, Actors
  <2>2. DOMAIN glob = Globals
    BY DEF BootTypes
  <2> QED BY <2>1, <2>2 DEF FbInv, MadeInv
<1>2. HeapFreed
  BY DEF HeapFreed, FbInv, BootTypes
<1>3. DeletedInSwitch
  <2> SUFFICES ASSUME ptr["fb"] \in freed
               PROVE  ~Ended("boot") /\ Code("boot")[pc["boot"]].op = "vesa"
    BY DEF DeletedInSwitch
  <2>1. pc["boot"] = 31
    BY DEF FbInv
  <2>2. Len(Code("boot")) = 51
    BY BootCode
  <2>3. Shape(31, Code("boot")[31].op, Code("boot")[31].dev)
    BY BootPlace
  <2>4. Code("boot")[31].op = "vesa"
    BY <2>3 DEF Shape
  <2> QED BY <2>1, <2>2, <2>4 DEF Ended
<1> QED BY <1>1, <1>2, <1>3 DEF ObjectsReady

\* Whatever interrupts a getter of Platform, for any number of CPUs, late ones and keys: outside the
\* getters the frame buffer has the bus of Platform::pci() and Video, IDT, Timer and KB the objects of
\* Platform; a full keyboard has asked for an interrupt; only objects of the heap are deleted, Platform
\* points to a deleted frame buffer only until fbAlternative() makes the next one, and only late CPUs
\* and keys use it.
THEOREM ObjectsAreReady == StartSpec => []ObjectsReady
<1>1. StartInit => BootInv
  BY BootInits, BootAssumption DEF StartInit
<1>2. BootInv /\ [StartNext]_all => BootInv'
  <2>1. [StartNext]_all => [Next]_vars
    BY DEF StartNext, Devices, Others, Objects, all
  <2> QED BY <2>1, BootSteps, BootAssumption
<1>3. BootInv => ObjectsReady
  BY BootReady
<1> QED BY <1>1, <1>2, <1>3, PTL DEF StartSpec

-----------------------------------------------------------------------------
(* The walk over the bus                                                     *)

\* A set of numbers has a least one.
LEMMA LeastNat ==
  ASSUME NEW T \in SUBSET Nat, T # {}
  PROVE  \E n \in T : \A m \in T : n <= m
<1> DEFINE R == OpToRel(<, Nat)
<1>1. IsWellFoundedOn(R, Nat)
  BY NatLessThanWellFounded
<1> HIDE DEF R
<1>2. PICK n \in T : \A m \in T : ~(<<m, n>> \in R)
  BY <1>1, WFMin
<1>3. \A m \in T : <<m, n>> \in R <=> m < n
  BY DEF R, OpToRel
<1>4. n \in Nat /\ \A m \in T : m \in Nat
  OBVIOUS
<1>5. ASSUME NEW m \in T PROVE n <= m
  <2>1. ~(m < n)
    BY <1>2, <1>3
  <2> QED BY <1>4, <2>1
<1> QED BY <1>5

\* A position has three numbers, and they are all of it.
LEMMA PositionParts ==
  ASSUME D!PciAssumption
  PROVE  /\ \A p \in D!Positions : p[1] \in Nat /\ p[2] \in Nat /\ p[3] \in Nat /\ p[1] <= LastBus
         /\ \A p \in D!Positions : <<p[1], p[2], 0>> \in D!Positions /\ <<p[1], p[2]>> \in (0..LastBus) \X (0..LastDev)
         /\ \A p, q \in D!Positions : p[1] = q[1] /\ p[2] = q[2] /\ p[3] = q[3] => p = q
         /\ D!Start \in D!Positions /\ D!Over \notin D!Positions /\ LastBus \in Nat
<1>1. LastBus \in Nat /\ LastDev \in Nat /\ LastFunc \in Nat
  BY DEF D!PciAssumption
<1>2. \A p \in D!Positions : p[1] \in 0..LastBus /\ p[2] \in 0..LastDev /\ p[3] \in 0..LastFunc
  BY DEF D!Positions
<1>3. \A p \in D!Positions : p[1] \in Nat /\ p[2] \in Nat /\ p[3] \in Nat /\ p[1] <= LastBus
  BY <1>1, <1>2
<1>4. \A p \in D!Positions : p = <<p[1], p[2], p[3]>>
  BY DEF D!Positions
<1>5. \A p, q \in D!Positions : p[1] = q[1] /\ p[2] = q[2] /\ p[3] = q[3] => p = q
  BY <1>4
<1>6. 0 \in 0..LastBus /\ 0 \in 0..LastDev /\ 0 \in 0..LastFunc
  BY <1>1
<1>7. \A p \in D!Positions : <<p[1], p[2], 0>> \in D!Positions /\ <<p[1], p[2]>> \in (0..LastBus) \X (0..LastDev)
  BY <1>2, <1>6 DEF D!Positions
<1>8. D!Start \in D!Positions
  BY <1>6 DEF D!Start, D!Positions
<1>9. D!Over \notin D!Positions
  <2>1. D!Over[1] = LastBus + 1
    BY DEF D!Over
  <2>2. ~(LastBus + 1 <= LastBus)
    BY <1>1
  <2> QED BY <1>3, <2>1, <2>2
<1> QED BY <1>1, <1>3, <1>5, <1>7, <1>8, <1>9

\* The positions are ordered.
LEMMA BeforeOrders ==
  ASSUME D!PciAssumption, NEW p \in D!Positions, NEW q \in D!Positions, NEW r \in D!Positions
  PROVE  /\ ~D!Before(p, p) /\ (p = q \/ D!Before(p, q) \/ D!Before(q, p))
         /\ (D!Before(p, q) => ~D!Before(q, p))
         /\ (D!Before(p, q) /\ D!Before(q, r) => D!Before(p, r))
BY PositionParts DEF D!Before

\* A set of positions has a first one.
LEMMA FirstPosition ==
  ASSUME D!PciAssumption, NEW T \in SUBSET D!Positions, T # {}
  PROVE  \E p \in T : \A q \in T : q = p \/ D!Before(p, q)
<1>0. \A p \in T : p \in D!Positions /\ p[1] \in Nat /\ p[2] \in Nat /\ p[3] \in Nat
  BY PositionParts
<1> DEFINE A == {p[1] : p \in T}
<1>1. PICK a \in A : \A m \in A : a <= m
  <2>1. A \in SUBSET Nat /\ A # {}
    BY <1>0
  <2> HIDE DEF A
  <2> QED BY <2>1, LeastNat
<1> DEFINE U == {p \in T : p[1] = a}
           B == {p[2] : p \in U}
<1>2. PICK b \in B : \A m \in B : b <= m
  <2>1. B \in SUBSET Nat /\ B # {}
    BY <1>0, <1>1
  <2> HIDE DEF B
  <2> QED BY <2>1, LeastNat
<1> DEFINE V == {p \in U : p[2] = b}
           C == {p[3] : p \in V}
<1>3. PICK c \in C : \A m \in C : c <= m
  <2>1. C \in SUBSET Nat /\ C # {}
    BY <1>0, <1>2
  <2> HIDE DEF C
  <2> QED BY <2>1, LeastNat
<1>4. PICK p \in V : p[3] = c
  BY <1>3
<1>5. p \in T /\ p[1] = a /\ p[2] = b /\ p[3] = c
  BY <1>4
<1>6. ASSUME NEW q \in T PROVE q = p \/ D!Before(p, q)
  <2>1. a <= q[1]
    BY <1>1, <1>6
  <2>2. q[1] = a => b <= q[2]
    BY <1>2, <1>6
  <2>3. q[1] = a /\ q[2] = b => c <= q[3]
    BY <1>3, <1>6
  <2> HIDE DEF A, B, C, U, V
  <2>4. q = p \/ ~(q[1] = p[1] /\ q[2] = p[2] /\ q[3] = p[3])
    BY <1>0, <1>5, <1>6, PositionParts
  <2> QED BY <1>0, <1>5, <1>6, <2>1, <2>2, <2>3, <2>4 DEF D!Before
<1> QED BY <1>5, <1>6

\* What findNextDevice() can come to.
Reached(i, w) == {p \in D!Positions : D!Visited(i, p) /\ D!Answers(p) /\ D!What(p) = w}

LEMMA FindsFirst ==
  ASSUME D!PciAssumption, NEW i, NEW w
  PROVE  /\ Reached(i, w) = {} => D!FindNext(i, w) = D!Over
         /\ Reached(i, w) # {} =>
              /\ D!FindNext(i, w) \in Reached(i, w) /\ D!FindNext(i, w) # D!Over
              /\ \A q \in Reached(i, w) : q = D!FindNext(i, w) \/ D!Before(D!FindNext(i, w), q)
<1> DEFINE T == Reached(i, w)
<1>1. D!FindNext(i, w) = IF T = {} THEN D!Over
                         ELSE CHOOSE p \in T : \A q \in T : q = p \/ D!Before(p, q)
  BY DEF D!FindNext, Reached
<1>2. T \in SUBSET D!Positions
  BY DEF Reached
<1> HIDE DEF T
<1>3. T # {} => \E p \in T : \A q \in T : q = p \/ D!Before(p, q)
  BY <1>2, FirstPosition
<1>4. D!Over \notin T
  BY <1>2, PositionParts
<1> QED BY <1>1, <1>3, <1>4 DEF T

\* A walk from the start meets every function there is.
LEMMA AllReached ==
  ASSUME D!PciAssumption, machine \in Machines, NEW p \in D!Positions
  PROVE  D!Visited(D!Start, p) /\ D!Answers(p) <=> p \in D!Functions
<1> DEFINE first == <<p[1], p[2], 0>>
<1>1. p[1] \in Nat /\ p[2] \in Nat /\ p[3] \in Nat /\ first \in D!Positions
      /\ <<p[1], p[2]>> \in (0..LastBus) \X (0..LastDev)
  BY PositionParts
<1>2. ~D!Before(p, D!Start) /\ ~D!Before(first, D!Start)
  BY <1>1 DEF D!Before, D!Start
<1>3. D!Answers(p) => D!Answers(first)
  BY <1>1 DEF D!PciAssumption, D!Answers, D!Slot
<1>4. D!IsMulti(first) <=> D!Slot(p).multi
  BY DEF D!IsMulti, D!Slot
<1> QED BY <1>2, <1>3, <1>4 DEF D!Visited, D!Functions

LEMMA StartReaches ==
  ASSUME D!PciAssumption, machine \in Machines
  PROVE  /\ D!Scanned = D!Functions
         /\ \A w : Reached(D!Start, w) = {p \in D!Functions : D!What(p) = w}
<1>1. \A p : p \in D!Functions => p \in D!Positions
  BY DEF D!Functions
<1> QED BY <1>1, AllReached DEF D!Scanned, Reached

-----------------------------------------------------------------------------
(* The choice of a mode                                                      *)

\* The list of a BIOS that Vesa::query() goes through, with the values b of its loop.
Pick(list, prefer, b, k) ==
  IF k = 0 THEN 0
  ELSE IF ~D!Usable(list[k]) THEN b[k - 1]
  ELSE IF b[k - 1] = 0 THEN k
  ELSE IF D!ModeDiff(prefer, list[k]) < D!ModeDiff(prefer, list[b[k - 1]]) THEN k
  ELSE b[k - 1]

Picks(list, prefer, n, b) == b = [k \in 0..n |-> Pick(list, prefer, b, k)]

\* The loop has values.
LEMMA PicksExist ==
  ASSUME NEW list, NEW prefer, NEW n \in Nat
  PROVE  \E b : Picks(list, prefer, n, b)
<1> DEFINE T == {m \in Nat : ~\E b : Picks(list, prefer, m, b)}
<1> SUFFICES ASSUME T # {} PROVE FALSE
  OBVIOUS
<1>1. PICK m \in T : \A i \in T : m <= i
  <2>1. T \in SUBSET Nat
    OBVIOUS
  <2> HIDE DEF T
  <2> QED BY <2>1, LeastNat
<1>2. m \in Nat /\ ~\E b : Picks(list, prefer, m, b)
  OBVIOUS
<1>3. CASE m = 0
  <2> DEFINE b == [k \in 0..0 |-> 0]
  <2>1. b = [k \in 0..0 |-> Pick(list, prefer, b, k)]
    <3>1. \A k \in 0..0 : Pick(list, prefer, b, k) = 0
      BY DEF Pick
    <3> QED BY <3>1
  <2> HIDE DEF b
  <2>2. Picks(list, prefer, 0, b)
    BY <2>1 DEF Picks
  <2> QED BY <1>2, <1>3, <2>2
<1>4. CASE m # 0
  <2>1. m - 1 \in Nat /\ m - 1 \notin T
    BY <1>1, <1>2, <1>4
  <2>2. PICK u : Picks(list, prefer, m - 1, u)
    BY <2>1
  <2> DEFINE b == [k \in 0..m |-> IF k = m THEN Pick(list, prefer, u, m) ELSE u[k]]
  <2>3. DOMAIN b = 0..m /\ b = [k \in 0..m |-> b[k]]
    OBVIOUS
  <2>4. \A k \in 0..m - 1 : b[k] = u[k] /\ u[k] = Pick(list, prefer, u, k)
    BY <1>2, <2>2 DEF Picks
  <2>5. b[m] = Pick(list, prefer, u, m)
    BY <1>2
  <2> HIDE DEF b
  <2>6. ASSUME NEW k \in 0..m PROVE b[k] = Pick(list, prefer, b, k)
    <3>1. b[k] = Pick(list, prefer, u, k)
      <4>1. k = m \/ k \in 0..m - 1
        BY <1>2
      <4> QED BY <2>4, <2>5, <4>1
    <3>2. k # 0 => b[k - 1] = u[k - 1]
      <4>1. k # 0 => k - 1 \in 0..m - 1
        BY <1>2
      <4> QED BY <2>4, <4>1
    <3> QED BY <3>1, <3>2 DEF Pick
  <2>7. b = [k \in 0..m |-> Pick(list, prefer, b, k)]
    BY <2>3, <2>6
  <2>8. Picks(list, prefer, m, b)
    BY <2>7 DEF Picks
  <2> QED BY <1>2, <2>8
<1> QED BY <1>3, <1>4

\* How two modes of the list compare.
Nearer(list, prefer, j, k) ==
  LET dj == D!ModeDiff(prefer, list[j])
      dk == D!ModeDiff(prefer, list[k])
  IN  dj < dk \/ (dj = dk /\ j < k)

\* A place is right for the first n modes.
Right(list, prefer, n, k) ==
  /\ k = 0 => \A j \in 1..n : ~D!Usable(list[j])
  /\ k # 0 => /\ k \in 1..n /\ D!Usable(list[k])
              /\ \A j \in 1..n : D!Usable(list[j]) => ~Nearer(list, prefer, j, k)

\* The differences are numbers.
LEMMA DiffNumber ==
  ASSUME NEW a, NEW b PROVE D!ModeDiff(a, b) \in Nat
<1>1. \A c : D!One(c) \in Nat
  BY DEF D!One
<1> DEFINE A == D!One(a.width # b.width)
           B == D!One(a.width > b.width)
           C == D!One(a.height # b.height)
           E == D!One(a.height > b.height)
           F == D!One(a.depth # b.depth)
           G == D!One(a.depth > b.depth)
           H == D!One(a.bpl # b.bpl)
<1>2. D!ModeDiff(a, b) = A + B + C + E + F + G + H
  BY DEF D!ModeDiff
<1>3. A \in Nat /\ B \in Nat /\ C \in Nat /\ E \in Nat /\ F \in Nat /\ G \in Nat /\ H \in Nat
  BY <1>1
<1> HIDE DEF A, B, C, E, F, G, H
<1> QED BY <1>2, <1>3

\* The loop comes to a place that is right.
LEMMA PickRight ==
  ASSUME NEW list, NEW prefer, NEW n \in Nat, NEW b, Picks(list, prefer, n, b)
  PROVE  Right(list, prefer, n, b[n])
<1> DEFINE T == {m \in 0..n : ~Right(list, prefer, m, b[m])}
<1>1. T = {}
  <2> SUFFICES ASSUME T # {} PROVE FALSE
    OBVIOUS
  <2>1. PICK m \in T : \A i \in T : m <= i
    <3>1. T \in SUBSET Nat
      OBVIOUS
    <3> HIDE DEF T
    <3> QED BY <3>1, LeastNat
  <2>2. m \in 0..n /\ m \in Nat /\ ~Right(list, prefer, m, b[m])
    OBVIOUS
  <2>3. b[m] = Pick(list, prefer, b, m)
    BY <2>2 DEF Picks
  <2>4. m # 0
    BY <2>2, <2>3 DEF Pick, Right
  <2>5. m - 1 \in 0..n /\ m - 1 \notin T
    BY <2>1, <2>2, <2>4
  <2> DEFINE u == b[m - 1]
             d == [k \in Nat |-> D!ModeDiff(prefer, list[k])]
  <2>6. Right(list, prefer, m - 1, u)
    BY <2>5
  <2>7. \A k \in Nat : d[k] \in Nat /\ d[k] = D!ModeDiff(prefer, list[k])
    BY DiffNumber
  <2>8. \A j, k \in Nat : Nearer(list, prefer, j, k) <=> (d[j] < d[k] \/ (d[j] = d[k] /\ j < k))
    BY <2>7 DEF Nearer
  <2> HIDE DEF d, u, T
  <2>9. \A j \in 1..m : j \in 1..m - 1 \/ j = m
    BY <2>2
  <2>10. \A j \in 1..m - 1 : j \in 1..m /\ j < m /\ j \in Nat
    BY <2>2
  <2>11. m \in 1..m
    BY <2>2, <2>4
  <2>12. b[m] = IF ~D!Usable(list[m]) THEN u
                ELSE IF u = 0 THEN m
                ELSE IF D!ModeDiff(prefer, list[m]) < D!ModeDiff(prefer, list[u]) THEN m
                ELSE u
    BY <2>3, <2>4 DEF Pick, u
  <2>13. CASE ~D!Usable(list[m])
    <3>1. b[m] = u
      BY <2>12, <2>13
    <3> QED BY <2>2, <2>6, <2>9, <2>10, <2>13, <3>1 DEF Right
  <2>14. CASE D!Usable(list[m]) /\ u = 0
    <3>1. b[m] = m
      BY <2>12, <2>14
    <3>2. ~Nearer(list, prefer, m, m)
      BY <2>2, <2>7, <2>8
    <3> QED BY <2>2, <2>4, <2>6, <2>9, <2>11, <2>14, <3>1, <3>2 DEF Right
  <2>15. CASE D!Usable(list[m]) /\ u # 0
    <3>1. u \in 1..m - 1 /\ D!Usable(list[u]) /\ \A j \in 1..m - 1 : D!Usable(list[j]) => ~Nearer(list, prefer, j, u)
      BY <2>6, <2>15 DEF Right
    <3>2. u \in Nat /\ u < m /\ u \in 1..m
      BY <2>10, <3>1
    <3>3. CASE D!ModeDiff(prefer, list[m]) < D!ModeDiff(prefer, list[u])
      <4>1. b[m] = m /\ d[m] < d[u]
        BY <2>2, <2>7, <2>12, <2>15, <3>2, <3>3
      <4>2. ~Nearer(list, prefer, m, m)
        BY <2>2, <2>7, <2>8
      <4>3. ASSUME NEW j \in 1..m - 1, D!Usable(list[j]) PROVE ~Nearer(list, prefer, j, m)
        <5>1. ~(d[j] < d[u] \/ (d[j] = d[u] /\ j < u)) /\ j \in Nat
          BY <2>8, <2>10, <3>1, <3>2, <4>3
        <5>2. d[j] \in Nat /\ d[u] \in Nat /\ d[m] \in Nat
          BY <2>2, <2>7, <3>2, <5>1
        <5>3. ~(d[j] < d[m] \/ (d[j] = d[m] /\ j < m))
          BY <4>1, <5>1, <5>2
        <5> QED BY <2>2, <2>8, <5>1, <5>3
      <4> QED BY <2>2, <2>4, <2>9, <2>11, <2>15, <4>1, <4>2, <4>3 DEF Right
    <3>4. CASE ~(D!ModeDiff(prefer, list[m]) < D!ModeDiff(prefer, list[u]))
      <4>1. b[m] = u /\ ~(d[m] < d[u])
        BY <2>2, <2>7, <2>12, <2>15, <3>2, <3>4
      <4>2. ~Nearer(list, prefer, m, u)
        <5>1. ~(m < u)
          BY <2>2, <3>2
        <5> QED BY <2>2, <2>8, <3>2, <4>1, <5>1
      <4> QED BY <2>2, <2>9, <2>15, <3>1, <3>2, <4>1, <4>2 DEF Right
    <3> QED BY <3>3, <3>4
  <2> QED BY <2>13, <2>14, <2>15
<1>2. n \in 0..n
  OBVIOUS
<1> QED BY <1>1, <1>2

\* Vesa::query() takes the first of the modes that can be used and differ least.
LEMMA ModeRight ==
  ASSUME NEW list, NEW prefer, Len(list) \in Nat
  PROVE  Right(list, prefer, Len(list), D!ModeChosen(list, prefer))
<1> DEFINE b == CHOOSE f : Picks(list, prefer, Len(list), f)
<1>1. D!ModeChosen(list, prefer) = b[Len(list)]
  BY DEF D!ModeChosen, Picks, Pick
<1>2. Picks(list, prefer, Len(list), b)
  BY PicksExist
<1> HIDE DEF b
<1> QED BY <1>1, <1>2, PickRight

-----------------------------------------------------------------------------
(* The controllers                                                           *)

\* The first controller of each device.
Firsts == {p \in D!Controllers : ~\E q \in D!Controllers : q[1] = p[1] /\ q[2] = p[2] /\ q[3] < p[3]}

\* What is set up is exactly c, each once.
SetUp(c) ==
  /\ commands = c /\ IsFiniteSet(commands) /\ controllers \in Seq(D!Positions)
  /\ {controllers[k] : k \in DOMAIN controllers} = commands
  /\ Cardinality(commands) = Len(controllers)

\* Those up to the iterator are set up, or it stays at a function 0 for ever.
WalkInv ==
  \/ iter = D!Start /\ SetUp({})
  \/ iter \in D!Controllers /\ iter[3] = 0
  \/ iter \in Firsts /\ iter[3] # 0 /\ SetUp({p \in Firsts : p = iter \/ D!Before(p, iter)})

LEMMA ControllersAre ==
  ASSUME D!PciAssumption
  PROVE  /\ \A p \in D!Controllers : p \in D!Positions /\ D!Answers(p) /\ D!What(p) = "ide"
         /\ Firsts \subseteq D!Controllers
BY DEF D!Controllers, D!Functions, Firsts

\* What the walk can come to from a controller that is not function 0: those of later devices.
LEMMA ReachedLater ==
  ASSUME D!PciAssumption, machine \in Machines, iter \in D!Controllers, iter[3] # 0,
         NEW p
  PROVE  p \in Reached(iter, "ide") <=>
           p \in D!Controllers /\ (iter[1] < p[1] \/ (iter[1] = p[1] /\ iter[2] < p[2]))
<1>1. p \in D!Positions =>
        /\ (D!Visited(D!Start, p) /\ D!Answers(p) <=> p \in D!Functions)
        /\ p[1] \in Nat /\ p[2] \in Nat /\ p[3] \in Nat
  BY AllReached, PositionParts
<1>2. iter[1] \in Nat /\ iter[2] \in Nat /\ iter[3] \in Nat
  BY ControllersAre, PositionParts
<1>3. \A q : q \in D!Controllers <=> q \in D!Functions /\ D!What(q) = "ide"
  BY DEF D!Controllers
<1>4. \A q : q \in D!Functions => q \in D!Positions
  BY DEF D!Functions
<1> DEFINE later == iter[1] < p[1] \/ (iter[1] = p[1] /\ iter[2] < p[2])
           first == <<p[1], p[2], 0>>
<1>5. ASSUME p \in D!Positions
      PROVE  D!Visited(iter, p) <=> later /\ D!Visited(D!Start, p)
  <2>0. first[1] = p[1] /\ first[2] = p[2] /\ first[3] = 0
    OBVIOUS
  <2>1. ~D!Before(p, D!Start) /\ ~D!Before(first, D!Start)
    BY <1>1, <1>5, <2>0 DEF D!Before, D!Start
  <2>2. ~D!Before(first, iter) <=> later
    BY <1>1, <1>2, <1>5, <2>0 DEF D!Before
  <2>3. later => ~D!Before(p, iter)
    BY <1>1, <1>2, <1>5 DEF D!Before
  <2>4. p[3] = 0 => (~D!Before(p, iter) <=> later)
    BY <1>1, <1>2, <1>5 DEF D!Before
  <2> HIDE DEF later, first
  <2>5. \A i : D!Visited(i, p) <=> ~D!Before(p, i) /\ (p[3] = 0
          \/ (~D!Before(first, i) /\ D!Answers(first) /\ D!IsMulti(first)))
    BY DEF D!Visited, first
  <2> QED BY <2>1, <2>2, <2>3, <2>4, <2>5
<1> HIDE DEF later
<1>6. p \in Reached(iter, "ide") <=> p \in D!Positions /\ D!Visited(iter, p) /\ D!Answers(p) /\ D!What(p) = "ide"
  BY DEF Reached
<1> QED BY <1>1, <1>3, <1>4, <1>5, <1>6 DEF later

\* One more controller.
LEMMA OneSetUp ==
  ASSUME D!PciAssumption, NEW c, SetUp(c), NEW p \in D!Positions, p \notin c,
         controllers' = Append(controllers, p), commands' = commands \cup {p}
  PROVE  /\ commands' = c \cup {p} /\ IsFiniteSet(commands') /\ controllers' \in Seq(D!Positions)
         /\ {controllers'[k] : k \in DOMAIN controllers'} = commands'
         /\ Cardinality(commands') = Len(controllers')
<1>1. commands' = c \cup {p} /\ commands = c /\ IsFiniteSet(c) /\ controllers \in Seq(D!Positions)
      /\ {controllers[k] : k \in DOMAIN controllers} = c /\ Cardinality(c) = Len(controllers)
  BY DEF SetUp
<1>2. IsFiniteSet(c \cup {p}) /\ Cardinality(c \cup {p}) = Cardinality(c) + 1
  BY <1>1, FS_AddElement
<1> DEFINE n == Len(controllers)
           s == Append(controllers, p)
<1>3. n \in Nat /\ s \in Seq(D!Positions) /\ Len(s) = n + 1 /\ DOMAIN s = 1..n + 1
      /\ DOMAIN controllers = 1..n /\ s[n + 1] = p /\ \A k \in 1..n : s[k] = controllers[k]
  BY <1>1
<1> HIDE DEF s, n
<1>4. {s[k] : k \in DOMAIN s} = {controllers[k] : k \in DOMAIN controllers} \cup {p}
  <2>1. \A k \in 1..n : k \in 1..n + 1
    BY <1>3
  <2>2. \A k \in 1..n + 1 : k \in 1..n \/ k = n + 1
    BY <1>3
  <2>3. n + 1 \in 1..n + 1
    BY <1>3
  <2> QED BY <1>3, <2>1, <2>2, <2>3
<1> QED BY <1>1, <1>2, <1>3, <1>4 DEF s, n

\* Whatever is come to is there.
LEMMA ReachedThere ==
  ASSUME D!PciAssumption, machine \in Machines, NEW i, NEW w, NEW p \in Reached(i, w)
  PROVE  p \in D!Positions /\ p \in D!Functions /\ D!What(p) = w
<1>1. D!Visited(i, p) /\ D!Answers(p) /\ D!What(p) = w /\ p \in D!Positions
  BY DEF Reached
<1>2. D!Visited(D!Start, p)
  <2> DEFINE first == <<p[1], p[2], 0>>
  <2>1. p[1] \in Nat /\ p[2] \in Nat /\ p[3] \in Nat
    BY <1>1, PositionParts
  <2>2. ~D!Before(p, D!Start) /\ ~D!Before(first, D!Start)
    BY <2>1 DEF D!Before, D!Start
  <2> HIDE DEF first
  <2> QED BY <1>1, <2>2 DEF D!Visited, first
<1> QED BY <1>1, <1>2, AllReached

\* At function 0 the walk stays.
LEMMA StaysAtZero ==
  ASSUME D!PciAssumption, machine \in Machines, iter \in D!Controllers, iter[3] = 0
  PROVE  D!FindNext(iter, "ide") = iter /\ iter # D!Over
<1> DEFINE m == D!FindNext(iter, "ide")
<1>1. iter \in D!Positions /\ D!Answers(iter) /\ D!What(iter) = "ide"
  BY ControllersAre
<1>2. iter \in Reached(iter, "ide")
  BY <1>1, BeforeOrders DEF Reached, D!Visited
<1>3. m \in Reached(iter, "ide") /\ (iter = m \/ D!Before(m, iter))
  BY <1>2, FindsFirst
<1>4. ~D!Before(m, iter)
  BY <1>3 DEF Reached, D!Visited
<1> QED BY <1>1, <1>3, <1>4, PositionParts

\* Whatever comes after a first controller and is one itself is on a later device.
LEMMA FirstsApart ==
  ASSUME D!PciAssumption, iter \in Firsts, NEW p \in Firsts
  PROVE  \/ p = iter \/ D!Before(p, iter)
         \/ iter[1] < p[1] \/ (iter[1] = p[1] /\ iter[2] < p[2])
<1>1. iter \in D!Positions /\ p \in D!Positions /\ iter \in D!Controllers
  BY ControllersAre
<1>2. p = iter \/ D!Before(p, iter) \/ D!Before(iter, p)
  BY <1>1, BeforeOrders
<1>3. ~(iter[1] = p[1] /\ iter[2] = p[2] /\ iter[3] < p[3])
  BY <1>1 DEF Firsts
<1> QED BY <1>2, <1>3 DEF D!Before

\* The loop of ATA::init() goes on to the first controller of the next device that has one.
LEMMA WalkGoesOn ==
  ASSUME D!PciAssumption, machine \in Machines, WalkInv, D!SetUpController
  PROVE  WalkInv'
<1> DEFINE m == D!FindNext(iter, "ide")
           T == Reached(iter, "ide")
<1>1. /\ m # D!Over /\ iter' = m /\ commands' = commands \cup {m} /\ controllers' = Append(controllers, m)
      /\ machine' = machine
  BY DEF D!SetUpController
<1>2. m \in T /\ \A q \in T : q = m \/ D!Before(m, q)
  BY <1>1, FindsFirst
<1>3. \A p \in T : p \in D!Positions /\ p \in D!Controllers
  BY ReachedThere DEF D!Controllers
<1> HIDE DEF m, T
<1>4. D!Controllers' = D!Controllers /\ Firsts' = Firsts
  <2>1. D!Functions' = D!Functions /\ \A p : D!What(p)' = D!What(p)
    BY <1>1 DEF D!Functions, D!Answers, D!Slot, D!What
  <2>2. D!Controllers' = D!Controllers
    BY <2>1 DEF D!Controllers
  <2> QED BY <2>2 DEF Firsts
<1>5. \A p \in Firsts : p \in D!Controllers /\ p \in D!Positions
  BY ControllersAre
<1>6. m \in D!Controllers /\ m \in D!Positions
  BY <1>2, <1>3
<1>7. \A q \in D!Positions : ~D!Before(q, m) \/ ~D!Before(m, q)
  BY <1>6, BeforeOrders
<1>8. CASE iter = D!Start /\ SetUp({})
  <2>1. T = D!Controllers
    BY <1>8, StartReaches DEF T, D!Controllers
  <2>2. m \in Firsts
    <3> SUFFICES ASSUME NEW q \in D!Controllers, q[1] = m[1], q[2] = m[2], q[3] < m[3] PROVE FALSE
      BY <1>6 DEF Firsts
    <3>1. D!Before(q, m)
      BY DEF D!Before
    <3>2. q = m \/ D!Before(m, q)
      BY <1>2, <2>1
    <3>3. q # m
      BY <1>6, PositionParts
    <3> QED BY <1>3, <1>7, <2>1, <3>1, <3>2, <3>3
  <2>3. {p \in Firsts : p = m \/ D!Before(p, m)} = {} \cup {m}
    BY <1>2, <1>5, <1>7, <2>1, <2>2
  <2> DEFINE none == {}
  <2>4. SetUp(none) /\ m \notin none
    BY <1>8
  <2> HIDE DEF none
  <2>5. /\ commands' = none \cup {m} /\ IsFiniteSet(commands') /\ controllers' \in Seq(D!Positions)
        /\ {controllers'[k] : k \in DOMAIN controllers'} = commands'
        /\ Cardinality(commands') = Len(controllers')
    BY <1>1, <1>6, <2>4, OneSetUp
  <2>6. commands' = {p \in Firsts : p = m \/ D!Before(p, m)}
    BY <2>3, <2>5 DEF none
  <2>7. SetUp({p \in Firsts : p = iter \/ D!Before(p, iter)})'
    BY <1>1, <1>4, <2>5, <2>6 DEF SetUp, D!Before, D!Positions
  <2> QED BY <1>1, <1>4, <1>6, <2>2, <2>7 DEF WalkInv
<1>9. CASE iter \in D!Controllers /\ iter[3] = 0
  BY <1>1, <1>4, <1>9, StaysAtZero DEF WalkInv, m
<1>10. CASE iter \in Firsts /\ iter[3] # 0 /\ SetUp({p \in Firsts : p = iter \/ D!Before(p, iter)})
  <2> DEFINE old == {p \in Firsts : p = iter \/ D!Before(p, iter)}
             Later(p) == iter[1] < p[1] \/ (iter[1] = p[1] /\ iter[2] < p[2])
  <2>1. \A p : p \in T <=> p \in D!Controllers /\ Later(p)
    BY <1>5, <1>10, ReachedLater DEF T
  <2>2. m \in Firsts
    <3> SUFFICES ASSUME NEW q \in D!Controllers, q[1] = m[1], q[2] = m[2], q[3] < m[3] PROVE FALSE
      BY <1>6 DEF Firsts
    <3>1. D!Before(q, m)
      BY DEF D!Before
    <3>2. q \in T
      BY <1>2, <2>1
    <3>3. q = m \/ D!Before(m, q)
      BY <1>2, <3>2
    <3>4. q # m
      BY <1>6, PositionParts
    <3> QED BY <1>3, <1>7, <3>1, <3>2, <3>3, <3>4
  <2>3. D!Before(iter, m) /\ iter \in D!Positions
    BY <1>2, <1>5, <1>10, <2>1 DEF D!Before
  <2>4. m \notin old
    BY <1>6, <2>3, BeforeOrders
  <2>5. {p \in Firsts : p = m \/ D!Before(p, m)} = old \cup {m}
    <3>1. ASSUME NEW p \in old PROVE p \in Firsts /\ D!Before(p, m)
      BY <1>5, <1>6, <2>3, BeforeOrders
    <3>2. ASSUME NEW p \in Firsts, D!Before(p, m) PROVE p \in old
      <4>1. ~Later(p)
        <5> SUFFICES ASSUME Later(p) PROVE FALSE
          OBVIOUS
        <5>1. p \in T
          BY <1>5, <2>1
        <5>2. p = m \/ D!Before(m, p)
          BY <1>2, <5>1
        <5> QED BY <1>5, <1>7, <3>2, <5>2
      <4> QED BY <1>10, <4>1, FirstsApart
    <3> QED BY <2>2, <3>1, <3>2
  <2>6. /\ commands' = old \cup {m} /\ IsFiniteSet(commands') /\ controllers' \in Seq(D!Positions)
        /\ {controllers'[k] : k \in DOMAIN controllers'} = commands'
        /\ Cardinality(commands') = Len(controllers')
    <3> HIDE DEF old
    <3>1. SetUp(old)
      BY <1>10 DEF old
    <3> QED BY <1>1, <1>6, <2>4, <3>1, OneSetUp
  <2>7. SetUp({p \in Firsts : p = iter \/ D!Before(p, iter)})'
    <3> HIDE DEF old
    <3>1. commands' = {p \in Firsts : p = m \/ D!Before(p, m)}
      BY <2>5, <2>6
    <3> QED BY <1>1, <1>4, <2>6, <3>1 DEF SetUp, D!Before, D!Positions
  <2> QED BY <1>1, <1>4, <1>6, <2>2, <2>7 DEF WalkInv
<1> QED BY <1>8, <1>9, <1>10 DEF WalkInv

\* When it ends, the first controller of every device is set up.
LEMMA WalkEnds ==
  ASSUME D!PciAssumption, machine \in Machines, WalkInv, D!FindNext(iter, "ide") = D!Over
  PROVE  SetUp(Firsts)
<1>1. Reached(iter, "ide") = {}
  BY FindsFirst
<1>2. CASE iter = D!Start /\ SetUp({})
  <2>1. D!Controllers = {}
    BY <1>1, <1>2, StartReaches DEF D!Controllers
  <2>2. Firsts = {}
    BY <2>1 DEF Firsts
  <2> QED BY <1>2, <2>2
<1>3. CASE iter \in D!Controllers /\ iter[3] = 0
  BY <1>3, StaysAtZero
<1>4. CASE iter \in Firsts /\ iter[3] # 0 /\ SetUp({p \in Firsts : p = iter \/ D!Before(p, iter)})
  <2>1. iter \in D!Controllers
    BY <1>4, ControllersAre
  <2>2. ASSUME NEW p \in Firsts PROVE p = iter \/ D!Before(p, iter)
    <3>1. p \in D!Controllers
      BY ControllersAre
    <3>2. ~(iter[1] < p[1] \/ (iter[1] = p[1] /\ iter[2] < p[2]))
      BY <1>1, <1>4, <2>1, <3>1, ReachedLater
    <3> QED BY <1>4, <3>2, FirstsApart
  <2>3. {p \in Firsts : p = iter \/ D!Before(p, iter)} = Firsts
    BY <2>2
  <2> QED BY <1>4, <2>3
<1> QED BY <1>2, <1>3, <1>4 DEF WalkInv

-----------------------------------------------------------------------------
(* All of the start                                                          *)

Begun == {"video", "alternative", "query"}
BeforeBus == Begun \cup {"configure", "draw", "scan"}

\* The class of the frame buffer is that of what is plugged in.
ClassInv ==
  /\ at = "video" => fb = D!NewFB("bochs")
  /\ at = "alternative" => ~\E p \in D!Functions : D!What(p) = "bochs"
  /\ at = "query" => (fb.class = "bochs" <=> \E p \in D!Functions : D!What(p) = "bochs")

\* A mode that a BIOS offered was the right one, and all of its frame is mapped.
RightMode ==
  \E k \in DOMAIN offered[1] :
    /\ D!Chosen(k) /\ D!Usable(offered[1][k])
    /\ ~\E j \in DOMAIN offered[1] : D!Usable(offered[1][j]) /\ D!Better(j, k)

ModeInv ==
  /\ at \in Begun => offered = <<>>
  /\ at = "configure" => mapped * PAGE_SIZE >= mode.bpl * mode.height
  /\ offered # <<>> => RightMode

\* The bus is not walked before, and only once.
BusInv ==
  /\ at \in BeforeBus => iter = D!Start /\ SetUp({})
  /\ at = "ata" => listed = D!Functions /\ WalkInv
  /\ D!Running => SetUp(Firsts)

DevInv == machine \in Machines /\ ClassInv /\ ModeInv /\ BusInv

\* From 0 to a size, in pages, is enough for it.
LEMMA PagesEnough ==
  ASSUME NEW a \in Nat, NEW p \in Nat \ {0}
  PROVE  ((a \div p) + 1) * p >= a
<1> DEFINE q == a \div p
           r == a % p
<1>1. q \in Nat /\ r \in Nat /\ r < p /\ a = p * q + r
  <2>1. p > 0
    OBVIOUS
  <2>2. q \in Nat
    OBVIOUS
  <2>3. r \in Nat /\ r < p
    OBVIOUS
  <2>4. a = p * q + r
    OBVIOUS
  <2> QED BY <2>2, <2>3, <2>4
<1> HIDE DEF q, r
<1>3. (q + 1) * p = p * q + p
  BY <1>1
<1>4. p * q \in Nat
  BY <1>1
<1>5. (q + 1) * p >= a
  BY <1>1, <1>3, <1>4
<1> QED BY <1>5 DEF q

\* Where the machine stays, so does what is on it.
LEMMA MachineSame ==
  ASSUME machine' = machine
  PROVE  /\ D!Functions' = D!Functions /\ (\A p : D!What(p)' = D!What(p)) /\ Firsts' = Firsts
         /\ D!Controllers' = D!Controllers
<1>1. D!Functions' = D!Functions /\ \A p : D!What(p)' = D!What(p)
  BY DEF D!Functions, D!Answers, D!Slot, D!What
<1>2. D!Controllers' = D!Controllers
  BY <1>1 DEF D!Controllers
<1> QED BY <1>1, <1>2 DEF Firsts

LEMMA WalkSame ==
  ASSUME UNCHANGED D!bus
  PROVE  /\ WalkInv' = WalkInv /\ SetUp(Firsts)' = SetUp(Firsts) /\ SetUp({})' = SetUp({})
<1>1. UNCHANGED <<machine, iter, controllers, commands, listed>>
  BY DEF D!bus
<1>2. Firsts' = Firsts /\ D!Controllers' = D!Controllers
  BY <1>1, MachineSame
<1>3. ASSUME NEW c PROVE SetUp(c)' = SetUp(c)
  BY <1>1 DEF SetUp, D!Positions
<1>4. SetUp(Firsts)' = SetUp(Firsts)
  BY <1>1, <1>2 DEF SetUp, D!Positions
<1>5. SetUp({p \in Firsts : p = iter \/ D!Before(p, iter)})' = SetUp({p \in Firsts : p = iter \/ D!Before(p, iter)})
  BY <1>1, <1>2 DEF SetUp, D!Positions, D!Before
<1> QED BY <1>1, <1>2, <1>3, <1>4, <1>5 DEF WalkInv, D!Start

\* A mode that stays is as right as it was.
LEMMA ModeSame ==
  ASSUME UNCHANGED <<mode, offered>>, RightMode
  PROVE  RightMode'
BY DEF RightMode, D!Chosen, D!Better

\* initFrameBuffer() until there is a mode.
LEMMA ClassStep ==
  ASSUME D!PciAssumption, DevInv, D!InitBochs \/ D!Alternative
  PROVE  DevInv'
<1>1. /\ UNCHANGED D!bus /\ UNCHANGED <<mode, offered, mapped>> /\ machine' = machine
      /\ at \in Begun /\ at' \in {"alternative", "query"} /\ at # "configure"
  BY DEF D!InitBochs, D!Alternative, Begun, D!bus
<1>2. BusInv'
  <2>1. at' \in BeforeBus /\ at \in BeforeBus /\ at' # "ata" /\ ~D!Running'
    BY <1>1 DEF Begun, BeforeBus, D!Running
  <2> QED BY <1>1, <2>1, WalkSame DEF DevInv, BusInv, D!bus, D!Start
<1>3. ModeInv'
  BY <1>1 DEF DevInv, ModeInv, Begun
<1>4. D!Functions' = D!Functions /\ \A p : D!What(p)' = D!What(p)
  BY <1>1, MachineSame
<1>5. ClassInv'
  <2>1. CASE D!InitBochs
    <3>1. fb = D!NewFB("bochs") /\ fb' = [fb EXCEPT !.hg = D!FindNext(D!Start, "bochs")]
          /\ at' = IF fb'.hg = D!Over THEN "alternative" ELSE "query"
      BY <2>1 DEF D!InitBochs, DevInv, ClassInv
    <3>2. fb'.class = "bochs" /\ fb'.hg = D!FindNext(D!Start, "bochs")
      BY <3>1 DEF D!NewFB
    <3>3. Reached(D!Start, "bochs") = {p \in D!Functions : D!What(p) = "bochs"}
      BY StartReaches DEF DevInv
    <3>4. fb'.hg = D!Over <=> ~\E p \in D!Functions : D!What(p) = "bochs"
      BY <3>2, <3>3, FindsFirst
    <3> QED BY <1>4, <3>1, <3>2, <3>4 DEF ClassInv
  <2>2. CASE D!Alternative
    <3>1. at = "alternative" /\ at' = "query" /\ fb'.class = "vesa"
      BY <2>2 DEF D!Alternative, D!NewFB
    <3> QED BY <1>4, <3>1 DEF DevInv, ClassInv
  <2> QED BY <2>1, <2>2
<1> QED BY <1>1, <1>2, <1>3, <1>5 DEF DevInv

\* query() of either class.
LEMMA QueryStep ==
  ASSUME D!PciAssumption, D!DisplayAssumption, DevInv, D!QueryBochs \/ D!QueryVesa
  PROVE  DevInv'
<1>1. UNCHANGED D!bus /\ machine' = machine /\ at = "query" /\ at' \in {"configure", "scan"}
  BY DEF D!QueryBochs, D!QueryVesa, D!bus
<1>2. BusInv'
  <2>1. at' \in BeforeBus /\ at \in BeforeBus /\ at' # "ata" /\ ~D!Running'
    BY <1>1 DEF Begun, BeforeBus, D!Running
  <2> QED BY <1>1, <2>1, WalkSame DEF DevInv, BusInv, D!bus, D!Start
<1>3. ClassInv' /\ at' \notin Begun /\ offered = <<>>
  BY <1>1 DEF ClassInv, Begun, DevInv, ModeInv
<1>4. PAGE_SIZE \in Nat \ {0}
  BY DEF D!DisplayAssumption
<1>5. CASE D!QueryBochs
  <2> DEFINE d == IF Prefer.depth \in {8, 16, 24, 32} THEN Prefer.depth ELSE 32
             w == Prefer.width
             h == Prefer.height
             l == (w * d) \div 8
  <2>1. mode'.bpl = l /\ mode'.height = h /\ mapped' = D!Pages(mode') /\ offered' = offered
    BY <1>5 DEF D!QueryBochs
  <2>2. w \in Nat /\ h \in Nat /\ d \in Nat
    BY DEF D!DisplayAssumption
  <2> HIDE DEF w, h, d
  <2>3. l \in Nat
    BY <2>2
  <2> HIDE DEF l
  <2>4. l * h \in Nat
    BY <2>2, <2>3
  <2>5. mapped' = ((l * h) \div PAGE_SIZE) + 1
    BY <2>1 DEF D!Pages
  <2>6. mapped' * PAGE_SIZE >= mode'.bpl * mode'.height
    BY <1>4, <2>1, <2>4, <2>5, PagesEnough
  <2>7. ModeInv'
    BY <1>3, <2>1, <2>6 DEF ModeInv
  <2> QED BY <1>1, <1>2, <1>3, <2>7 DEF DevInv
<1>6. CASE at' = "scan" /\ UNCHANGED <<mode, mapped, offered>>
  BY <1>1, <1>2, <1>3, <1>6 DEF DevInv, ModeInv
<1>7. CASE D!QueryVesa /\ ~(at' = "scan" /\ UNCHANGED <<mode, mapped, offered>>)
  <2>1. PICK list \in ModeLists, bpl \in LineLengths :
          LET prefer == [Prefer EXCEPT !.bpl = bpl]
              k      == D!ModeChosen(list, prefer)
          IN  /\ k # 0
              /\ mode' = [f \in DOMAIN D!NoMode |-> list[k][f]]
              /\ mapped' = D!Pages(list[k])
              /\ offered' = <<list, prefer>>
    BY <1>7 DEF D!QueryVesa
  <2> DEFINE prefer == [Prefer EXCEPT !.bpl = bpl]
             k      == D!ModeChosen(list, prefer)
             n      == Len(list)
  <2>2. list \in Seq([width: Nat, height: Nat, depth: Nat, bpl: Nat, id: Nat, linear: BOOLEAN])
    BY DEF D!DisplayAssumption
  <2> DEFINE Modes == [width: Nat, height: Nat, depth: Nat, bpl: Nat, id: Nat, linear: BOOLEAN]
  <2>3. n \in Nat /\ DOMAIN list = 1..n /\ \A j \in 1..n : list[j] \in Modes
    <3> HIDE DEF Modes
    <3>1. list \in Seq(Modes)
      BY <2>2 DEF Modes
    <3> QED BY <3>1
  <2>4. Right(list, prefer, n, k)
    BY <2>3, ModeRight
  <2>5. k # 0 /\ mode' = [f \in DOMAIN D!NoMode |-> list[k][f]] /\ mapped' = D!Pages(list[k])
        /\ offered' = <<list, prefer>>
    BY <2>1
  <2> HIDE DEF k, prefer, n, Modes
  <2>6. k \in 1..n /\ D!Usable(list[k]) /\ \A j \in 1..n : D!Usable(list[j]) => ~Nearer(list, prefer, j, k)
    BY <2>4, <2>5 DEF Right
  <2>7. offered'[1] = list /\ offered'[2] = prefer
    BY <2>5
  <2>8. \A j : D!Better(j, k)' <=> Nearer(list, prefer, j, k)
    BY <2>7 DEF D!Better, Nearer
  <2>9. D!Chosen(k)'
    BY <2>5, <2>7 DEF D!Chosen
  <2>10. RightMode'
    BY <2>3, <2>6, <2>7, <2>8, <2>9 DEF RightMode
  <2>11. list[k] \in Modes
    BY <2>3, <2>6
  <2> DEFINE l == list[k].bpl
             h == list[k].height
  <2>12. l \in Nat /\ h \in Nat /\ mode'.bpl = l /\ mode'.height = h
    BY <2>5, <2>11 DEF D!NoMode, Modes
  <2>13. mapped' = ((l * h) \div PAGE_SIZE) + 1
    BY <2>5 DEF D!Pages
  <2> HIDE DEF l, h
  <2>14. l * h \in Nat
    BY <2>12
  <2>15. mapped' * PAGE_SIZE >= mode'.bpl * mode'.height
    BY <1>4, <2>12, <2>13, <2>14, PagesEnough
  <2>16. ModeInv'
    BY <1>3, <2>10, <2>15 DEF ModeInv
  <2> QED BY <1>1, <1>2, <1>3, <2>16 DEF DevInv
<1> QED BY <1>5, <1>6, <1>7

\* The steps that leave the bus alone, from configure() to kernel_loop().
LEMMA QuietStep ==
  ASSUME DevInv, UNCHANGED D!bus, mode' = mode, offered' = <<>> \/ offered' = offered,
         mapped' = mapped,
         \/ at' = at /\ fb' = fb
         \/ at' \in {"draw", "scan"} /\ at \in {"configure", "draw"}
         \/ at' = "stuck"
         \/ D!Running /\ D!Running'
  PROVE  DevInv'
<1>1. machine' = machine /\ iter' = iter /\ listed' = listed
  BY DEF D!bus
<1>2. D!Functions' = D!Functions /\ \A p : D!What(p)' = D!What(p)
  BY <1>1, MachineSame
<1>3. ClassInv'
  BY <1>2 DEF DevInv, ClassInv, D!Running
<1>4. ModeInv'
  <2>1. offered' # <<>> => RightMode'
    BY ModeSame DEF DevInv, ModeInv
  <2>2. at' \in Begun => offered' = <<>>
    BY DEF DevInv, ModeInv, Begun, D!Running
  <2>3. at' = "configure" => mapped' * PAGE_SIZE >= mode'.bpl * mode'.height
    BY DEF DevInv, ModeInv, D!Running
  <2> QED BY <2>1, <2>2, <2>3 DEF ModeInv
<1>5. BusInv'
  <2>1. at' \in BeforeBus => at \in BeforeBus
    BY DEF BeforeBus, Begun, D!Running
  <2>2. at' = "ata" => at = "ata"
    BY DEF D!Running
  <2>3. D!Running' => D!Running
    BY DEF D!Running
  <2> QED BY <1>1, <1>2, <2>1, <2>2, <2>3, WalkSame DEF DevInv, BusInv, D!Start
<1> QED BY <1>1, <1>3, <1>4, <1>5 DEF DevInv

\* initPCI() and ATA::init().
LEMMA BusStep ==
  ASSUME D!PciAssumption, DevInv, D!ScanDevices \/ D!SetUpController \/ D!NoController
  PROVE  DevInv'
<1>1. /\ machine' = machine /\ UNCHANGED <<mode, offered>> /\ at \in {"scan", "ata"} /\ at' \in {"ata", "loop"}
  BY DEF D!ScanDevices, D!SetUpController, D!NoController, D!screen
<1>2. ClassInv' /\ ModeInv'
  BY <1>1, ModeSame DEF DevInv, ClassInv, ModeInv, Begun
<1>3. D!Functions' = D!Functions /\ Firsts' = Firsts
  BY <1>1, MachineSame
<1>4. at' \notin BeforeBus
  BY <1>1 DEF BeforeBus, Begun
<1>5. BusInv'
  <2>1. CASE D!ScanDevices
    <3>1. at = "scan" /\ at' = "ata" /\ listed' = D!Scanned /\ UNCHANGED <<iter, controllers, commands>>
      BY <2>1 DEF D!ScanDevices
    <3>2. iter = D!Start /\ SetUp({})
      BY <3>1 DEF DevInv, BusInv, BeforeBus, Begun
    <3>3. iter' = D!Start /\ SetUp({})'
      BY <3>1, <3>2 DEF SetUp, D!Positions
    <3>4. WalkInv'
      BY <3>3 DEF WalkInv, D!Start
    <3>5. D!Scanned = D!Functions
      BY StartReaches DEF DevInv
    <3> QED BY <1>3, <1>4, <3>1, <3>4, <3>5 DEF BusInv, D!Running
  <2>2. CASE D!SetUpController
    <3>1. at = "ata" /\ at' = "ata" /\ listed' = listed
      BY <2>2 DEF D!SetUpController
    <3>2. WalkInv'
      BY <2>2, <3>1, WalkGoesOn DEF DevInv, BusInv
    <3> QED BY <1>3, <1>4, <3>1, <3>2 DEF DevInv, BusInv, D!Running
  <2>3. CASE D!NoController
    <3>1. at = "ata" /\ at' = "loop" /\ UNCHANGED <<controllers, commands>> /\ D!FindNext(iter, "ide") = D!Over
      BY <2>3 DEF D!NoController
    <3>2. SetUp(Firsts)
      BY <3>1, WalkEnds DEF DevInv, BusInv
    <3>3. SetUp(Firsts)'
      BY <1>3, <3>1, <3>2 DEF SetUp, D!Positions
    <3> QED BY <1>4, <3>1, <3>3 DEF BusInv
  <2> QED BY <2>1, <2>2, <2>3
<1> QED BY <1>1, <1>2, <1>5 DEF DevInv

\* The invariant holds at first.
LEMMA DevicesBegin == ASSUME D!Init PROVE DevInv
<1>1. /\ at = "video" /\ machine \in Machines /\ iter = D!Start /\ controllers = <<>> /\ commands = {}
      /\ fb = D!NewFB("bochs") /\ offered = <<>>
  BY DEF D!Init
<1>2. SetUp({})
  <2>1. IsFiniteSet({}) /\ Cardinality({}) = 0
    BY FS_EmptySet
  <2>2. <<>> \in Seq(D!Positions) /\ Len(<<>>) = 0 /\ DOMAIN <<>> = {}
    OBVIOUS
  <2>3. {controllers[k] : k \in DOMAIN controllers} = {}
    BY <1>1, <2>2
  <2> QED BY <1>1, <2>1, <2>2, <2>3 DEF SetUp
<1> QED BY <1>1, <1>2 DEF DevInv, ClassInv, ModeInv, BusInv, D!Running, BeforeBus, Begun

\* Every step keeps it.
LEMMA DevicesStep ==
  ASSUME D!PciAssumption, D!DisplayAssumption, DevInv, [D!Next]_(D!vars)
  PROVE  DevInv'
<1> USE DEF D!screen, D!vars
<1>1. CASE UNCHANGED D!vars
  BY <1>1, QuietStep
<1>2. CASE D!InitBochs \/ D!Alternative
  BY <1>2, ClassStep
<1>3. CASE D!QueryBochs \/ D!QueryVesa
  BY <1>3, QueryStep
<1>4. CASE D!ConfigureFails
  BY <1>4, QuietStep DEF D!ConfigureFails
<1>5. CASE D!Configure
  BY <1>5, QuietStep DEF D!Configure
<1>6. CASE D!DrawTestData
  BY <1>6, QuietStep DEF D!DrawTestData
<1>7. CASE D!ScanDevices \/ D!SetUpController \/ D!NoController
  BY <1>7, BusStep
<1>8. CASE D!OutOfMemory
  BY <1>8, QuietStep DEF D!OutOfMemory
<1>9. CASE D!LoopSwap
  <2>1. D!Running /\ D!Running'
    BY <1>9 DEF D!LoopSwap, D!Running
  <2> QED BY <1>9, <2>1, QuietStep DEF D!LoopSwap
<1>10. CASE D!LoopBlit
  <2>1. D!Running /\ D!Running'
    BY <1>10 DEF D!LoopBlit, D!Running
  <2> QED BY <1>10, <2>1, QuietStep DEF D!LoopBlit
<1>11. CASE D!LoopBlitRest
  <2>1. D!Running /\ D!Running'
    BY <1>11 DEF D!LoopBlitRest, D!Running
  <2> QED BY <1>11, <2>1, QuietStep DEF D!LoopBlitRest
<1>12. CASE D!Stuck
  BY <1>12, QuietStep DEF D!Stuck
<1>13. CASE D!Write
  BY <1>13, QuietStep DEF D!Write, D!HandleChar
<1>14. CASE D!SetOrigin
  BY <1>14, QuietStep DEF D!SetOrigin
<1> QED BY <1>1, <1>2, <1>3, <1>4, <1>5, <1>6, <1>7, <1>8, <1>9, <1>10, <1>11, <1>12, <1>13, <1>14
        DEF D!Next, D!KernelStep

\* It says what the run checks.
LEMMA DevicesReady == ASSUME DevInv PROVE D!DevicesFound
<1>1. D!Running => /\ commands = Firsts /\ {controllers[k] : k \in DOMAIN controllers} = commands
                   /\ Cardinality(commands) = Len(controllers)
  BY DEF DevInv, BusInv, SetUp
<1>2. \A c : D!Cardinality(c) = Cardinality(c)
  BY DEF D!Cardinality, Cardinality, D!IsFiniteSet, IsFiniteSet
<1> QED BY <1>1, <1>2 DEF DevInv, ClassInv, ModeInv, RightMode, BusInv, D!DevicesFound, Firsts

\* Whatever is plugged in and whatever a BIOS offers: Bochs' device is taken if there is one, and
\* otherwise the first of the modes that differ least; all of its frame is mapped; scanDevices() reads
\* every function once; and ATA::init(), when it ends, has set up the first controller of every device
\* once, for any numbers of buses, devices and functions.
THEOREM DevicesAreFound == StartSpec => []DevicesFound
<1>1. StartInit => DevInv
  BY DevicesBegin DEF StartInit
<1>2. DevInv /\ [StartNext]_all => DevInv'
  <2>1. [StartNext]_all => [D!Next]_(D!vars)
    BY DEF StartNext, Devices, Others, Objects, all, screen, D!vars, D!bus, D!screen, D!console
  <2> QED BY <2>1, DevicesStep, StartAssumption
<1>3. DevInv => DevicesFound
  BY DevicesReady DEF DevicesFound
<1> QED BY <1>1, <1>2, <1>3, PTL DEF StartSpec

-----------------------------------------------------------------------------
(* The text on the screen                                                    *)

\* What a cell may hold.
Ink == Glyphs \cup {"line", "square", "rubbish"}

Lines    == [D!Cols -> SUBSET Ink]
Pictures == [D!Rows -> Lines]
Papers   == [0..MaxRow -> Lines]

\* A console between two functions of Video.
Consoles ==
  [mem: [D!Areas -> Pictures], x: 0..D!Width, y: Nat, origin: Nat, top: Nat,
   rows: Papers, smudged: BOOLEAN, stray: BOOLEAN]

\* What is written to, a row of it, and a row of the text.
Window(s)   == s.mem[D!Area]
TextOf(s, n) == IF n <= MaxRow THEN s.rows[n] ELSE D!Blank

\* The window shows the text from row top on, nothing is below the cursor, and the text ends
\* with the window.
Shows(s) ==
  /\ \A r \in 0..D!Height - 1 : Window(s)[r] = TextOf(s, s.top + r)
  /\ \A r \in s.y + 1..D!Height, c \in D!Cols : Window(s)[r][c] \cap Glyphs = {}
  /\ Window(s)[D!Height] = D!Blank
  /\ \A n \in Nat : n >= s.top + D!Height => TextOf(s, n) = D!Blank
  /\ ~s.stray

\* The frame buffer while text is written: text goes to the buffer from which it is copied.
OneBuffer == fb.configured \in BOOLEAN /\ (fb.configured => fb.buffer = "back" /\ fb.back = "back")

\* The console has a size.
Sized == D!DisplayAssumption /\ D!Usual(size)

\* The sizes.
LEMMA ScreenSizes ==
  ASSUME Sized
  PROVE  /\ D!Width \in Nat \ {0} /\ D!Height \in Nat /\ D!Height >= 2 /\ TAB_SIZE \in Nat \ {0}
         /\ PAGE_SIZE \in Nat \ {0} /\ MaxRow \in Nat /\ MaxRow >= D!Height + 1
         /\ D!Cols = 0..D!Width - 1 /\ D!Rows = 0..D!Height /\ D!Blank \in Lines
         /\ \A c \in D!Cols : D!Blank[c] = {}
         /\ Glyphs \subseteq Ink /\ {"line", "square"} \subseteq Ink
BY DEF Sized, D!DisplayAssumption, D!Usual, D!Width, D!Height, D!Cols, D!Rows, D!Blank, D!BlankRow, Lines, Ink

LEMMA WindowIs ==
  ASSUME OneBuffer
  PROVE  /\ D!Area \in D!Areas
         /\ D!Area = IF fb.configured THEN fb.buffer ELSE "text"
BY DEF OneBuffer, D!Area, D!Areas

\* A row of the text is a row of cells.
LEMMA TextLines ==
  ASSUME Sized, NEW s \in Consoles, NEW n \in Nat
  PROVE  TextOf(s, n) \in Lines
<1>1. s.rows \in [0..MaxRow -> Lines]
  BY DEF Consoles, Papers
<1> QED BY <1>1, ScreenSizes DEF TextOf

\* n rows leave the window.
LEMMA RolledOff ==
  ASSUME Sized, NEW s \in Consoles, NEW n \in Nat
  PROVE  /\ D!Rolled(s, n) \in Consoles
         /\ D!Rolled(s, n).mem = s.mem /\ D!Rolled(s, n).top = s.top + n
         /\ D!Rolled(s, n).x = s.x /\ D!Rolled(s, n).y = s.y /\ D!Rolled(s, n).origin = s.origin
         /\ D!Rolled(s, n).smudged = s.smudged /\ D!Rolled(s, n).stray = s.stray
         /\ \A k \in Nat : k >= s.top + n => TextOf(D!Rolled(s, n), k) = TextOf(s, k)
<1> DEFINE rows == [r \in 0..MaxRow |-> IF r < s.top + n THEN D!Blank ELSE s.rows[r]]
           t == D!Rolled(s, n)
<1>1. t = [s EXCEPT !.top = s.top + n, !.rows = rows]
  BY DEF D!Rolled
<1>2. s.rows \in [0..MaxRow -> Lines] /\ s.top \in Nat
  BY DEF Consoles, Papers
<1>3. rows \in Papers
  BY <1>2, ScreenSizes DEF Papers
<1>4. \A k \in Nat : k >= s.top + n /\ k <= MaxRow => rows[k] = s.rows[k]
  BY <1>2, ScreenSizes
<1> HIDE DEF rows
<1>5. t \in Consoles /\ t.rows = rows /\ t.top = s.top + n /\ t.mem = s.mem /\ t.x = s.x /\ t.y = s.y
      /\ t.origin = s.origin /\ t.smudged = s.smudged /\ t.stray = s.stray
  <2>1. s.top + n \in Nat
    BY <1>2
  <2> DEFINE k == s.top + n
  <2>2. t = [s EXCEPT !.top = k, !.rows = rows] /\ k \in Nat
    BY <1>1, <2>1
  <2> HIDE DEF k, t
  <2>3. t \in Consoles /\ t.rows = rows /\ t.top = k /\ t.mem = s.mem /\ t.x = s.x /\ t.y = s.y
      /\ t.origin = s.origin /\ t.smudged = s.smudged /\ t.stray = s.stray
    BY <1>3, <2>2 DEF Consoles
  <2> QED BY <2>3 DEF k
<1> HIDE DEF t
<1>6. \A k \in Nat : k >= s.top + n => TextOf(t, k) = TextOf(s, k)
  BY <1>4, <1>5 DEF TextOf
<1> QED BY <1>5, <1>6 DEF t

\* An area of the memory gets another picture.
LEMMA Redrawn ==
  ASSUME NEW s \in Consoles, NEW a \in D!Areas, NEW p \in Pictures
  PROVE  /\ [s EXCEPT !.mem[a] = p] \in Consoles
         /\ [s EXCEPT !.mem[a] = p].mem[a] = p
         /\ [s EXCEPT !.mem[a] = p].rows = s.rows /\ [s EXCEPT !.mem[a] = p].top = s.top
         /\ [s EXCEPT !.mem[a] = p].x = s.x /\ [s EXCEPT !.mem[a] = p].y = s.y
         /\ [s EXCEPT !.mem[a] = p].origin = s.origin
         /\ [s EXCEPT !.mem[a] = p].smudged = s.smudged /\ [s EXCEPT !.mem[a] = p].stray = s.stray
<1> DEFINE m == [s.mem EXCEPT ![a] = p]
<1>1. s.mem \in [D!Areas -> Pictures]
  BY DEF Consoles
<1>2. m \in [D!Areas -> Pictures] /\ m[a] = p
  BY <1>1
<1>3. [s EXCEPT !.mem[a] = p] = [s EXCEPT !.mem = m]
  OBVIOUS
<1> HIDE DEF m
<1> QED BY <1>2, <1>3 DEF Consoles

\* One row leaves the window of a frame buffer, with the cursor.
LEMMA FrameScrolled ==
  ASSUME Sized, OneBuffer, fb.configured, NEW s \in Consoles, Shows(s), s.y >= D!Height
  PROVE  /\ D!ScrollFrame(s) \in Consoles /\ Shows(D!ScrollFrame(s))
         /\ D!ScrollFrame(s).x = s.x /\ D!ScrollFrame(s).y = s.y - 1
         /\ D!ScrollFrame(s).top = s.top + 1 /\ D!ScrollFrame(s).smudged = s.smudged
<1> DEFINE t == D!Rolled(s, 1)
           o == Window(s)
           p == [r \in D!Rows |-> IF r < D!Height - 1 THEN o[r + 1] ELSE D!Blank]
           u == [t EXCEPT !.mem["back"] = p]
           z == D!ScrollFrame(s)
<1>1. D!Area = "back" /\ fb.buffer = "back" /\ "back" \in D!Areas
  BY DEF OneBuffer, D!Area, D!Areas
<1>2. fb.buffer # D!Null
  BY <1>1 DEF D!Null
<1>3. t \in Consoles /\ t.mem = s.mem /\ t.top = s.top + 1 /\ t.x = s.x /\ t.y = s.y
      /\ t.smudged = s.smudged /\ t.stray = s.stray
      /\ \A k \in Nat : k >= s.top + 1 => TextOf(t, k) = TextOf(s, k)
  <2>1. 1 \in Nat
    OBVIOUS
  <2> QED BY <2>1, RolledOff
<1>4. o \in Pictures /\ s.y \in Nat /\ s.top \in Nat
  BY <1>1 DEF Window, Consoles
<1>0. s.y \in Nat /\ s.top \in Nat
  BY <1>4
<1>00. D!Height \in Nat /\ D!Height >= 2 /\ D!Rows = 0..D!Height
  BY ScreenSizes
<1>5. p \in Pictures
  BY <1>4, ScreenSizes DEF Pictures
<1>6. z = [t EXCEPT !.mem["back"] = p, !.y = t.y - 1]
  <2>1. z = [t EXCEPT !.mem["back"] = [r \in D!Rows |-> IF r < D!Height - 1 THEN t.mem["back"][r + 1] ELSE D!Blank],
                      !.y = t.y - 1]
    BY <1>1, <1>2 DEF D!ScrollFrame
  <2>2. o = t.mem["back"]
    BY <1>1, <1>3 DEF Window
  <2> QED BY <2>1, <2>2
<1> HIDE DEF t, o, p
<1>7. z = [u EXCEPT !.y = t.y - 1]
  BY <1>6
<1>8. u \in Consoles /\ u.mem["back"] = p /\ u.rows = t.rows /\ u.top = t.top /\ u.x = t.x /\ u.y = t.y
      /\ u.smudged = t.smudged /\ u.stray = t.stray
  BY <1>1, <1>3, <1>5, Redrawn, Zenon
<1> HIDE DEF u, z
<1>9. s.y - 1 \in Nat
  BY <1>4, ScreenSizes
<1>10. z \in Consoles /\ z.mem = u.mem /\ z.rows = u.rows /\ z.top = u.top /\ z.x = u.x
       /\ z.y = s.y - 1 /\ z.smudged = u.smudged /\ z.stray = u.stray
  <2> DEFINE k == s.y - 1
  <2>1. z = [u EXCEPT !.y = k] /\ k \in Nat
    BY <1>3, <1>7, <1>9
  <2> HIDE DEF k
  <2>2. z \in Consoles /\ z.mem = u.mem /\ z.rows = u.rows /\ z.top = u.top /\ z.x = u.x
       /\ z.y = k /\ z.smudged = u.smudged /\ z.stray = u.stray
    BY <1>8, <2>1 DEF Consoles
  <2> QED BY <2>2 DEF k
<1>11. Window(z) = p
  BY <1>1, <1>8, <1>10 DEF Window
<1>12. \A k \in Nat : TextOf(z, k) = TextOf(t, k)
  BY <1>8, <1>10 DEF TextOf
<1>13. \A r \in D!Rows : p[r] = IF r < D!Height - 1 THEN o[r + 1] ELSE D!Blank
  BY DEF p
<1>14. /\ \A r \in 0..D!Height - 1 : o[r] = TextOf(s, s.top + r)
       /\ \A n \in Nat : n >= s.top + D!Height => TextOf(s, n) = D!Blank
       /\ ~s.stray
  BY DEF Shows, o
<1>15. \A r \in 0..D!Height - 1 : p[r] = TextOf(z, s.top + 1 + r)
  <2> SUFFICES ASSUME NEW r \in 0..D!Height - 1 PROVE p[r] = TextOf(z, s.top + 1 + r)
    OBVIOUS
  <2>1. s.top + 1 + r \in Nat /\ TextOf(z, s.top + 1 + r) = TextOf(s, s.top + 1 + r) /\ r \in D!Rows
    BY <1>3, <1>0, <1>00, <1>12
  <2>2. CASE r < D!Height - 1
    <3>1. r + 1 \in 0..D!Height - 1 /\ s.top + (r + 1) = s.top + 1 + r
      BY <1>0, <2>2, <1>00
    <3> QED BY <1>13, <1>14, <2>1, <2>2, <3>1
  <2>3. CASE ~(r < D!Height - 1)
    <3>1. s.top + 1 + r >= s.top + D!Height
      BY <1>0, <2>3, <1>00
    <3> QED BY <1>13, <1>14, <2>1, <2>3, <3>1
  <2> QED BY <2>2, <2>3
<1>16. \A r \in s.y - 1 + 1..D!Height : r \in D!Rows /\ ~(r < D!Height - 1)
  BY <1>0, <1>00
<1>17. \A r \in s.y - 1 + 1..D!Height, c \in D!Cols : p[r][c] \cap Glyphs = {}
  BY <1>13, <1>16, ScreenSizes
<1>18. p[D!Height] = D!Blank
  BY <1>13, <1>00
<1>19. \A n \in Nat : n >= s.top + 1 + D!Height => TextOf(z, n) = D!Blank
  <2> SUFFICES ASSUME NEW n \in Nat, n >= s.top + 1 + D!Height PROVE TextOf(z, n) = D!Blank
    OBVIOUS
  <2>1. n >= s.top + D!Height /\ n >= s.top + 1
    BY <1>0, <1>00
  <2> QED BY <1>3, <1>12, <1>14, <2>1
<1>20. z.top = s.top + 1 /\ z.y = s.y - 1 /\ ~z.stray /\ z.x = s.x /\ z.smudged = s.smudged
  BY <1>3, <1>8, <1>10, <1>14
<1>21. Shows(z)
  BY <1>11, <1>15, <1>17, <1>18, <1>19, <1>20 DEF Shows
<1> QED BY <1>10, <1>20, <1>21 DEF z
\* Two rows leave the text screen.
LEMMA TextScrolled ==
  ASSUME Sized, OneBuffer, ~fb.configured, NEW s \in Consoles, Shows(s), s.y >= D!Height
  PROVE  /\ D!ScrollText(s) \in Consoles /\ Shows(D!ScrollText(s))
         /\ D!ScrollText(s).x = s.x /\ D!ScrollText(s).y = D!Height - 2
         /\ D!ScrollText(s).top = s.top + 2 /\ D!ScrollText(s).smudged = s.smudged
<1> DEFINE t == D!Rolled(s, 2)
           o == Window(s)
           p == [r \in D!Rows |-> IF r < D!Height - 1 THEN o[r + 2] ELSE IF r = D!Height - 1 THEN D!Blank ELSE o[r]]
           u == [t EXCEPT !.mem["text"] = p]
           z == D!ScrollText(s)
<1>1. D!Area = "text" /\ "text" \in D!Areas
  BY DEF OneBuffer, D!Area, D!Areas
<1>3. t \in Consoles /\ t.mem = s.mem /\ t.top = s.top + 2 /\ t.x = s.x /\ t.y = s.y
      /\ t.smudged = s.smudged /\ t.stray = s.stray
      /\ \A k \in Nat : k >= s.top + 2 => TextOf(t, k) = TextOf(s, k)
  <2>1. 2 \in Nat
    OBVIOUS
  <2> QED BY <2>1, RolledOff
<1>4. o \in Pictures /\ s.y \in Nat /\ s.top \in Nat
  BY <1>1 DEF Window, Consoles
<1>0. s.y \in Nat /\ s.top \in Nat
  BY <1>4
<1>00. D!Height \in Nat /\ D!Height >= 2 /\ D!Rows = 0..D!Height
  BY ScreenSizes
<1>5. p \in Pictures
  BY <1>00, <1>4, ScreenSizes DEF Pictures
<1>6. z = [t EXCEPT !.mem["text"] = p, !.y = D!Height - 2]
  <2>1. z = [t EXCEPT !.mem["text"] = [r \in D!Rows |-> IF r < D!Height - 1 THEN t.mem["text"][r + 2] ELSE IF r = D!Height - 1 THEN D!Blank ELSE t.mem["text"][r]],
                      !.y = D!Height - 2]
    BY <1>1 DEF D!ScrollText
  <2>2. o = t.mem["text"]
    BY <1>1, <1>3 DEF Window
  <2> QED BY <2>1, <2>2
<1> HIDE DEF t, o, p
<1>7. z = [u EXCEPT !.y = D!Height - 2]
  BY <1>6
<1>8. u \in Consoles /\ u.mem["text"] = p /\ u.rows = t.rows /\ u.top = t.top /\ u.x = t.x /\ u.y = t.y
      /\ u.smudged = t.smudged /\ u.stray = t.stray
  BY <1>1, <1>3, <1>5, Redrawn, Zenon
<1> HIDE DEF u, z
<1>9. D!Height - 2 \in Nat
  BY <1>00
<1>10. z \in Consoles /\ z.mem = u.mem /\ z.rows = u.rows /\ z.top = u.top /\ z.x = u.x
       /\ z.y = D!Height - 2 /\ z.smudged = u.smudged /\ z.stray = u.stray
  <2> DEFINE k == D!Height - 2
  <2>1. z = [u EXCEPT !.y = k] /\ k \in Nat
    BY <1>3, <1>7, <1>9
  <2> HIDE DEF k
  <2>2. z \in Consoles /\ z.mem = u.mem /\ z.rows = u.rows /\ z.top = u.top /\ z.x = u.x
       /\ z.y = k /\ z.smudged = u.smudged /\ z.stray = u.stray
    BY <1>8, <2>1 DEF Consoles
  <2> QED BY <2>2 DEF k
<1>11. Window(z) = p
  BY <1>1, <1>8, <1>10 DEF Window
<1>12. \A k \in Nat : TextOf(z, k) = TextOf(t, k)
  BY <1>8, <1>10 DEF TextOf
<1>13. \A r \in D!Rows : p[r] = IF r < D!Height - 1 THEN o[r + 2] ELSE IF r = D!Height - 1 THEN D!Blank ELSE o[r]
  BY DEF p
<1>14. /\ \A r \in 0..D!Height - 1 : o[r] = TextOf(s, s.top + r)
       /\ \A n \in Nat : n >= s.top + D!Height => TextOf(s, n) = D!Blank
       /\ ~s.stray /\ o[D!Height] = D!Blank
  BY DEF Shows, o
<1>15. \A r \in 0..D!Height - 1 : p[r] = TextOf(z, s.top + 2 + r)
  <2> SUFFICES ASSUME NEW r \in 0..D!Height - 1 PROVE p[r] = TextOf(z, s.top + 2 + r)
    OBVIOUS
  <2>1. s.top + 2 + r \in Nat /\ TextOf(z, s.top + 2 + r) = TextOf(s, s.top + 2 + r) /\ r \in D!Rows
    BY <1>0, <1>00, <1>3, <1>12
  <2>2. CASE r + 2 <= D!Height - 1
    <3>1. r + 2 \in 0..D!Height - 1 /\ s.top + (r + 2) = s.top + 2 + r /\ r < D!Height - 1
      BY <1>0, <1>00, <2>2
    <3> QED BY <1>13, <1>14, <2>1, <3>1
  <2>3. CASE r + 2 = D!Height
    <3>1. s.top + 2 + r >= s.top + D!Height /\ r < D!Height - 1
      BY <1>0, <1>00, <2>3
    <3> QED BY <1>13, <1>14, <2>1, <2>3, <3>1
  <2>4. CASE r = D!Height - 1
    <3>1. s.top + 2 + r >= s.top + D!Height /\ ~(r < D!Height - 1)
      BY <1>0, <1>00, <2>4
    <3> QED BY <1>13, <1>14, <2>1, <2>4, <3>1
  <2> QED BY <1>00, <2>2, <2>3, <2>4
<1>16. \A r \in D!Height - 2 + 1..D!Height : r \in D!Rows /\ ~(r < D!Height - 1) /\ (r # D!Height - 1 => r = D!Height)
  BY <1>0, <1>00
<1>17. \A r \in D!Height - 2 + 1..D!Height, c \in D!Cols : p[r][c] \cap Glyphs = {}
  <2>1. \A r \in D!Height - 2 + 1..D!Height : p[r] = D!Blank
    BY <1>00, <1>13, <1>14, <1>16
  <2> QED BY <2>1, ScreenSizes
<1>18. p[D!Height] = D!Blank
  BY <1>00, <1>13, <1>14
<1>19. \A n \in Nat : n >= s.top + 2 + D!Height => TextOf(z, n) = D!Blank
  <2> SUFFICES ASSUME NEW n \in Nat, n >= s.top + 2 + D!Height PROVE TextOf(z, n) = D!Blank
    OBVIOUS
  <2>1. n >= s.top + D!Height /\ n >= s.top + 2
    BY <1>0, <1>00
  <2> QED BY <1>3, <1>12, <1>14, <2>1
<1>20. z.top = s.top + 2 /\ z.y = D!Height - 2 /\ ~z.stray /\ z.x = s.x /\ z.smudged = s.smudged
  BY <1>3, <1>8, <1>10, <1>14
<1>21. Shows(z)
  BY <1>11, <1>15, <1>17, <1>18, <1>19, <1>20 DEF Shows
<1> QED BY <1>10, <1>20, <1>21 DEF z

\* The cursor may go on, or to the last row.
LEMMA Moved ==
  ASSUME Sized, OneBuffer, NEW s \in Consoles, NEW z \in Consoles, Shows(s),
         z.mem = s.mem, z.rows = s.rows, z.top = s.top, z.stray = s.stray,
         z.y >= s.y \/ z.y >= D!Height - 1
  PROVE  Shows(z)
<1>1. s.y \in Nat /\ z.y \in Nat
  BY DEF Consoles
<1>2. Window(z) = Window(s) /\ \A n : TextOf(z, n) = TextOf(s, n)
  BY DEF Window, TextOf
<1>3. D!Height \in Nat /\ \A c \in D!Cols : D!Blank[c] = {}
  BY ScreenSizes
<1> DEFINE o == Window(s)
           a == s.y
           b == z.y
<1>4. /\ \A r \in a + 1..D!Height, c \in D!Cols : o[r][c] \cap Glyphs = {}
      /\ o[D!Height] = D!Blank /\ a \in Nat /\ b \in Nat /\ (b >= a \/ b >= D!Height - 1)
  BY <1>1 DEF Shows
<1> HIDE DEF o, a, b
<1>5. \A r \in b + 1..D!Height : r \in a + 1..D!Height \/ r = D!Height
  BY <1>3, <1>4
<1>6. \A r \in b + 1..D!Height, c \in D!Cols : o[r][c] \cap Glyphs = {}
  BY <1>3, <1>4, <1>5
<1> QED BY <1>2, <1>6 DEF Shows, o, b

\* scroll() brings the cursor into the window again.
LEMMA Scrolled ==
  ASSUME Sized, OneBuffer, NEW s \in Consoles, Shows(s)
  PROVE  /\ D!Scroll(s) \in Consoles /\ Shows(D!Scroll(s)) /\ D!Scroll(s).smudged = s.smudged
         /\ D!Scroll(s).x = IF s.x >= D!Width THEN 0 ELSE s.x
         /\ D!Scroll(s).y <= D!Height /\ (~fb.configured => D!Scroll(s).y < D!Height)
         /\ D!Scroll(s).top + D!Scroll(s).y <= s.top + s.y
<1> DEFINE t == IF s.y < D!Height THEN s
                ELSE IF fb.configured THEN D!ScrollFrame(s) ELSE D!ScrollText(s)
           z == D!Scroll(s)
           x == IF t.x >= D!Width THEN 0 ELSE t.x
           y == IF t.y > D!Height THEN D!Height - 1 ELSE t.y
<1>1. z = [t EXCEPT !.x = x, !.y = y]
  BY DEF D!Scroll
<1>2. D!Height \in Nat /\ D!Height >= 2 /\ D!Width \in Nat \ {0}
  BY ScreenSizes
<1>3. s.y \in Nat /\ s.top \in Nat /\ s.x \in 0..D!Width
  BY DEF Consoles
<1>4. /\ t \in Consoles /\ Shows(t) /\ t.smudged = s.smudged /\ t.x = s.x
      /\ (~fb.configured => t.y < D!Height) /\ t.top + t.y <= s.top + s.y
  <2>1. CASE s.y < D!Height
    BY <1>3, <2>1
  <2>2. CASE s.y >= D!Height /\ fb.configured
    <3>1. /\ t \in Consoles /\ Shows(t) /\ t.smudged = s.smudged /\ t.x = s.x
          /\ t.y = s.y - 1 /\ t.top = s.top + 1
      <4>1. t = D!ScrollFrame(s)
        BY <1>2, <1>3, <2>2
      <4> HIDE DEF t
      <4> QED BY <2>2, <4>1, FrameScrolled
    <3> HIDE DEF t
    <3> QED BY <1>3, <2>2, <3>1
  <2>3. CASE s.y >= D!Height /\ ~fb.configured
    <3>1. /\ t \in Consoles /\ Shows(t) /\ t.smudged = s.smudged /\ t.x = s.x
          /\ t.y = D!Height - 2 /\ t.top = s.top + 2
      <4>1. t = D!ScrollText(s)
        BY <1>2, <1>3, <2>3
      <4> HIDE DEF t
      <4> QED BY <2>3, <4>1, TextScrolled
    <3> HIDE DEF t
    <3> QED BY <1>2, <1>3, <2>3, <3>1
  <2> QED BY <1>2, <1>3, <2>1, <2>2, <2>3
<1> HIDE DEF t, z
<1>5. t.y \in Nat /\ t.top \in Nat /\ t.x \in 0..D!Width
  BY <1>4 DEF Consoles
<1>6. x \in 0..D!Width /\ y \in Nat /\ y <= D!Height /\ y <= t.y /\ (y >= t.y \/ y >= D!Height - 1)
  BY <1>2, <1>5
<1>7. x = IF s.x >= D!Width THEN 0 ELSE s.x
  BY <1>4
<1> HIDE DEF x, y
<1>8. z \in Consoles /\ z.x = x /\ z.y = y /\ z.mem = t.mem /\ z.rows = t.rows /\ z.top = t.top
      /\ z.stray = t.stray /\ z.smudged = t.smudged
  BY <1>1, <1>4, <1>6 DEF Consoles
<1>9. Shows(z)
  <2>1. z.y >= t.y \/ z.y >= D!Height - 1
    BY <1>6, <1>8
  <2> QED BY <1>4, <1>8, <2>1, Moved
<1>10. (~fb.configured => y < D!Height) /\ t.top + y <= s.top + s.y
  BY <1>2, <1>3, <1>4, <1>5, <1>6
<1> QED BY <1>4, <1>6, <1>7, <1>8, <1>9, <1>10 DEF z

\* A column is in its row, the one behind the last is the first of the next row.
LEMMA Wrapped ==
  ASSUME NEW w \in Nat \ {0}, NEW x \in 0..w
  PROVE  IF x < w THEN x \div w = 0 /\ x % w = x ELSE x \div w = 1 /\ x % w = 0
<1>1. x < w => x \div w = 0 /\ x % w = x
  OBVIOUS
<1>2. x = w => x \div w = 1 /\ x % w = 0
  OBVIOUS
<1> QED BY <1>1, <1>2

\* A cell is written, if there is one.
LEMMA CellWritten ==
  ASSUME NEW R, NEW p \in [R -> Lines], NEW v \in SUBSET Ink, NEW a, NEW b
  PROVE  /\ [p EXCEPT ![a][b] = v] \in [R -> Lines]
         /\ \A r \in R : [p EXCEPT ![a][b] = v][r] = IF r = a THEN [p[r] EXCEPT ![b] = v] ELSE p[r]
BY DEF Lines

\* putChar() writes the same on the screen and to the text.
LEMMA Written ==
  ASSUME Sized, OneBuffer, NEW s \in Consoles, Shows(s), NEW v \in SUBSET Ink,
         s.top + s.y + (s.x \div D!Width) <= MaxRow, ~fb.configured => s.y < D!Height,
         v = {} \/ s.x < D!Width
  PROVE  /\ D!Put(s, v) \in Consoles /\ (Shows(D!Put(s, v)) \/ D!Put(s, v).smudged)
         /\ D!Put(s, v).x = s.x /\ D!Put(s, v).y = s.y /\ (s.smudged => D!Put(s, v).smudged)
<1> DEFINE c == D!Cell(s)
           row == s.y + (s.x \div D!Width)
           col == s.x % D!Width
           beside == fb.configured /\ (s.y >= D!Height \/ s.x >= D!Width)
           o == Window(s)
           p == [o EXCEPT ![c[1]][c[2]] = v]
           rows == [s.rows EXCEPT ![s.top + row][col] = v]
           u == [s EXCEPT !.mem[D!Area] = p]
           z == D!Put(s, v)
<1>0. D!Height \in Nat /\ D!Height >= 2 /\ MaxRow \in Nat /\ D!Rows = 0..D!Height
  BY ScreenSizes
<1>1. s.y \in Nat /\ s.top \in Nat /\ s.x \in 0..D!Width /\ D!Width \in Nat \ {0} /\ s.smudged \in BOOLEAN
      /\ s.rows \in Papers
  BY ScreenSizes DEF Consoles
<1>2. IF s.x < D!Width THEN s.x \div D!Width = 0 /\ s.x % D!Width = s.x
      ELSE s.x \div D!Width = 1 /\ s.x % D!Width = 0
  BY <1>1, Wrapped
<1>3. s.top + s.y + (s.x \div D!Width) = s.top + row
  BY <1>1, <1>2
<1>4. z = [s EXCEPT !.mem[D!Area] = p, !.rows = rows, !.smudged = s.smudged \/ beside]
  BY <1>3 DEF D!Put, Window
<1>5. o \in Pictures /\ D!Area \in D!Areas
  BY WindowIs DEF Window, Consoles
<1>6. p \in Pictures /\ \A r \in D!Rows : p[r] = IF r = c[1] THEN [o[r] EXCEPT ![c[2]] = v] ELSE o[r]
  <2> DEFINE i == c[1]
             j == c[2]
  <2>1. o \in [D!Rows -> Lines]
    BY <1>5 DEF Pictures
  <2> HIDE DEF c, o, i, j
  <2>2. /\ [o EXCEPT ![i][j] = v] \in [D!Rows -> Lines]
        /\ \A r \in D!Rows : [o EXCEPT ![i][j] = v][r] = IF r = i THEN [o[r] EXCEPT ![j] = v] ELSE o[r]
    BY <2>1, CellWritten
  <2> QED BY <2>2 DEF i, j, Pictures
<1>7. /\ rows \in Papers
      /\ \A n \in 0..MaxRow : rows[n] = IF n = s.top + row THEN [s.rows[n] EXCEPT ![col] = v] ELSE s.rows[n]
  BY <1>1, CellWritten DEF Papers
<1>8. beside \in BOOLEAN
  BY DEF OneBuffer
<1>9. ~beside => c = <<row, col>>
  <2>1. CASE fb.configured /\ ~beside
    <3>1. s.x < D!Width /\ s.y < D!Height
      BY <1>1, <2>1, ScreenSizes
    <3>2. D!Inside(s.y, D!Height) = s.y /\ D!Inside(s.x, D!Width) = s.x
      BY <3>1 DEF D!Inside
    <3>3. row = s.y /\ col = s.x
      BY <1>1, <1>2, <3>1
    <3> QED BY <2>1, <3>2, <3>3 DEF D!Cell
  <2>2. CASE ~fb.configured
    BY <2>2 DEF D!Cell
  <2> QED BY <2>1, <2>2
<1>10. row \in Nat /\ s.top + row \in 0..MaxRow
       /\ (v # {} => row = s.y) /\ (row = s.y \/ row = s.y + 1)
  <2>1. row = IF s.x < D!Width THEN s.y ELSE s.y + 1
    BY <1>1, <1>2
  <2>2. row \in Nat /\ (v # {} => row = s.y) /\ (row = s.y \/ row = s.y + 1)
    BY <1>1, <2>1
  <2>3. s.top + row <= MaxRow
    BY <1>3
  <2> HIDE DEF row
  <2>4. s.top + row \in 0..MaxRow
    BY <1>0, <1>1, <2>2, <2>3
  <2> QED BY <2>2, <2>4
<1>11. ~beside => (row >= D!Height => v = {})
  <2>1. ASSUME ~beside, v # {} PROVE s.y < D!Height
    BY <2>1, <1>0, <1>1 DEF OneBuffer
  <2>2. v # {} => row = s.y
    BY <1>10
  <2> HIDE DEF row, beside
  <2> QED BY <1>0, <1>1, <2>1, <2>2
<1> HIDE DEF o, p, rows, c, row, col, beside
<1>12. u \in Consoles /\ u.mem[D!Area] = p /\ u.rows = s.rows /\ u.top = s.top /\ u.x = s.x /\ u.y = s.y
       /\ u.smudged = s.smudged /\ u.stray = s.stray
  BY <1>5, <1>6, Redrawn
<1>13. z = [u EXCEPT !.rows = rows, !.smudged = s.smudged \/ beside]
  BY <1>4
<1> HIDE DEF u, z
<1>14. z \in Consoles /\ z.mem = u.mem /\ z.rows = rows /\ z.top = u.top /\ z.x = u.x /\ z.y = u.y
       /\ z.smudged = (s.smudged \/ beside) /\ z.stray = u.stray
  <2> DEFINE b == s.smudged \/ beside
  <2>1. z = [u EXCEPT !.rows = rows, !.smudged = b] /\ b \in BOOLEAN
    BY <1>1, <1>8, <1>13
  <2> HIDE DEF b
  <2>2. z \in Consoles /\ z.mem = u.mem /\ z.rows = rows /\ z.top = u.top /\ z.x = u.x /\ z.y = u.y
       /\ z.smudged = b /\ z.stray = u.stray
    BY <1>7, <1>12, <2>1 DEF Consoles
  <2> QED BY <2>2 DEF b
<1>15. ASSUME ~beside PROVE Shows(z)
  <2>1. /\ \A r \in 0..D!Height - 1 : o[r] = TextOf(s, s.top + r)
        /\ \A r \in s.y + 1..D!Height, k \in D!Cols : o[r][k] \cap Glyphs = {}
        /\ o[D!Height] = D!Blank
        /\ \A n \in Nat : n >= s.top + D!Height => TextOf(s, n) = D!Blank
        /\ ~s.stray
    BY DEF Shows, o
  <2>2. Window(z) = p
    BY <1>12, <1>14 DEF Window
  <2>3. \A r \in D!Rows : p[r] = IF r = row THEN [o[r] EXCEPT ![col] = v] ELSE o[r]
    BY <1>6, <1>9, <1>15
  <2>4. \A n \in Nat : TextOf(z, n) = IF n = s.top + row THEN [TextOf(s, n) EXCEPT ![col] = v] ELSE TextOf(s, n)
    <3> SUFFICES ASSUME NEW n \in Nat
                 PROVE  TextOf(z, n) = IF n = s.top + row THEN [TextOf(s, n) EXCEPT ![col] = v] ELSE TextOf(s, n)
      OBVIOUS
    <3>1. CASE n <= MaxRow
      <4>1. n \in 0..MaxRow
        BY <3>1
      <4> QED BY <1>7, <1>14, <3>1, <4>1 DEF TextOf
    <3>2. CASE ~(n <= MaxRow)
      <4>1. n # s.top + row
        BY <1>10, <3>2, ScreenSizes
      <4> QED BY <3>2, <4>1 DEF TextOf
    <3> QED BY <3>1, <3>2
  <2>5. \A r \in 0..D!Height - 1 : p[r] = TextOf(z, s.top + r)
    <3> SUFFICES ASSUME NEW r \in 0..D!Height - 1 PROVE p[r] = TextOf(z, s.top + r)
      OBVIOUS
    <3>1. r \in Nat /\ r \in D!Rows
      BY <1>0, <1>1, ScreenSizes
    <3>2. s.top + r \in Nat /\ (s.top + r = s.top + row <=> r = row)
      BY <1>0, <1>1, <1>10, <3>1
    <3> QED BY <2>1, <2>3, <2>4, <3>1, <3>2
  <2>6. v = {} => [D!Blank EXCEPT ![col] = v] = D!Blank
    BY DEF D!Blank, D!BlankRow
  <2>7. p[D!Height] = D!Blank
    <3>1. D!Height \in D!Rows /\ (row = D!Height => v = {})
      BY <1>0, <1>11, <1>15
    <3> QED BY <2>1, <2>3, <2>6, <3>1
  <2>8. \A n \in Nat : n >= s.top + D!Height => TextOf(z, n) = D!Blank
    <3> SUFFICES ASSUME NEW n \in Nat, n >= s.top + D!Height PROVE TextOf(z, n) = D!Blank
      OBVIOUS
    <3>1. n = s.top + row => v = {}
      BY <1>0, <1>1, <1>10, <1>11, <1>15
    <3> QED BY <2>1, <2>4, <2>6, <3>1
  <2>9. \A r \in s.y + 1..D!Height, k \in D!Cols : p[r][k] \cap Glyphs = {}
    <3> SUFFICES ASSUME NEW r \in s.y + 1..D!Height, NEW k \in D!Cols PROVE p[r][k] \cap Glyphs = {}
      OBVIOUS
    <3>1. r \in D!Rows /\ (r = row => v = {})
      BY <1>0, <1>1, <1>10
    <3>2. o[r] \in [D!Cols -> SUBSET Ink] /\ o[r][k] \cap Glyphs = {}
      BY <1>5, <2>1, <3>1 DEF Pictures, Lines
    <3>3. r = row => [o[r] EXCEPT ![col] = v][k] = IF k = col THEN {} ELSE o[r][k]
      BY <3>1, <3>2
    <3> QED BY <2>3, <3>1, <3>2, <3>3
  <2>10. z.top = s.top /\ z.y = s.y /\ ~z.stray
    BY <1>12, <1>14, <2>1
  <2> QED BY <2>2, <2>5, <2>7, <2>8, <2>9, <2>10 DEF Shows
<1> QED BY <1>12, <1>14, <1>15 DEF z

\* The cursor is in the window, or just below it when there is a frame buffer.
Placed(s) == s.y <= D!Height /\ (~fb.configured => s.y < D!Height)

\* A console that is as it should be, or knows that it is not.
Sound(s) == s \in Consoles /\ (s.smudged \/ (Shows(s) /\ Placed(s)))

\* A new line.
LEMMA LineEnded ==
  ASSUME Sized, OneBuffer, NEW s \in Consoles, Shows(s)
  PROVE  Sound(D!NewLine(s))
<1> DEFINE z == [s EXCEPT !.y = s.y + 1, !.x = 0, !.origin = 0]
<1>1. D!NewLine(s) = D!Scroll(z)
  BY DEF D!NewLine
<1>2. s.y \in Nat /\ D!Width \in Nat \ {0}
  BY ScreenSizes DEF Consoles
<1>3. z \in Consoles /\ z.mem = s.mem /\ z.rows = s.rows /\ z.top = s.top /\ z.stray = s.stray
      /\ z.y = s.y + 1
  <2> DEFINE y == s.y + 1
  <2>1. z = [s EXCEPT !.y = y, !.x = 0, !.origin = 0] /\ y \in Nat /\ 0 \in 0..D!Width
    BY <1>2
  <2> HIDE DEF y, z
  <2>2. z \in Consoles /\ z.mem = s.mem /\ z.rows = s.rows /\ z.top = s.top /\ z.stray = s.stray
      /\ z.y = y
    BY <2>1 DEF Consoles
  <2> QED BY <2>2 DEF y
<1> HIDE DEF z
<1>4. z.y >= s.y
  BY <1>2, <1>3
<1>5. Shows(z)
  BY <1>3, <1>4, Moved
<1>6. D!Scroll(z) \in Consoles /\ Shows(D!Scroll(z)) /\ Placed(D!Scroll(z))
  BY <1>3, <1>5, Scrolled DEF Placed
<1> QED BY <1>1, <1>6 DEF Sound

\* Another column.
LEMMA ColumnMoved ==
  ASSUME Sized, OneBuffer, NEW s \in Consoles, Shows(s), NEW x \in 0..D!Width
  PROVE  /\ [s EXCEPT !.x = x] \in Consoles /\ Shows([s EXCEPT !.x = x])
         /\ [s EXCEPT !.x = x].x = x /\ [s EXCEPT !.x = x].y = s.y
         /\ [s EXCEPT !.x = x].smudged = s.smudged /\ [s EXCEPT !.x = x].top = s.top
<1> DEFINE z == [s EXCEPT !.x = x]
<1>1. z \in Consoles /\ z.mem = s.mem /\ z.rows = s.rows /\ z.top = s.top /\ z.stray = s.stray
      /\ z.y = s.y /\ z.x = x /\ z.smudged = s.smudged
  BY DEF Consoles
<1> HIDE DEF z
<1>2. z.y >= s.y
  BY <1>1 DEF Consoles
<1>3. Shows(z)
  BY <1>1, <1>2, Moved
<1> QED BY <1>1, <1>3 DEF z

\* A backspace erases the cell before the cursor.
LEMMA Erased ==
  ASSUME Sized, OneBuffer, NEW s \in Consoles, Shows(s), Placed(s),
         s.top + s.y + 2 <= MaxRow
  PROVE  Sound(D!Back(s))
<1> DEFINE x == IF s.x > 0 /\ s.x > s.origin THEN s.x - 1 ELSE s.x
           z == [s EXCEPT !.x = x]
<1>1. D!Back(s) = D!Put(z, {})
  BY DEF D!Back
<1>2. s.x \in 0..D!Width /\ s.y \in Nat /\ s.top \in Nat /\ D!Width \in Nat \ {0}
  BY ScreenSizes DEF Consoles
<1>3. x \in 0..D!Width
  BY <1>2
<1> HIDE DEF x
<1>4. z \in Consoles /\ Shows(z) /\ z.x = x /\ z.y = s.y /\ z.top = s.top
  BY <1>3, ColumnMoved
<1> HIDE DEF z
<1>5. z.top + z.y + (z.x \div D!Width) <= MaxRow
  <2>1. IF z.x < D!Width THEN z.x \div D!Width = 0 ELSE z.x \div D!Width = 1
    BY <1>2, <1>3, <1>4, Wrapped
  <2> DEFINE q == z.x \div D!Width
  <2>2. q = 0 \/ q = 1
    BY <2>1
  <2> HIDE DEF q
  <2>3. z.top + z.y + q <= MaxRow
    BY <1>2, <1>4, <2>2, ScreenSizes
  <2> QED BY <2>3 DEF q
<1>6. ~fb.configured => z.y < D!Height
  BY <1>4 DEF Placed
<1>7. {} \in SUBSET Ink
  OBVIOUS
<1>8. /\ D!Put(z, {}) \in Consoles /\ (Shows(D!Put(z, {})) \/ D!Put(z, {}).smudged)
      /\ D!Put(z, {}).y = z.y
  BY <1>4, <1>5, <1>6, <1>7, Written
<1>9. Placed(D!Put(z, {}))
  BY <1>4, <1>8 DEF Placed
<1> QED BY <1>1, <1>8, <1>9 DEF Sound

\* A character is drawn at the cursor, in the next row if this one is full.
LEMMA GlyphDrawn ==
  ASSUME Sized, OneBuffer, NEW s \in Consoles, Shows(s),
         s.top + s.y + 2 <= MaxRow, NEW g \in Glyphs
  PROVE  Sound(D!Glyph(s, g))
<1> DEFINE w == IF s.x >= D!Width THEN [s EXCEPT !.x = s.x - D!Width, !.y = s.y + 1] ELSE s
           t == D!Scroll(w)
           c == D!Cell(t)
           old == IF fb.configured THEN t.mem[D!Area][c[1]][c[2]] ELSE {}
           u == D!Put(t, old \cup {g})
<1>1. D!Glyph(s, g) = [u EXCEPT !.x = u.x + 1]
  BY DEF D!Glyph
<1>2. s.x \in 0..D!Width /\ s.y \in Nat /\ s.top \in Nat
  BY DEF Consoles
<1>3. D!Width \in Nat \ {0} /\ D!Height \in Nat /\ D!Height >= 2 /\ MaxRow \in Nat /\ D!Rows = 0..D!Height
      /\ D!Cols = 0..D!Width - 1 /\ Glyphs \subseteq Ink
  BY ScreenSizes
<1>4. w \in Consoles /\ Shows(w) /\ w.top = s.top /\ w.y <= s.y + 1 /\ w.y \in Nat
  <2>1. CASE s.x >= D!Width
    <3> DEFINE x == s.x - D!Width
               y == s.y + 1
    <3>1. x \in 0..D!Width /\ y \in Nat /\ w = [s EXCEPT !.x = x, !.y = y]
      BY <1>2, <1>3, <2>1
    <3> HIDE DEF x, y, w
    <3>2. w \in Consoles /\ w.mem = s.mem /\ w.rows = s.rows /\ w.top = s.top /\ w.stray = s.stray
          /\ w.y = y
      BY <3>1 DEF Consoles
    <3>3. w.y >= s.y /\ w.y <= s.y + 1
      BY <1>2, <3>2 DEF y
    <3> QED BY <3>1, <3>2, <3>3, Moved
  <2>2. CASE ~(s.x >= D!Width)
    BY <1>2, <2>2
  <2> QED BY <2>1, <2>2
<1> HIDE DEF w
<1>5. t \in Consoles /\ Shows(t) /\ t.x = (IF w.x >= D!Width THEN 0 ELSE w.x) /\ Placed(t)
      /\ t.top + t.y <= w.top + w.y
  BY <1>4, Scrolled DEF Placed
<1> HIDE DEF t
<1>6. t.x \in 0..D!Width - 1 /\ t.y \in Nat /\ t.top \in Nat /\ t.mem \in [D!Areas -> Pictures]
  <2>1. t.x \in 0..D!Width /\ t.y \in Nat /\ t.top \in Nat /\ t.mem \in [D!Areas -> Pictures]
        /\ w.x \in 0..D!Width
    BY <1>4, <1>5 DEF Consoles
  <2>2. t.x = IF w.x >= D!Width THEN 0 ELSE w.x
    BY <1>5
  <2> QED BY <1>3, <2>1, <2>2
<1>7. old \in SUBSET Ink
  <2>1. CASE fb.configured
    <3>1. \A n \in Nat, k \in Nat \ {0} : D!Inside(n, k) \in 0..k - 1
      <4> SUFFICES ASSUME NEW n \in Nat, NEW k \in Nat \ {0} PROVE D!Inside(n, k) \in 0..k - 1
        OBVIOUS
      <4>1. n % k \in 0..k - 1 /\ k - 1 \in 0..k - 1 /\ (n < k => n \in 0..k - 1)
        OBVIOUS
      <4> QED BY <4>1 DEF D!Inside
    <3>2. c = <<D!Inside(t.y, D!Height), D!Inside(t.x, D!Width)>>
      BY <2>1 DEF D!Cell
    <3>3. t.x \in Nat /\ D!Height \in Nat \ {0}
      BY <1>3, <1>6
    <3>4. c[1] \in 0..D!Height - 1 /\ c[2] \in 0..D!Width - 1
      <4>1. D!Inside(t.y, D!Height) \in 0..D!Height - 1 /\ D!Inside(t.x, D!Width) \in 0..D!Width - 1
        BY <1>3, <1>6, <3>1, <3>3
      <4> QED BY <3>2, <4>1
    <3> HIDE DEF c
    <3>5. c[1] \in D!Rows /\ c[2] \in D!Cols
      BY <1>3, <3>4
    <3>6. t.mem[D!Area] \in [D!Rows -> [D!Cols -> SUBSET Ink]]
      BY <1>6, WindowIs DEF Pictures, Lines
    <3> QED BY <2>1, <3>5, <3>6
  <2>2. CASE ~fb.configured
    BY <2>2
  <2> QED BY <2>1, <2>2
<1> HIDE DEF old, c
<1>8. t.top + t.y + (t.x \div D!Width) <= MaxRow
  <2>1. t.x \in 0..D!Width /\ t.x < D!Width
    BY <1>3, <1>6
  <2>2. t.x \div D!Width = 0
    BY <1>3, <2>1, Wrapped
  <2> DEFINE tt == t.top
             ty == t.y
             wy == w.y
             st == s.top
             sy == s.y
  <2>4. tt \in Nat /\ ty \in Nat /\ wy \in Nat /\ st \in Nat /\ sy \in Nat
        /\ tt + ty <= st + wy /\ wy <= sy + 1 /\ st + sy + 2 <= MaxRow
    BY <1>2, <1>4, <1>5, <1>6
  <2> HIDE DEF tt, ty, wy, st, sy
  <2>5. tt + ty + 0 <= MaxRow
    BY <1>3, <2>4
  <2>3. t.top + t.y + 0 <= MaxRow
    BY <2>5 DEF tt, ty
  <2> QED BY <2>2, <2>3
<1>9. old \cup {g} \in SUBSET Ink
  BY <1>3, <1>7
<1>10. /\ u \in Consoles /\ (Shows(u) \/ u.smudged) /\ u.x = t.x /\ u.y = t.y
  <2>1. t.x < D!Width /\ (~fb.configured => t.y < D!Height)
    BY <1>3, <1>5, <1>6 DEF Placed
  <2> QED BY <1>5, <1>8, <1>9, <2>1, Written
<1> HIDE DEF u
<1> DEFINE x == u.x + 1
           z == [u EXCEPT !.x = x]
<1>11. x \in 0..D!Width
  BY <1>3, <1>6, <1>10
<1> HIDE DEF x
<1>12. z \in Consoles /\ z.y = u.y /\ z.smudged = u.smudged
  BY <1>10, <1>11 DEF Consoles
<1>13. Shows(u) => Shows(z)
  BY <1>10, <1>11, ColumnMoved
<1>14. Placed(z)
  BY <1>5, <1>10, <1>12 DEF Placed
<1> QED BY <1>1, <1>10, <1>12, <1>13, <1>14 DEF Sound, x

\* putCh() as handleChar() calls it keeps the window and the text together.
LEMMA CharWritten ==
  ASSUME Sized, OneBuffer, NEW s \in Consoles, Shows(s), Placed(s),
         s.top + s.y + 2 <= MaxRow, NEW ch \in Glyphs \cup {"newline", "tab", "backspace"}
  PROVE  Sound(D!PutCh(IF ch = "newline" THEN [s EXCEPT !.x = 0, !.y = s.y + 1] ELSE s, ch))
<1>1. s.x \in 0..D!Width /\ s.y \in Nat /\ D!Width \in Nat \ {0} /\ TAB_SIZE \in Nat \ {0}
  BY ScreenSizes DEF Consoles
<1>2. CASE ch = "newline"
  <2> DEFINE y == s.y + 1
             z == [s EXCEPT !.x = 0, !.y = y]
  <2>1. D!PutCh(z, ch) = D!NewLine(z)
    BY <1>2 DEF D!PutCh
  <2>2. y \in Nat /\ 0 \in 0..D!Width /\ y >= s.y
    BY <1>1
  <2> HIDE DEF y
  <2>3. z \in Consoles /\ z.mem = s.mem /\ z.rows = s.rows /\ z.top = s.top /\ z.stray = s.stray
        /\ z.y = y
    BY <2>2 DEF Consoles
  <2> HIDE DEF z
  <2>4. Sound(D!NewLine(z))
    BY <2>2, <2>3, Moved, LineEnded
  <2> QED BY <1>2, <2>1, <2>4 DEF y, z
<1>3. CASE ch = "tab"
  <2> DEFINE x == IF s.x + TAB_SIZE < D!Width THEN s.x + TAB_SIZE ELSE D!Width - 1
             z == [s EXCEPT !.x = x]
  <2>1. D!PutCh(s, ch) = z
    BY <1>3 DEF D!PutCh, D!Tab
  <2>2. x \in 0..D!Width
    BY <1>1
  <2> HIDE DEF x
  <2>3. z \in Consoles /\ Shows(z) /\ z.y = s.y
    BY <2>2, ColumnMoved
  <2> QED BY <1>3, <2>1, <2>3 DEF Sound, Placed
<1>4. CASE ch = "backspace"
  <2>1. D!PutCh(s, ch) = D!Back(s)
    BY <1>4 DEF D!PutCh
  <2> QED BY <1>4, <2>1, Erased
<1>5. CASE ch \notin {"newline", "tab", "backspace"}
  <2>1. D!PutCh(s, ch) = D!Glyph(s, ch)
    BY <1>5 DEF D!PutCh
  <2> QED BY <1>5, <2>1, GlyphDrawn
<1> QED BY <1>2, <1>3, <1>4, <1>5

\* What is wrong stays known.
Marked(s) == "smudged" \in DOMAIN s /\ s.smudged = TRUE

LEMMA MarkStays ==
  ASSUME NEW s, Marked(s), NEW ch
  PROVE  Marked(D!PutCh(IF ch = "newline" THEN [s EXCEPT !.x = 0, !.y = s.y + 1] ELSE s, ch))
<1>1. \A t, n : Marked(t) => Marked(D!Rolled(t, n))
  BY DEF Marked, D!Rolled
<1>2. \A t : Marked(t) => Marked(D!ScrollFrame(t))
  <2> SUFFICES ASSUME NEW t, Marked(t) PROVE Marked(D!ScrollFrame(t))
    OBVIOUS
  <2> DEFINE u == D!Rolled(t, 1)
             p == [r \in D!Rows |-> IF r < D!Height - 1 THEN u.mem[fb.buffer][r + 1] ELSE D!Blank]
             m == [u.mem EXCEPT ![fb.buffer] = p]
             y == u.y - 1
             z == t.y - 1
  <2>1. Marked(u)
    BY <1>1
  <2>2. D!ScrollFrame(t) = IF fb.buffer = D!Null THEN [t EXCEPT !.stray = TRUE, !.y = z]
                           ELSE [u EXCEPT !.mem = m, !.y = y]
    BY DEF D!ScrollFrame
  <2> HIDE DEF u, m, y, z
  <2> QED BY <2>1, <2>2 DEF Marked
<1>3. \A t : Marked(t) => Marked(D!ScrollText(t))
  <2> SUFFICES ASSUME NEW t, Marked(t) PROVE Marked(D!ScrollText(t))
    OBVIOUS
  <2> DEFINE u == D!Rolled(t, 2)
             p == [r \in D!Rows |-> IF r < D!Height - 1 THEN u.mem["text"][r + 2]
                                    ELSE IF r = D!Height - 1 THEN D!Blank ELSE u.mem["text"][r]]
             m == [u.mem EXCEPT !["text"] = p]
             y == D!Height - 2
  <2>1. Marked(u)
    BY <1>1
  <2>2. D!ScrollText(t) = [u EXCEPT !.mem = m, !.y = y]
    BY DEF D!ScrollText
  <2> HIDE DEF u, m, y
  <2> QED BY <2>1, <2>2 DEF Marked
<1>4. \A t, x, y : Marked(t) => Marked([t EXCEPT !.x = x, !.y = y])
  BY DEF Marked
<1>5. \A t : Marked(t) => Marked(D!Scroll(t))
  <2> SUFFICES ASSUME NEW t, Marked(t) PROVE Marked(D!Scroll(t))
    OBVIOUS
  <2> DEFINE u == IF t.y < D!Height THEN t
                  ELSE IF fb.configured THEN D!ScrollFrame(t) ELSE D!ScrollText(t)
             x == IF u.x >= D!Width THEN 0 ELSE u.x
             y == IF u.y > D!Height THEN D!Height - 1 ELSE u.y
  <2>1. Marked(u)
    BY <1>2, <1>3
  <2>2. D!Scroll(t) = [u EXCEPT !.x = x, !.y = y]
    BY DEF D!Scroll
  <2> HIDE DEF u, x, y
  <2>3. Marked([u EXCEPT !.x = x, !.y = y])
    BY <2>1 DEF Marked
  <2> QED BY <2>2, <2>3
<1>6. \A t, v : Marked(t) => Marked(D!Put(t, v))
  <2> SUFFICES ASSUME NEW t, NEW v, Marked(t) PROVE Marked(D!Put(t, v))
    OBVIOUS
  <2> DEFINE c == D!Cell(t)
             m == [t.mem EXCEPT ![D!Area][c[1]][c[2]] = v]
             rows == [t.rows EXCEPT ![t.top + t.y + (t.x \div D!Width)][t.x % D!Width] = v]
             b == fb.configured /\ (t.y >= D!Height \/ t.x >= D!Width)
  <2>1. D!Put(t, v) = [t EXCEPT !.mem = m, !.rows = rows, !.smudged = t.smudged \/ b]
    BY DEF D!Put
  <2>2. (t.smudged \/ b) = TRUE
    BY DEF Marked
  <2> DEFINE e == t.smudged \/ b
  <2>3. D!Put(t, v) = [t EXCEPT !.mem = m, !.rows = rows, !.smudged = e] /\ e = TRUE
    BY <2>1, <2>2
  <2> HIDE DEF c, m, rows, b, e
  <2> QED BY <2>3 DEF Marked
<1>7. CASE ch = "newline"
  <2> DEFINE y == s.y + 1
             t == [s EXCEPT !.x = 0, !.y = y]
             z == t.y + 1
  <2>1. Marked(t)
    BY <1>4
  <2>2. D!PutCh(t, ch) = D!Scroll([t EXCEPT !.y = z, !.x = 0, !.origin = 0])
    BY <1>7 DEF D!PutCh, D!NewLine
  <2> HIDE DEF t, z
  <2>3. Marked([t EXCEPT !.y = z, !.x = 0, !.origin = 0])
    BY <2>1 DEF Marked
  <2> QED BY <1>5, <1>7, <2>2, <2>3 DEF t
<1>8. CASE ch = "tab"
  <2> DEFINE x == IF s.x + TAB_SIZE < D!Width THEN s.x + TAB_SIZE ELSE D!Width - 1
  <2>1. D!PutCh(s, ch) = [s EXCEPT !.x = x]
    BY <1>8 DEF D!PutCh, D!Tab
  <2> HIDE DEF x
  <2> QED BY <1>8, <2>1 DEF Marked
<1>9. CASE ch = "backspace"
  <2> DEFINE x == IF s.x > 0 /\ s.x > s.origin THEN s.x - 1 ELSE s.x
             t == [s EXCEPT !.x = x]
  <2>1. D!PutCh(s, ch) = D!Put(t, {})
    BY <1>9 DEF D!PutCh, D!Back
  <2> HIDE DEF x
  <2>2. Marked(t)
    BY DEF Marked
  <2> QED BY <1>6, <1>9, <2>1, <2>2
<1>10. CASE ch \notin {"newline", "tab", "backspace"}
  <2> DEFINE x == s.x - D!Width
             y == s.y + 1
             w == IF s.x >= D!Width THEN [s EXCEPT !.x = x, !.y = y] ELSE s
             t == D!Scroll(w)
             c == D!Cell(t)
             old == IF fb.configured THEN t.mem[D!Area][c[1]][c[2]] ELSE {}
             u == D!Put(t, old \cup {ch})
             z == u.x + 1
  <2>1. D!PutCh(s, ch) = [u EXCEPT !.x = z]
    BY <1>10 DEF D!PutCh, D!Glyph
  <2>2. Marked(w)
    BY <1>4
  <2> HIDE DEF w
  <2>3. Marked(u)
    BY <1>5, <1>6, <2>2
  <2> HIDE DEF u, z
  <2>4. Marked([u EXCEPT !.x = z])
    BY <2>3 DEF Marked
  <2> QED BY <1>10, <2>1, <2>4
<1> QED BY <1>7, <1>8, <1>9, <1>10

-----------------------------------------------------------------------------
(* Steps of the screen                                                       *)

\* Before the first text.
Dark == {"video", "alternative", "query", "configure", "draw"}

Buffers == D!Areas \cup {D!Null}

\* The frame buffer at each place of the start.
FrameInv ==
  /\ fb \in [class: {"bochs", "vesa"}, hg: {fb.hg}, direct: BOOLEAN, configured: BOOLEAN,
             back: Buffers, buffer: Buffers]
  /\ fb.configured \/ (fb.buffer = D!Null /\ ~fb.direct)
  /\ at \in Dark \ {"draw"} => ~fb.configured
  /\ at = "draw" => fb.configured /\ (fb.buffer = D!Null
                                        \/ (fb.back = "back" /\ fb.buffer = "buffer" /\ ~fb.direct))
  /\ at \notin Dark => ~fb.configured \/ fb.buffer = D!Null
                       \/ (fb.back = "back" /\ fb.buffer = "back")

\* Nothing has been written.
Unwritten ==
  /\ mem = D!Unused(size)
  /\ cursor = [x |-> 0, y |-> 0, origin |-> 0]
  /\ roll = D!NoText(size)
  /\ stray = FALSE

\* The window shows the text, or one of the known losses has happened.
InStep ==
  /\ DOMAIN cursor = {"x", "y", "origin"}
  /\ D!Console \in Consoles /\ Shows(D!Console) /\ Placed(D!Console)

PaperInv ==
  IF at \in Dark THEN Unwritten ELSE D!NoBuffer \/ roll.smudged = TRUE \/ InStep

\* The console has the size of the text screen, and then that of the mode that was found.
SizeInv ==
  /\ D!Usual(size)
  /\ at \in Dark \ {"draw"} => size = D!TextSize
  /\ at = "configure" => D!Usual(D!Adapted(mode)) /\ (fb.class = "bochs" => mode.id = 1)
  /\ at \notin Dark \ {"draw"} => IF fb.configured THEN size = D!Adapted(mode)
                                   ELSE D!Refused \/ size = D!TextSize

\* The inductive invariant.
TextInv == SizeInv /\ FrameInv /\ PaperInv

\* What the memory and the text are before.
LEMMA UnusedIs ==
  ASSUME Sized
  PROVE  /\ D!Unused(size) \in [D!Areas -> Pictures]
         /\ \A a \in D!Areas : D!Unused(size)[a] = [r \in D!Rows |-> D!Blank]
         /\ D!NoText(size) = [top |-> 0, rows |-> [r \in 0..MaxRow |-> D!Blank], smudged |-> FALSE]
<1>1. D!Blank = D!BlankRow(size) /\ D!Rows = 0..size.height /\ D!Blank \in Lines
  BY ScreenSizes DEF D!Blank, D!Rows, D!Height
<1> QED BY <1>1 DEF D!Unused, D!NoText, Pictures

\* One buffer, unless it is missing.
LEMMA BufferThere == ASSUME FrameInv, at \notin Dark, ~D!NoBuffer PROVE OneBuffer
BY DEF FrameInv, OneBuffer, D!NoBuffer

LEMMA ConsoleIs ==
  ASSUME D!Console \in Consoles
  PROVE  /\ mem \in [D!Areas -> Pictures] /\ cursor.x \in 0..D!Width /\ cursor.y \in Nat
         /\ cursor.origin \in Nat /\ roll.top \in Nat /\ roll.rows \in Papers
         /\ roll.smudged \in BOOLEAN /\ stray \in BOOLEAN
BY DEF D!Console, Consoles

LEMMA ConsoleMade ==
  ASSUME NEW m \in [D!Areas -> Pictures], NEW c, c.x \in 0..D!Width, c.y \in Nat,
         c.origin \in Nat, NEW r, r.top \in Nat, r.rows \in Papers,
         r.smudged \in BOOLEAN, NEW b \in BOOLEAN
  PROVE  [mem |-> m, x |-> c.x, y |-> c.y, origin |-> c.origin,
          top |-> r.top, rows |-> r.rows, smudged |-> r.smudged, stray |-> b] \in Consoles
BY DEF Consoles

\* The text screen before the first text shows it.
LEMMA NothingShown ==
  ASSUME Sized, Unwritten, FrameInv, ~fb.configured
  PROVE  InStep
<1>0. roll = [top |-> 0, rows |-> [r \in 0..MaxRow |-> D!Blank], smudged |-> FALSE]
      /\ mem["text"] = [r \in D!Rows |-> D!Blank] /\ mem \in [D!Areas -> Pictures]
  BY UnusedIs DEF Unwritten, D!Areas
<1> USE DEF Unwritten
<1>1. roll.rows \in Papers /\ roll.top = 0 /\ roll.smudged = FALSE /\ cursor.x = 0 /\ cursor.y = 0
      /\ cursor.origin = 0 /\ \A n \in 0..MaxRow : roll.rows[n] = D!Blank
  BY <1>0, ScreenSizes DEF Papers
<1>2. D!Width \in Nat \ {0} /\ D!Height \in Nat /\ D!Height >= 2 /\ MaxRow \in Nat /\ D!Rows = 0..D!Height
      /\ MaxRow >= D!Height + 1 /\ \A c \in D!Cols : D!Blank[c] = {}
  BY ScreenSizes
<1>3. D!Console \in Consoles
  <2>1. /\ cursor.x \in 0..D!Width /\ cursor.y \in Nat /\ cursor.origin \in Nat /\ roll.top \in Nat
        /\ roll.smudged \in BOOLEAN /\ stray \in BOOLEAN /\ mem \in [D!Areas -> Pictures]
    <3>1. 0 \in 0..D!Width /\ 0 \in Nat
      BY <1>2
    <3> QED BY <1>0, <1>1, <3>1
  <2> QED BY <1>1, <2>1, ConsoleMade DEF D!Console
<1>4. Window(D!Console) = [r \in D!Rows |-> D!Blank]
  <2>1. D!Console.mem = mem /\ D!Area = "text"
    BY DEF D!Console, D!Area
  <2> QED BY <1>0, <2>1 DEF Window
<1>5. \A n \in Nat : TextOf(D!Console, n) = D!Blank
  BY <1>1 DEF TextOf, D!Console
<1>6. \A r \in 0..D!Height : [q \in D!Rows |-> D!Blank][r] = D!Blank
  BY <1>2
<1>7. D!Console.top = 0 /\ D!Console.y = 0 /\ D!Console.stray = FALSE
  BY <1>1 DEF D!Console
<1>8. Shows(D!Console)
  <2>1. \A r \in 0..D!Height - 1 : r \in Nat /\ r \in 0..D!Height /\ 0 + r = r
    BY <1>2
  <2>2. \A r \in 0 + 1..D!Height : r \in 0..D!Height
    BY <1>2
  <2>3. D!Height \in 0..D!Height
    BY <1>2
  <2> QED BY <1>2, <1>4, <1>5, <1>6, <1>7, <2>1, <2>2, <2>3 DEF Shows
<1>9. Placed(D!Console)
  BY <1>2, <1>7 DEF Placed
<1>10. DOMAIN cursor = {"x", "y", "origin"}
  OBVIOUS
<1> QED BY <1>3, <1>8, <1>9, <1>10 DEF InStep

\* What depends on the size only.
LEMMA SizeSame ==
  ASSUME size' = size
  PROVE  /\ D!Width' = D!Width /\ D!Height' = D!Height /\ D!Rows' = D!Rows /\ D!Cols' = D!Cols
         /\ D!Blank' = D!Blank /\ Lines' = Lines /\ Pictures' = Pictures /\ Papers' = Papers
         /\ Consoles' = Consoles
<1>1. D!Width' = D!Width /\ D!Height' = D!Height /\ D!Blank' = D!Blank
  BY DEF D!Width, D!Height, D!Blank
<1>2. D!Rows' = D!Rows /\ D!Cols' = D!Cols
  BY <1>1 DEF D!Rows, D!Cols
<1>3. Lines' = Lines
  BY <1>2 DEF Lines
<1>4. Pictures' = Pictures /\ Papers' = Papers
  BY <1>2, <1>3 DEF Pictures, Papers
<1>5. Consoles' = Consoles
  BY <1>1, <1>4 DEF Consoles
<1> QED BY <1>1, <1>2, <1>3, <1>4, <1>5

\* The window after drawTestData().
LEMMA TestShown ==
  ASSUME Sized, size' = size, TextInv, at = "draw", fb.buffer # D!Null, D!DrawTestData
  PROVE  InStep'
<1>1. fb' = [fb EXCEPT !.buffer = "back"] /\ fb.back = "back" /\ ~fb.direct /\ fb.buffer = "buffer"
  BY DEF TextInv, FrameInv, D!DrawTestData, D!Swapped, D!Null
<1>2. fb'.buffer = "back" /\ fb'.back = "back" /\ fb'.configured = TRUE /\ ~fb'.direct
  BY <1>1 DEF TextInv, FrameInv
<1>3. Unwritten /\ mem \in [D!Areas -> Pictures] /\ mem["back"] = [r \in D!Rows |-> D!Blank]
      /\ roll.smudged = FALSE
  BY UnusedIs DEF TextInv, PaperInv, Dark, Unwritten, D!Areas
<1>4. D!Width \in Nat \ {0} /\ D!Height \in Nat /\ D!Height >= 2 /\ MaxRow \in Nat /\ D!Rows = 0..D!Height
      /\ MaxRow >= D!Height + 1 /\ D!Cols = 0..D!Width - 1 /\ D!Blank \in Lines
  BY ScreenSizes
<1> DEFINE b == mem["back"]
           b1 == [b EXCEPT ![0][0] = b[0][0] \cup {"line"}]
           b2 == [b1 EXCEPT ![D!Height - 1][0] = b1[D!Height - 1][0] \cup {"square"}]
<1>5. \A m \in [D!Areas -> Pictures] :
        /\ D!Blitted(fb', m, D!Rows) \in [D!Areas -> Pictures]
        /\ D!Blitted(fb', m, D!Rows)["back"] = m["back"]
        /\ D!Blitted(fb', m, D!Rows)["text"] = m["text"]
  <2> SUFFICES ASSUME NEW m \in [D!Areas -> Pictures]
               PROVE  /\ D!Blitted(fb', m, D!Rows) \in [D!Areas -> Pictures]
                      /\ D!Blitted(fb', m, D!Rows)["back"] = m["back"]
                      /\ D!Blitted(fb', m, D!Rows)["text"] = m["text"]
    OBVIOUS
  <2> DEFINE q == [r \in D!Rows |-> IF r \in D!Rows THEN D!Copied(fb', m, r) ELSE m["screen"][r]]
  <2>1. D!Blitted(fb', m, D!Rows) = [m EXCEPT !["screen"] = q]
    BY <1>2 DEF D!Blitted
  <2>2. \A r \in D!Rows : D!Copied(fb', m, r) = m["back"][r]
    BY <1>2 DEF D!Copied, D!Null
  <2>3. q \in Pictures
    BY <2>2 DEF Pictures, D!Areas
  <2> HIDE DEF q
  <2> QED BY <2>1, <2>3 DEF D!Areas
<1>6. \A m \in [D!Areas -> Pictures] : \A r, c, g :
        D!Drawn(fb', m, r, c, g) = [m EXCEPT !["back"] = [m["back"] EXCEPT ![r][c] = m["back"][r][c] \cup {g}]]
  BY <1>2 DEF D!Drawn, D!Null
<1>7. /\ b \in Pictures /\ b1 \in Pictures /\ b2 \in Pictures
      /\ \A r \in D!Rows, c \in D!Cols : b2[r][c] \cap Glyphs = {}
      /\ b2[D!Height] = D!Blank
  <2>1. b = [r \in D!Rows |-> [c \in D!Cols |-> {}]] /\ b \in Pictures
    BY <1>3 DEF D!Blank, D!BlankRow, D!Cols, D!Width, D!Areas
  <2>2. 0 \in D!Rows /\ D!Height - 1 \in D!Rows /\ D!Height \in D!Rows /\ 0 \in D!Cols /\ D!Height - 1 # 0
        /\ D!Height # D!Height - 1 /\ D!Height # 0
    BY <1>4
  <2>3. {"line"} \subseteq Ink /\ {"square"} \subseteq Ink /\ Glyphs \cap {"line", "square"} = {}
    BY DEF Ink, Sized, D!DisplayAssumption
  <2> DEFINE h == D!Height - 1
  <2> HIDE DEF b, h
  <2>4. b1 = [b EXCEPT ![0] = [b[0] EXCEPT ![0] = {"line"}]]
    BY <2>1, <2>2
  <2>5. /\ b1 \in Pictures /\ b1[h] = b[h] /\ b1[D!Height] = b[D!Height]
        /\ \A r \in D!Rows, c \in D!Cols : b1[r][c] \in {{}, {"line"}}
    BY <2>1, <2>2, <2>3, <2>4 DEF Pictures, Lines, h
  <2> HIDE DEF b1
  <2>6. b1[h] = [c \in D!Cols |-> {}]
    BY <2>1, <2>2, <2>5 DEF h
  <2>7. b2 = [b1 EXCEPT ![h] = [b1[h] EXCEPT ![0] = {"square"}]]
    BY <2>2, <2>6 DEF h
  <2> HIDE DEF b2
  <2>8. /\ b2 \in Pictures /\ b2[D!Height] = b1[D!Height]
        /\ \A r \in D!Rows, c \in D!Cols : b2[r][c] \in {{}, {"line"}, {"square"}}
    BY <2>2, <2>3, <2>5, <2>6, <2>7 DEF Pictures, Lines, h
  <2>9. b1[D!Height] = D!Blank
    BY <2>1, <2>2, <2>5 DEF D!Blank, D!BlankRow, D!Cols, D!Width
  <2>10. b1 \in Pictures
    BY <2>5
  <2> QED BY <2>1, <2>3, <2>8, <2>9, <2>10
<1>8. mem' \in [D!Areas -> Pictures] /\ mem'["back"] = b2
  <2> DEFINE m1 == D!Blitted(fb', mem, D!Rows)
             one == D!Drawn(fb', m1, 0, 0, "line")
             m2 == D!Blitted(fb', one, D!Rows)
  <2>1. mem' = D!Drawn(fb', m2, D!Height - 1, 0, "square")
    BY DEF D!DrawTestData
  <2>2. m1 \in [D!Areas -> Pictures] /\ m1["back"] = b
    BY <1>3, <1>5
  <2> HIDE DEF m1
  <2>3. one = [m1 EXCEPT !["back"] = b1]
    BY <1>6, <2>2
  <2> HIDE DEF b, b1, one
  <2>4. one \in [D!Areas -> Pictures] /\ one["back"] = b1
    BY <1>7, <2>2, <2>3 DEF D!Areas
  <2>5. m2 \in [D!Areas -> Pictures] /\ m2["back"] = b1
    BY <1>5, <2>4
  <2> HIDE DEF m2
  <2> DEFINE h == D!Height - 1
  <2>0. mem' = D!Drawn(fb', m2, h, 0, "square")
    BY <2>1
  <2>6. mem' = [m2 EXCEPT !["back"] = [m2["back"] EXCEPT ![h][0] = m2["back"][h][0] \cup {"square"}]]
    <3> HIDE DEF h, b2
    <3> QED BY <1>6, <2>0, <2>5
  <2>7. mem' = [m2 EXCEPT !["back"] = [b1 EXCEPT ![h][0] = b1[h][0] \cup {"square"}]]
    BY <2>5, <2>6
  <2>8. mem' = [m2 EXCEPT !["back"] = b2]
    BY <2>7
  <2> HIDE DEF b2
  <2> QED BY <1>7, <2>5, <2>8 DEF D!Areas
<1> HIDE DEF b, b1, b2
<1>9. roll' = [top |-> 0, rows |-> [r \in 0..MaxRow |-> IF r < D!Height THEN b2[r] ELSE D!Blank],
               smudged |-> FALSE]
      /\ cursor' = cursor /\ stray' = stray
  <2>1. fb.back = "back"
    BY <1>1
  <2>2. roll = [top |-> 0, rows |-> [r \in 0..MaxRow |-> D!Blank], smudged |-> FALSE]
    BY <1>3, UnusedIs DEF Unwritten
  <2>3. roll' = [roll EXCEPT !.rows = [r \in 0..MaxRow |-> IF r < D!Height THEN mem'["back"][r] ELSE D!Blank]]
        /\ cursor' = cursor /\ stray' = stray
    BY <2>1 DEF D!DrawTestData
  <2> QED BY <1>8, <2>2, <2>3
<1>10. /\ roll'.rows \in Papers /\ roll'.top = 0 /\ roll'.smudged = FALSE
       /\ \A n \in 0..MaxRow : roll'.rows[n] = IF n < D!Height THEN b2[n] ELSE D!Blank
       /\ cursor'.x = 0 /\ cursor'.y = 0 /\ cursor'.origin = 0 /\ stray' = FALSE
  <2>1. [r \in 0..MaxRow |-> IF r < D!Height THEN b2[r] ELSE D!Blank] \in Papers
    BY <1>4, <1>7 DEF Papers, Pictures
  <2> QED BY <1>3, <1>9, <2>1 DEF Unwritten
<1>11. (D!Console \in Consoles)'
  <2>1. /\ cursor'.x \in 0..D!Width /\ cursor'.y \in Nat /\ cursor'.origin \in Nat /\ roll'.top \in Nat
        /\ roll'.smudged \in BOOLEAN /\ stray' \in BOOLEAN
    <3>1. 0 \in 0..D!Width /\ 0 \in Nat /\ cursor'.x = 0 /\ cursor'.y = 0 /\ cursor'.origin = 0
          /\ roll'.top = 0 /\ roll'.smudged = FALSE /\ stray' = FALSE
      BY <1>4, <1>10
    <3> QED BY <3>1
  <2>2. D!Console' \in Consoles
    BY <1>8, <1>10, <2>1, ConsoleMade DEF D!Console
  <2> QED BY <2>2, SizeSame
<1>12. (Window(D!Console))' = b2
  <2>1. (D!Console.mem)' = mem' /\ D!Area' = "back"
    BY <1>2 DEF D!Console, D!Area
  <2> QED BY <1>8, <2>1 DEF Window
<1>13. (D!Console.top)' = 0 /\ (D!Console.y)' = 0 /\ (D!Console.stray)' = FALSE
       /\ (D!Console.rows)' = roll'.rows
  BY <1>10 DEF D!Console
<1>14. \A n \in Nat : TextOf(D!Console, n)' = IF n < D!Height THEN b2[n] ELSE D!Blank
  BY <1>4, <1>10, <1>13, SizeSame DEF TextOf
<1>15. Shows(D!Console)'
  <2>1. \A r \in 0..D!Height - 1 : b2[r] = TextOf(D!Console, 0 + r)'
    BY <1>4, <1>14
  <2>2. \A r \in 0 + 1..D!Height : r \in D!Rows
    BY <1>4
  <2>3. \A n \in Nat : n >= 0 + D!Height => TextOf(D!Console, n)' = D!Blank
    BY <1>4, <1>14
  <2> QED BY <1>7, <1>12, <1>13, <2>1, <2>2, <2>3, SizeSame DEF Shows
<1>16. Placed(D!Console)'
  BY <1>2, <1>4, <1>13, SizeSame DEF Placed
<1>17. DOMAIN cursor' = {"x", "y", "origin"}
  BY <1>3, <1>9 DEF Unwritten
<1> QED BY <1>11, <1>15, <1>16, <1>17 DEF InStep

\* A step that leaves the text alone.
LEMMA TextSame ==
  ASSUME InStep, OneBuffer, fb' = fb, size' = size, mem' \in [D!Areas -> Pictures],
         mem'["text"] = mem["text"], mem'["back"] = mem["back"], UNCHANGED <<cursor, roll, stray>>
  PROVE  InStep'
<1>1. D!Console \in Consoles /\ Shows(D!Console) /\ Placed(D!Console)
      /\ DOMAIN cursor' = {"x", "y", "origin"}
  BY DEF InStep
<1>2. (D!Console \in Consoles)'
  BY <1>1, ConsoleIs, ConsoleMade, SizeSame DEF D!Console
<1>3. D!Area' = D!Area /\ D!Area \in {"text", "back"}
  BY DEF OneBuffer, D!Area
<1>4. (D!Console.mem)' = mem' /\ D!Console.mem = mem
  BY DEF D!Console
<1>5. Window(D!Console)' = Window(D!Console)
  BY <1>3, <1>4 DEF Window
<1>6. (D!Console.top)' = D!Console.top /\ (D!Console.y)' = D!Console.y
      /\ (D!Console.stray)' = D!Console.stray /\ (D!Console.rows)' = D!Console.rows
  BY DEF D!Console
<1>7. \A n \in Nat : TextOf(D!Console, n)' = TextOf(D!Console, n)
  BY <1>6, SizeSame DEF TextOf
<1>8. \A r \in 0..D!Height - 1 : TextOf(D!Console, D!Console.top + r)' = TextOf(D!Console, D!Console.top + r)
  BY <1>6, SizeSame DEF TextOf
<1>9. Shows(D!Console)'
  BY <1>1, <1>5, <1>6, <1>7, <1>8, SizeSame DEF Shows
<1>10. Placed(D!Console)'
  BY <1>1, <1>6, SizeSame DEF Placed
<1> QED BY <1>1, <1>2, <1>9, <1>10 DEF InStep

LEMMA NothingLater == Sized /\ Unwritten /\ FrameInv /\ ~fb.configured => InStep
BY NothingShown

\* The size does not change any more.
LEMMA SizeStays ==
  ASSUME SizeInv, size' = size, mode' = mode, fb'.configured = fb.configured,
         at \notin Dark \ {"draw"}, at' \notin Dark \ {"draw"}
  PROVE  SizeInv'
<1>1. D!Refused' = D!Refused
  BY DEF D!Refused
<1>2. D!Usual(size)'
  BY DEF SizeInv, D!Usual
<1>3. at' # "configure"
  BY DEF Dark
<1> QED BY <1>1, <1>2, <1>3 DEF SizeInv

\* The steps up to the first text.
LEMMA DarkStep ==
  ASSUME D!DisplayAssumption, TextInv,
         \/ D!InitBochs \/ D!Alternative \/ D!QueryBochs \/ D!QueryVesa
         \/ D!ConfigureFails \/ D!Configure
  PROVE  TextInv'
<1> USE DEF D!bus, D!screen, D!console
<1>1. at \in Dark \ {"draw"} /\ Unwritten /\ ~fb.configured /\ FrameInv
  BY DEF TextInv, PaperInv, FrameInv, Dark, D!InitBochs, D!Alternative, D!QueryBochs, D!QueryVesa,
         D!ConfigureFails, D!Configure
<1>2. fb.buffer = D!Null /\ ~fb.direct
  BY <1>1 DEF FrameInv
<1>3. CASE D!InitBochs \/ D!Alternative \/ D!QueryBochs
  <2>1. at' \in Dark \ {"draw"} /\ UNCHANGED <<mem, size, cursor, roll, stray>>
    BY <1>3 DEF D!InitBochs, D!Alternative, D!QueryBochs, Dark
  <2>2. /\ fb' \in [class: {"bochs", "vesa"}, hg: {fb'.hg}, direct: BOOLEAN, configured: BOOLEAN,
                    back: Buffers, buffer: Buffers]
        /\ ~fb'.configured /\ fb'.buffer = D!Null /\ ~fb'.direct
    <3>1. CASE D!InitBochs
      BY <1>1, <1>2, <3>1 DEF D!InitBochs, FrameInv
    <3>2. CASE D!Alternative
      BY <3>2 DEF D!Alternative, D!NewFB, Buffers
    <3>3. CASE D!QueryBochs
      BY <1>1, <1>2, <3>3 DEF D!QueryBochs, FrameInv
    <3> QED BY <1>3, <3>1, <3>2, <3>3
  <2>3. FrameInv'
    BY <2>1, <2>2 DEF FrameInv, Dark
  <2>4. Unwritten'
    BY <1>1, <2>1 DEF Unwritten
  <2>5. SizeInv'
    <3>1. size = D!TextSize /\ D!Usual(size)
      BY <1>1 DEF TextInv, SizeInv
    <3>2. CASE D!QueryBochs
      <4>1. mode'.id = 1 /\ mode'.width = Prefer.width /\ mode'.height = Prefer.height
        BY <3>2 DEF D!QueryBochs
      <4>2. D!Adapted(mode)' = D!Adapted(Prefer)
        BY <4>1 DEF D!Adapted
      <4>3. D!Usual(D!Adapted(mode))'
        BY <4>2 DEF D!DisplayAssumption, D!Usual
      <4> QED BY <2>1, <3>1, <4>1, <4>3 DEF SizeInv
    <3>3. CASE ~D!QueryBochs
      <4>1. at' # "configure"
        BY <1>3, <3>3 DEF D!InitBochs, D!Alternative
      <4> QED BY <2>1, <3>1, <4>1 DEF SizeInv
    <3> QED BY <3>2, <3>3
  <2> QED BY <2>1, <2>3, <2>4, <2>5 DEF TextInv, PaperInv
<1>4. CASE D!QueryVesa
  <2>1. at' \in {"configure", "scan"} /\ UNCHANGED <<fb, mem, size, cursor, roll, stray>>
    BY <1>4 DEF D!QueryVesa
  <2>2. size = D!TextSize /\ D!Usual(size) /\ Sized /\ fb.class = "vesa"
    BY <1>1, <1>4 DEF TextInv, SizeInv, Sized, D!QueryVesa
  <2>3. FrameInv'
    BY <1>1, <2>1 DEF FrameInv, Dark
  <2>4. Unwritten'
    BY <1>1, <2>1 DEF Unwritten
  <2>5. InStep'
    <3>1. InStep /\ OneBuffer
      BY <1>1, <2>2, NothingShown DEF OneBuffer, FrameInv
    <3>2. mem \in [D!Areas -> Pictures]
      BY <1>1, <2>2, UnusedIs DEF Unwritten
    <3> QED BY <2>1, <3>1, <3>2, TextSame
  <2>6. at' = "configure" => D!Usual(D!Adapted(mode))'
    <3> SUFFICES ASSUME at' = "configure" PROVE D!Usual(D!Adapted(mode))'
      OBVIOUS
    <3>1. PICK list \in ModeLists, bpl \in LineLengths :
            LET prefer == [Prefer EXCEPT !.bpl = bpl]
                k      == D!ModeChosen(list, prefer)
            IN  k # 0 /\ mode' = [f \in DOMAIN D!NoMode |-> list[k][f]]
      BY <1>4 DEF D!QueryVesa
    <3> DEFINE prefer == [Prefer EXCEPT !.bpl = bpl]
               k      == D!ModeChosen(list, prefer)
               n      == Len(list)
               Modes  == [width: Nat, height: Nat, depth: Nat, bpl: Nat, id: Nat, linear: BOOLEAN]
    <3>2. list \in Seq(Modes)
      BY DEF D!DisplayAssumption
    <3> HIDE DEF Modes
    <3>3. n \in Nat /\ DOMAIN list = 1..n
      BY <3>2
    <3>4. Right(list, prefer, n, k)
      BY <3>3, ModeRight
    <3>5. k # 0 /\ mode' = [f \in DOMAIN D!NoMode |-> list[k][f]]
      BY <3>1
    <3> HIDE DEF k, prefer, n
    <3>6. k \in DOMAIN list
      BY <3>3, <3>4, <3>5 DEF Right
    <3>7. mode'.width = list[k].width /\ mode'.height = list[k].height
      BY <3>5 DEF D!NoMode
    <3>8. D!Adapted(mode)' = D!Adapted(list[k])
      BY <3>7 DEF D!Adapted
    <3>9. D!Usual(D!Adapted(list[k]))
      BY <3>6 DEF D!DisplayAssumption
    <3> QED BY <3>8, <3>9 DEF D!Usual
  <2>7. SizeInv'
    <3>1. at' # "configure" => at' \notin Dark \ {"draw"} /\ ~fb'.configured
      BY <1>1, <2>1 DEF Dark
    <3> QED BY <2>1, <2>2, <2>6, <3>1 DEF SizeInv, Dark
  <2> QED BY <2>1, <2>3, <2>4, <2>5, <2>7 DEF TextInv, PaperInv
<1>5. CASE D!ConfigureFails \/ D!Configure
  <2>1. /\ at = "configure" /\ size' = D!Adapted(mode) /\ mode' = mode
        /\ mem' = D!Unused(size') /\ roll' = D!NoText(size') /\ stray' = stray
        /\ cursor' = [cursor EXCEPT !.x = 0, !.y = 0]
    BY <1>5 DEF D!ConfigureFails, D!Configure, D!Adapt
  <2>2. D!Usual(size') /\ Sized'
    BY <2>1 DEF TextInv, SizeInv, Sized, Dark
  <2>3. Unwritten'
    <3>1. cursor' = cursor
      <4>1. cursor \in [x: {0}, y: {0}, origin: {0}]
        BY <1>1 DEF Unwritten
      <4>2. cursor' \in [x: {0}, y: {0}, origin: {0}]
        BY <2>1, <4>1
      <4> QED BY <4>1, <4>2
    <3> QED BY <1>1, <2>1, <3>1 DEF Unwritten
  <2>4. CASE D!ConfigureFails
    <3>1. at' = "scan" /\ fb' = fb /\ fb.class = "bochs"
      BY <2>4 DEF D!ConfigureFails
    <3>2. FrameInv'
      BY <1>1, <3>1 DEF FrameInv, Dark
    <3>3. InStep'
      <4>1. (Sized /\ Unwritten /\ FrameInv /\ ~fb.configured)'
        BY <1>1, <2>2, <2>3, <3>1, <3>2
      <4> QED BY <4>1, NothingLater, PTL
    <3>4. D!Refused'
      <4>1. mode'.id = 1
        BY <2>1, <3>1 DEF TextInv, SizeInv
      <4>2. D!NoMode.id = 0
        BY DEF D!NoMode
      <4> QED BY <1>1, <3>1, <4>1, <4>2 DEF D!Refused
    <3>5. SizeInv'
      BY <1>1, <2>2, <3>1, <3>4 DEF SizeInv, Dark
    <3> QED BY <3>1, <3>2, <3>3, <3>5 DEF TextInv, PaperInv, Dark
  <2>5. CASE D!Configure
    <3>1. at' = "draw" /\ fb' \in D!AllocBuffers(fb)
      BY <2>5 DEF D!Configure
    <3>2. \/ fb' = [fb EXCEPT !.configured = TRUE, !.direct = TRUE, !.back = "screen"]
          \/ fb' = [fb EXCEPT !.configured = TRUE, !.back = "back"]
          \/ fb' = [fb EXCEPT !.configured = TRUE, !.back = "back", !.buffer = "buffer"]
      BY <3>1 DEF D!AllocBuffers
    <3>3. /\ fb' \in [class: {"bochs", "vesa"}, hg: {fb'.hg}, direct: BOOLEAN, configured: BOOLEAN,
                      back: Buffers, buffer: Buffers]
          /\ fb'.configured /\ (fb'.buffer = D!Null
               \/ (fb'.back = "back" /\ fb'.buffer = "buffer" /\ ~fb'.direct))
      BY <1>1, <1>2, <3>2 DEF FrameInv, Buffers, D!Areas
    <3>4. FrameInv'
      BY <3>1, <3>3 DEF FrameInv, Dark
    <3>5. SizeInv'
      <4>1. size' = D!Adapted(mode')
        BY <2>1
      <4> QED BY <2>2, <3>1, <3>3, <4>1 DEF SizeInv, Dark
    <3> QED BY <2>3, <3>1, <3>4, <3>5 DEF TextInv, PaperInv, Dark
  <2> QED BY <1>5, <2>4, <2>5
<1> QED BY <1>3, <1>4, <1>5

\* drawTestData().
LEMMA TestStep ==
  ASSUME D!DisplayAssumption, TextInv, D!DrawTestData
  PROVE  TextInv'
<1>1. at = "draw" /\ at' = "scan" /\ fb' = D!Swapped(fb) /\ FrameInv /\ size' = size /\ mode' = mode
  BY DEF D!DrawTestData, TextInv
<1>4. Sized /\ SizeInv
  BY DEF TextInv, SizeInv, Sized
<1>5. SizeInv'
  <2>1. fb'.configured = fb.configured
    BY <1>1 DEF D!Swapped, FrameInv
  <2> QED BY <1>1, <1>4, <2>1, SizeStays DEF Dark
<1>2. CASE fb.buffer = D!Null
  <2>1. fb' = fb
    BY <1>1, <1>2 DEF D!Swapped
  <2>2. FrameInv' /\ D!NoBuffer'
    BY <1>1, <1>2, <2>1 DEF FrameInv, D!NoBuffer, Dark
  <2> QED BY <1>1, <1>5, <2>2 DEF TextInv, PaperInv, Dark
<1>3. CASE fb.buffer # D!Null
  <2>1. fb' = [fb EXCEPT !.buffer = "back"] /\ fb.back = "back"
    BY <1>1, <1>3 DEF FrameInv, D!Swapped, D!Null
  <2>2. FrameInv'
    <3>1. /\ fb' \in [class: {"bochs", "vesa"}, hg: {fb'.hg}, direct: BOOLEAN, configured: BOOLEAN,
                      back: Buffers, buffer: Buffers]
          /\ fb'.configured /\ fb'.back = "back" /\ fb'.buffer = "back"
      BY <1>1, <2>1 DEF FrameInv, Buffers, D!Areas
    <3> QED BY <1>1, <3>1 DEF FrameInv, Dark
  <2>3. InStep'
    BY <1>1, <1>3, <1>4, TestShown
  <2> QED BY <1>1, <1>5, <2>2, <2>3 DEF TextInv, PaperInv, Dark
<1> QED BY <1>2, <1>3

\* The copies of kernel_loop() and the steps that have nothing to do with the screen.
LEMMA CopyStep ==
  ASSUME D!DisplayAssumption, TextInv,
         \/ D!ScanDevices \/ D!SetUpController \/ D!OutOfMemory \/ D!NoController \/ D!Stuck
         \/ D!LoopSwap \/ D!LoopBlit \/ D!LoopBlitRest
  PROVE  TextInv'
<1> USE DEF D!bus, D!screen, D!console, D!vars
<1>1. at \notin Dark /\ at' \notin Dark /\ UNCHANGED <<size, mode, cursor, roll, stray>>
  BY DEF Dark, D!ScanDevices, D!SetUpController, D!OutOfMemory, D!NoController, D!Stuck,
         D!LoopSwap, D!LoopBlit, D!LoopBlitRest
<1>2. FrameInv
  BY DEF TextInv
<1>3. fb' = fb
  <2>1. CASE D!LoopSwap
    BY <1>1, <1>2, <2>1 DEF D!LoopSwap, D!Swapped, FrameInv
  <2>2. CASE ~D!LoopSwap
    BY <2>2 DEF D!ScanDevices, D!SetUpController, D!OutOfMemory, D!NoController, D!Stuck,
         D!LoopBlit, D!LoopBlitRest
  <2> QED BY <2>1, <2>2
<1>4. FrameInv'
  BY <1>1, <1>2, <1>3 DEF FrameInv, Dark
<1>9. SizeInv'
  BY <1>1, <1>3, SizeStays DEF TextInv
<1>5. \/ mem' = mem
      \/ \E rows : mem' = D!Blitted(fb, mem, rows)
  BY DEF D!ScanDevices, D!SetUpController, D!OutOfMemory, D!NoController, D!Stuck,
         D!LoopSwap, D!LoopBlit, D!LoopBlitRest
<1>6. CASE D!NoBuffer
  BY <1>1, <1>3, <1>4, <1>6, <1>9 DEF TextInv, PaperInv, D!NoBuffer
<1>7. CASE roll.smudged = TRUE
  BY <1>1, <1>4, <1>7, <1>9 DEF TextInv, PaperInv
<1>8. CASE ~D!NoBuffer /\ InStep
  <2>1. OneBuffer
    BY <1>1, <1>2, <1>8, BufferThere
  <2>2. mem \in [D!Areas -> Pictures]
    BY <1>8, ConsoleIs DEF InStep
  <2>3. /\ mem' \in [D!Areas -> Pictures] /\ mem'["text"] = mem["text"] /\ mem'["back"] = mem["back"]
    <3>1. ASSUME NEW rows, mem' = D!Blitted(fb, mem, rows), ~fb.direct
          PROVE  /\ mem' \in [D!Areas -> Pictures] /\ mem'["text"] = mem["text"] /\ mem'["back"] = mem["back"]
      <4> DEFINE q == [r \in D!Rows |-> IF r \in rows THEN D!Copied(fb, mem, r) ELSE mem["screen"][r]]
      <4>1. mem' = [mem EXCEPT !["screen"] = q]
        BY <3>1 DEF D!Blitted
      <4>2. \A r \in D!Rows : D!Copied(fb, mem, r) \in Lines
        <5> SUFFICES ASSUME NEW r \in D!Rows PROVE D!Copied(fb, mem, r) \in Lines
          OBVIOUS
        <5>1. CASE fb.buffer = D!Null
          BY <5>1 DEF D!Copied, Lines, Ink
        <5>2. CASE fb.buffer # D!Null
          <6>1. fb.buffer \in D!Areas
            BY <1>2, <5>2 DEF FrameInv, Buffers
          <6> QED BY <2>2, <5>2, <6>1 DEF D!Copied, Pictures
        <5> QED BY <5>1, <5>2
      <4>3. q \in Pictures
        BY <2>2, <4>2 DEF Pictures, D!Areas
      <4> HIDE DEF q
      <4> QED BY <2>2, <4>1, <4>3 DEF D!Areas
    <3>2. ASSUME NEW rows, mem' = D!Blitted(fb, mem, rows), fb.direct
          PROVE  mem' = mem
      BY <3>2 DEF D!Blitted
    <3> QED BY <1>5, <2>2, <3>1, <3>2
  <2>4. InStep'
    BY <1>1, <1>3, <1>8, <2>1, <2>3, TextSame
  <2> QED BY <1>1, <1>4, <1>9, <2>4 DEF TextInv, PaperInv
<1> QED BY <1>1, <1>6, <1>7, <1>8 DEF TextInv, PaperInv

\* Text is written.
LEMMA WriteStep ==
  ASSUME D!DisplayAssumption, TextInv, NEW ch \in Glyphs \cup {"newline", "tab", "backspace"},
         D!HandleChar(ch)
  PROVE  TextInv'
<1> USE DEF D!bus, D!screen
<1> DEFINE s == D!Console
           z == D!PutCh(IF ch = "newline" THEN [s EXCEPT !.x = 0, !.y = s.y + 1] ELSE s, ch)
<1>1. /\ at \notin Dark /\ at' = at /\ fb' = fb /\ size' = size /\ mode' = mode /\ FrameInv
      /\ Sized /\ roll.top + cursor.y + 2 <= MaxRow /\ D!Becomes(z)
  BY DEF D!HandleChar, TextInv, SizeInv, Sized, Dark
<1>2. s.smudged = roll.smudged /\ "smudged" \in DOMAIN s /\ s.top = roll.top /\ s.y = cursor.y
  BY DEF D!Console
<1> HIDE DEF s
<1>3. FrameInv'
  BY <1>1 DEF FrameInv
<1>7. SizeInv'
  BY <1>1, SizeStays DEF TextInv
<1>4. CASE D!NoBuffer
  BY <1>1, <1>3, <1>4, <1>7 DEF TextInv, PaperInv, D!NoBuffer
<1>5. CASE roll.smudged = TRUE
  <2>1. Marked(z)
    BY <1>2, <1>5, MarkStays DEF Marked
  <2> HIDE DEF z
  <2>2. roll'.smudged = TRUE
    BY <1>1, <2>1 DEF D!Becomes, Marked
  <2> QED BY <1>1, <1>3, <1>7, <2>2 DEF TextInv, PaperInv
<1>6. CASE ~D!NoBuffer /\ InStep
  <2>1. OneBuffer
    BY <1>1, <1>6, BufferThere
  <2>2. s \in Consoles /\ Shows(s) /\ Placed(s) /\ s.top + s.y + 2 <= MaxRow
    BY <1>1, <1>2, <1>6 DEF InStep, s
  <2>3. Sound(z)
    BY <1>1, <2>1, <2>2, CharWritten
  <2> HIDE DEF z
  <2>4. D!Console' = z
    <3>1. D!Console' = [mem |-> z.mem, x |-> z.x, y |-> z.y, origin |-> z.origin,
                        top |-> z.top, rows |-> z.rows, smudged |-> z.smudged, stray |-> z.stray]
      BY <1>1 DEF D!Console, D!Becomes
    <3> QED BY <2>3, <3>1 DEF Sound, Consoles
  <2>5. roll'.smudged = z.smudged /\ z.smudged \in BOOLEAN
    BY <1>1, <2>3 DEF D!Becomes, Sound, Consoles
  <2>6. CASE z.smudged
    BY <1>1, <1>3, <1>7, <2>5, <2>6 DEF TextInv, PaperInv
  <2>7. CASE ~z.smudged
    <3>1. z \in Consoles /\ Shows(z) /\ Placed(z)
      BY <2>3, <2>7 DEF Sound
    <3>2. D!Area' = D!Area
      BY <1>1 DEF D!Area
    <3>3. Shows(D!Console)' /\ Placed(D!Console)' /\ (D!Console \in Consoles)'
      BY <1>1, <2>4, <3>1, <3>2, SizeSame DEF Shows, Placed, Window, TextOf
    <3>4. DOMAIN cursor' = {"x", "y", "origin"}
      BY <1>1 DEF D!Becomes
    <3>5. InStep'
      BY <3>3, <3>4 DEF InStep
    <3> QED BY <1>1, <1>3, <1>7, <3>5 DEF TextInv, PaperInv
  <2> QED BY <2>6, <2>7
<1> QED BY <1>1, <1>4, <1>5, <1>6 DEF TextInv, PaperInv

\* startReading() notes the column.
LEMMA OriginStep ==
  ASSUME D!DisplayAssumption, TextInv, D!SetOrigin
  PROVE  TextInv'
<1> USE DEF D!bus, D!screen
<1>1. /\ at \notin Dark /\ at' = at /\ fb' = fb /\ FrameInv /\ UNCHANGED <<mode, mem, size, roll, stray>> /\ Sized
      /\ cursor' = [cursor EXCEPT !.origin = cursor.x]
  BY DEF D!SetOrigin, TextInv, SizeInv, Sized, Dark
<1>2. FrameInv'
  BY <1>1 DEF FrameInv
<1>6. SizeInv'
  BY <1>1, SizeStays DEF TextInv
<1>3. CASE D!NoBuffer
  BY <1>1, <1>2, <1>3, <1>6 DEF TextInv, PaperInv, D!NoBuffer
<1>4. CASE roll.smudged = TRUE
  BY <1>1, <1>2, <1>4, <1>6 DEF TextInv, PaperInv
<1>5. CASE InStep
  <2>1. cursor.x \in 0..D!Width /\ cursor.y \in Nat /\ mem \in [D!Areas -> Pictures] /\ roll.top \in Nat
        /\ roll.rows \in Papers /\ roll.smudged \in BOOLEAN /\ stray \in BOOLEAN
    BY <1>5, ConsoleIs DEF InStep
  <2>2. /\ cursor'.x = cursor.x /\ cursor'.y = cursor.y /\ cursor'.origin = cursor.x
        /\ DOMAIN cursor' = {"x", "y", "origin"}
    BY <1>1, <1>5 DEF InStep
  <2>3. cursor.x \in Nat
    BY <1>1, <2>1, ScreenSizes
  <2>4. (D!Console \in Consoles)'
    BY <1>1, <2>1, <2>2, <2>3, ConsoleMade, SizeSame DEF D!Console
  <2>5. D!Area' = D!Area
    BY <1>1 DEF D!Area
  <2>6. /\ (D!Console.mem)' = D!Console.mem /\ (D!Console.rows)' = D!Console.rows
        /\ (D!Console.top)' = D!Console.top /\ (D!Console.y)' = D!Console.y
        /\ (D!Console.stray)' = D!Console.stray
    BY <1>1, <2>2 DEF D!Console
  <2>7. Shows(D!Console)' /\ Placed(D!Console)'
    BY <1>1, <1>5, <2>5, <2>6, SizeSame DEF InStep, Shows, Placed, Window, TextOf
  <2>8. InStep'
    BY <2>2, <2>4, <2>7 DEF InStep
  <2> QED BY <1>1, <1>2, <1>6, <2>8 DEF TextInv, PaperInv
<1> QED BY <1>1, <1>3, <1>4, <1>5 DEF TextInv, PaperInv

\* The invariant holds at first.
LEMMA TextBegins == ASSUME D!DisplayAssumption, D!Init PROVE TextInv
<1>1. at = "video" /\ fb = D!NewFB("bochs")
  BY DEF D!Init
<1>2. FrameInv
  BY <1>1 DEF FrameInv, D!NewFB, Buffers, Dark
<1>3. SizeInv
  BY <1>1 DEF D!Init, SizeInv, D!DisplayAssumption, Dark
<1>4. Unwritten
  BY DEF D!Init, Unwritten
<1> QED BY <1>1, <1>2, <1>3, <1>4 DEF TextInv, PaperInv, Dark

\* Every step keeps it.
LEMMA TextSteps == ASSUME D!DisplayAssumption, TextInv, [D!Next]_(D!vars) PROVE TextInv'
<1>1. CASE UNCHANGED D!vars
  <2>1. UNCHANGED <<at, fb, mode, mem, size, cursor, roll, stray>>
    BY <1>1 DEF D!vars, D!bus, D!screen, D!console
  <2>2. FrameInv'
    BY <2>1 DEF TextInv, FrameInv
  <2>3. Unwritten => Unwritten'
    BY <2>1 DEF Unwritten
  <2>4. D!NoBuffer => D!NoBuffer'
    BY <2>1 DEF D!NoBuffer
  <2>5. InStep /\ ~D!NoBuffer /\ at \notin Dark => InStep'
    <3> HAVE InStep /\ ~D!NoBuffer /\ at \notin Dark
    <3>1. OneBuffer /\ mem \in [D!Areas -> Pictures]
      BY BufferThere, ConsoleIs DEF TextInv, InStep
    <3> QED BY <2>1, <3>1, TextSame
  <2>6. SizeInv'
    <3>1. D!Usual(size)' /\ D!Usual(D!Adapted(mode))' = D!Usual(D!Adapted(mode)) /\ D!Refused' = D!Refused
      BY <2>1 DEF TextInv, SizeInv, D!Usual, D!Adapted, D!Refused
    <3>2. D!Adapted(mode)' = D!Adapted(mode)
      BY <2>1 DEF D!Adapted
    <3> QED BY <2>1, <3>1, <3>2 DEF TextInv, SizeInv
  <2> QED BY <2>1, <2>2, <2>3, <2>4, <2>5, <2>6 DEF TextInv, PaperInv
<1>2. CASE D!KernelStep
  BY <1>2, DarkStep, TestStep, CopyStep DEF D!KernelStep
<1>3. CASE D!Stuck
  BY <1>3, CopyStep
<1>4. CASE D!Write
  BY <1>4, WriteStep DEF D!Write
<1>5. CASE D!SetOrigin
  BY <1>5, OriginStep
<1> QED BY <1>1, <1>2, <1>3, <1>4, <1>5 DEF D!Next

\* It says what the run checks.
LEMMA TextReady == ASSUME D!DisplayAssumption, TextInv PROVE D!TextKept
<1> SUFFICES ASSUME D!Running, ~D!NoBuffer, ~roll.smudged
             PROVE  /\ \A r \in 0..D!Height - 1 : mem[D!Area][r] = D!RollRow(roll.top + r)
                    /\ \A r \in cursor.y + 1..D!Height, c \in D!Cols : mem[D!Area][r][c] \cap Glyphs = {}
                    /\ ~stray
                    /\ D!Refused \/ size = D!ShownSize
  BY DEF D!TextKept
<1>1. at \notin Dark
  BY DEF D!Running, Dark
<1>2. InStep
  BY <1>1 DEF TextInv, PaperInv
<1>3. D!Console.mem = mem /\ D!Console.y = cursor.y /\ D!Console.top = roll.top
      /\ D!Console.rows = roll.rows /\ D!Console.stray = stray
  BY DEF D!Console
<1>4. \A n : TextOf(D!Console, n) = D!RollRow(n)
  BY <1>3 DEF TextOf, D!RollRow
<1>5. D!Refused \/ size = D!ShownSize
  BY <1>1 DEF TextInv, SizeInv, D!ShownSize, Dark
<1> QED BY <1>2, <1>3, <1>4, <1>5 DEF InStep, Shows, Window

\* Whatever is written, by characters, tabs, backspaces and new lines, with a frame buffer or without
\* one, the screen is a window on the text: scroll(), putCh() and drawTestData() lose and move nothing,
\* for any size of the screen, any tabs and any characters.
THEOREM TextIsKept == StartSpec => []TextKept
<1>1. StartInit => TextInv
  BY TextBegins, StartAssumption DEF StartInit
<1>2. TextInv /\ [StartNext]_all => TextInv'
  <2>1. [StartNext]_all => [D!Next]_(D!vars)
    BY DEF StartNext, Devices, Others, Objects, all, screen, D!vars, D!bus, D!screen, D!console
  <2> QED BY <2>1, TextSteps, StartAssumption
<1>3. TextInv => TextKept
  BY TextReady, StartAssumption DEF TextKept
<1> QED BY <1>1, <1>2, <1>3, PTL DEF StartSpec
================================================================================
